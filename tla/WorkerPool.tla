----------------------------- MODULE WorkerPool -----------------------------
(***************************************************************************)
(* workers.ProcessConcurrentlyWithIndexes (pkg/workers/workers.go), with   *)
(* which the mesh controller deploys, starts and stops its nodes: workers  *)
(* take indexes from a channel that is filled and closed beforehand,       *)
(* check the context, call the callback and store its result; the caller   *)
(* waits for the workers and reads the results.                            *)
(*                                                                         *)
(* The channel has room for every index and hands them out in the order    *)
(* in which they were sent, so what it holds is taken+1 .. sent.           *)
(***************************************************************************)
EXTENDS Naturals, Sequences

CONSTANTS
  N,         \* how many objects there are; objects are numbered from 1
  Workers,   \* the worker goroutines
  Errors,    \* the errors a callback or the context may return, by identity
  Nil,       \* the nil error
  CtxErr     \* ctx.Err() once ctx is done

ASSUME PoolAssumption ==
  /\ N \in Nat
  /\ Workers = {} => N = 0     \* the mesh controller passes min(N, 32)
  /\ CtxErr \in Errors
  /\ Nil \notin Errors

VARIABLES
  cancelled,   \* ctx is done
  main,        \* where the caller's goroutine is
  sent,        \* how many indexes have been sent
  taken,       \* how many have been received
  pc,          \* where each worker is
  job,         \* job[w]: the index that w has received
  results,     \* results.Items
  succeeded    \* history: the objects whose callback returned nil

Objects   == 1..N
NoObject  == 0
Zero      == [object |-> NoObject, err |-> Nil]
channel   == <<sent, taken>>
vars      == <<cancelled, main, channel, pc, job, results, succeeded>>

TypeOK ==
  /\ cancelled \in BOOLEAN
  /\ main \in {"send", "wait", "returned"}
  /\ sent \in 0..N
  /\ taken \in 0..N
  /\ pc \in [Workers -> {"range", "select", "call", "done"}]
  /\ job \in [Workers -> 0..N]
  /\ results \in [Objects -> [object : 0..N, err : Errors \cup {Nil}]]
  /\ succeeded \subseteq Objects

Init ==
  /\ cancelled \in BOOLEAN
  /\ main = "send"
  /\ sent = 0 /\ taken = 0
  /\ pc = [w \in Workers |-> "range"]
  /\ job = [w \in Workers |-> NoObject]
  /\ results = [i \in Objects |-> Zero]
  /\ succeeded = {}

-----------------------------------------------------------------------------
(* The caller. *)

Send ==
  /\ main = "send"
  /\ sent < N
  /\ sent' = sent + 1
  /\ UNCHANGED <<cancelled, main, taken, pc, job, results, succeeded>>

CloseJobs ==
  /\ main = "send"
  /\ sent = N
  /\ main' = "wait"
  /\ UNCHANGED <<cancelled, channel, pc, job, results, succeeded>>

(* Mutant of Return: the wait group is not waited for. *)
ReturnAtOnce ==
  /\ main = "wait"
  /\ main' = "returned"
  /\ UNCHANGED <<cancelled, channel, pc, job, results, succeeded>>

Return ==
  /\ main = "wait"
  /\ \A w \in Workers : pc[w] = "done"
  /\ main' = "returned"
  /\ UNCHANGED <<cancelled, channel, pc, job, results, succeeded>>

-----------------------------------------------------------------------------
(* A worker. *)

Receive(w) ==
  /\ pc[w] = "range"
  /\ taken < sent
  /\ taken' = taken + 1
  /\ job' = [job EXCEPT ![w] = taken + 1]
  /\ pc' = [pc EXCEPT ![w] = "select"]
  /\ UNCHANGED <<cancelled, main, sent, results, succeeded>>

(* Mutant of Quit: an empty channel ends the worker, closed or not. *)
QuitWhenEmpty(w) ==
  /\ pc[w] = "range"
  /\ taken = sent
  /\ pc' = [pc EXCEPT ![w] = "done"]
  /\ UNCHANGED <<cancelled, main, channel, job, results, succeeded>>

(* The channel is closed and empty. *)
Quit(w) ==
  /\ pc[w] = "range"
  /\ main # "send"
  /\ taken = sent
  /\ pc' = [pc EXCEPT ![w] = "done"]
  /\ UNCHANGED <<cancelled, main, channel, job, results, succeeded>>

Store(w, e) ==
  /\ results' = [results EXCEPT ![job[w]] = [object |-> job[w], err |-> e]]
  /\ job' = [job EXCEPT ![w] = NoObject]
  /\ pc' = [pc EXCEPT ![w] = "range"]
  /\ UNCHANGED <<cancelled, main, channel>>

(* The context is done: the object gets its error. *)
Skip(w) ==
  /\ pc[w] = "select"
  /\ cancelled
  /\ Store(w, CtxErr)
  /\ UNCHANGED succeeded

Call(w) ==
  /\ pc[w] = "select"
  /\ ~cancelled
  /\ pc' = [pc EXCEPT ![w] = "call"]
  /\ UNCHANGED <<cancelled, main, channel, job, results, succeeded>>

CallbackReturns(w) ==
  /\ pc[w] = "call"
  /\ \E e \in Errors \cup {Nil} :
       /\ Store(w, e)
       /\ succeeded' = IF e = Nil THEN succeeded \cup {job[w]} ELSE succeeded

-----------------------------------------------------------------------------
Cancel ==
  /\ ~cancelled
  /\ cancelled' = TRUE
  /\ UNCHANGED <<main, channel, pc, job, results, succeeded>>

Caller == Send \/ CloseJobs \/ Return

Worker(w) == Receive(w) \/ Quit(w) \/ Skip(w) \/ Call(w) \/ CallbackReturns(w)

Next == Caller \/ (\E w \in Workers : Worker(w)) \/ Cancel

Spec == Init /\ [][Next]_vars

(* The goroutines run and every callback returns. *)
Fairness == WF_vars(Caller) /\ \A w \in Workers : WF_vars(Worker(w))

FairSpec == Spec /\ Fairness

-----------------------------------------------------------------------------
(* What the callers make of the results. *)

AllSucceeded == \A i \in Objects : results[i].err = Nil

(* Mutants of Repeats: an error is known only when it is the last one; no  *)
(* error is known.                                                         *)
RepeatsLast(top, e) == top # <<>> /\ top[Len(top)] = e

(* The error is one that GetTopErrors has already met. *)
Repeats(top, e) == \E k \in DOMAIN top : top[k] = e

(* GetTopErrors: it stops at the third error. *)
GetTopErrors ==
  LET top[n \in 0..N] ==
        IF n = 0 THEN <<>>
        ELSE LET e == results[n].err IN
             IF e = Nil \/ Repeats(top[n - 1], e) \/ Len(top[n - 1]) = 3
             THEN top[n - 1]
             ELSE Append(top[n - 1], e)
  IN  top[N]

-----------------------------------------------------------------------------
(* Properties. *)

(* A call that reports success has called the callback of every object,    *)
(* and each returned nil: a zero Result, whose error is nil too, never     *)
(* passes for one.                                                         *)
SuccessIsReal == main = "returned" /\ AllSucceeded => succeeded = Objects

(* GetTopErrors against its comment, "the first three unique errors": they *)
(* are distinct, there are three unless there are fewer errors, and an     *)
(* error that is left out first occurs after those that are in.            *)
TopErrorsAreFirst ==
  LET top      == GetTopErrors
      met      == {top[k] : k \in DOMAIN top}
      failures == {i \in Objects : results[i].err # Nil}
  IN  /\ \A j, k \in DOMAIN top : j # k => top[j] # top[k]
      /\ Len(top) <= 3
      /\ \A i \in failures : results[i].err \in met \/
           /\ Len(top) = 3
           /\ \A e \in met : \E j \in failures : j < i /\ results[j].err = e

(* The refinement: an object whose index waits in the channel, or was      *)
(* received but not yet checked, is pending.                               *)
State(i) ==
  IF results[i].object = i THEN "settled"
  ELSE IF \E w \in Workers : pc[w] = "call" /\ job[w] = i THEN "running"
  ELSE "pending"

Map == INSTANCE ParallelMap WITH
         state    <- [i \in Objects |-> State(i)],
         err      <- [i \in Objects |-> results[i].err],
         returned <- (main = "returned")

(* The pool does what ParallelMap promises, its progress included: every   *)
(* callback runs at most once, none is left out unless the context is      *)
(* done, and the call returns once the callbacks have.                     *)
MapSafety == Map!Spec
MapSpec   == Map!FairSpec

-----------------------------------------------------------------------------
(* The inductive strengthening. *)

Busy(w) == pc[w] \in {"select", "call"}

(* Every index is in one place: not yet taken, with one worker, or settled. *)
EachIndexOnce ==
  /\ taken <= sent
  /\ \A w \in Workers : Busy(w) => job[w] \in 1..taken /\ results[job[w]] = Zero
  /\ \A v, w \in Workers : Busy(v) /\ Busy(w) /\ v # w => job[v] # job[w]
  /\ \A i \in Objects : i > taken => results[i] = Zero
  /\ \A i \in 1..taken : \/ \E w \in Workers : Busy(w) /\ job[w] = i
                         \/ results[i].object = i
  /\ \A i \in Objects : i \in succeeded <=> results[i].object = i /\ results[i].err = Nil

DoneMeansDrained ==
  /\ main # "send" => sent = N
  /\ \A w \in Workers : pc[w] = "done" => main # "send" /\ taken = N
  /\ main = "returned" => \A w \in Workers : pc[w] = "done"

PoolInv ==
  /\ TypeOK
  /\ EachIndexOnce
  /\ DoneMeansDrained
=============================================================================
