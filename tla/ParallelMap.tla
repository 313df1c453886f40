---------------------------- MODULE ParallelMap ----------------------------
(***************************************************************************)
(* What workers.ProcessConcurrentlyWithIndexes promises its callers: the   *)
(* callback runs once for every object, except for those that the          *)
(* cancellation reaches first, which get the context's error; the call     *)
(* returns when every object has its result and no callback is running.    *)
(***************************************************************************)
CONSTANTS
  Objects,    \* the indexes of the objects
  Errors,     \* the errors that callbacks return
  Nil,        \* no error
  CtxErr      \* ctx.Err()

VARIABLES
  cancelled,  \* ctx is done
  state,      \* state[i]: "pending", "running" or "settled"
  err,        \* err[i]: the error of object i's result
  returned    \* the call has returned

vars == <<cancelled, state, err, returned>>

Init ==
  /\ cancelled \in BOOLEAN
  /\ state = [i \in Objects |-> "pending"]
  /\ err = [i \in Objects |-> Nil]
  /\ returned = FALSE

Begin(i) ==
  /\ state[i] = "pending"
  /\ ~cancelled
  /\ state' = [state EXCEPT ![i] = "running"]
  /\ UNCHANGED <<cancelled, err, returned>>

Settle(i, e) ==
  /\ state' = [state EXCEPT ![i] = "settled"]
  /\ err' = [err EXCEPT ![i] = e]
  /\ UNCHANGED <<cancelled, returned>>

Finish(i) == state[i] = "running" /\ \E e \in Errors \cup {Nil} : Settle(i, e)

Skip(i) == state[i] = "pending" /\ cancelled /\ Settle(i, CtxErr)

Return ==
  /\ ~returned
  /\ \A i \in Objects : state[i] = "settled"
  /\ returned' = TRUE
  /\ UNCHANGED <<cancelled, state, err>>

Cancel ==
  /\ ~cancelled
  /\ cancelled' = TRUE
  /\ UNCHANGED <<state, err, returned>>

Next ==
  \/ \E i \in Objects : Begin(i) \/ Finish(i) \/ Skip(i)
  \/ Return
  \/ Cancel

Spec == Init /\ [][Next]_vars

Fairness ==
  /\ \A i \in Objects : WF_vars(Begin(i) \/ Skip(i)) /\ WF_vars(Finish(i))
  /\ WF_vars(Return)

FairSpec == Spec /\ Fairness
=============================================================================
