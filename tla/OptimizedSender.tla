-------------------------- MODULE OptimizedSender --------------------------
(***************************************************************************)
(* The throughput sender of an OptimizedConnection                         *)
(* (pkg/network/connection_optimized.go): a feeder that hands one buffer   *)
(* again and again to its workers over a bounded channel, the workers that *)
(* write it and push a sample of each write into a lock-free ring, and     *)
(* ProcessStatsRing, which drains the ring into the counter. Push and Pop  *)
(* are taken apart at each atomic load, slot access and atomic add.        *)
(*                                                                         *)
(* Every write that succeeds is a whole buffer: a sample is its number,    *)
(* and the counter counts samples. socketFD stays -1, so that              *)
(* sendZeroCopy always gives way to the regular write. No command makes an *)
(* OptimizedConnection yet: its parts run here as they are written to run, *)
(* one sender with one ProcessStatsRing.                                   *)
(***************************************************************************)
EXTENDS Naturals, Sequences, FiniteSets

CONSTANTS
  Size,       \* len(rb.buffer): 4096 in the code, a power of two
  Workers,    \* the most workers there may be
  MaxWrites   \* bound: writes that succeed

ASSUME SenderAssumption ==
  Size \in Nat \ {0} /\ IsFiniteSet(Workers) /\ MaxWrites \in Nat

VARIABLES
  used,       \* the workers that run: NumWorkers of them
  cancelled,  \* the context is done
  feeder,     \* "select", "put", "wait" after it closed the channel, "returned"
  buffers,    \* how many buffers are in sendChan
  wpc,        \* a worker's step: "select", "write", then those of Push, "done"
  mine,       \* the sample that it pushes
  whead,      \* the head that its Push has loaded
  written, refused,     \* writes that succeeded; samples that found the ring full
  head, tail, slots,    \* the ring
  cpc,        \* ProcessStatsRing: "tick", then the steps of Pop
  read,       \* the slot it has read
  popped,     \* the last sample that Pop returned
  total,      \* totalBytes
  counted     \* c.bytesSent

sending == <<used, cancelled, feeder, buffers>>
workers == <<wpc, mine, whead, written, refused>>
consumer == <<cpc, read, popped, total, counted>>
vars == <<sending, workers, head, tail, slots, consumer>>

Samples == 1..MaxWrites
Zero == 0       \* the zero value of a slot
Capacity == 2 * Cardinality(used)

TypeOK ==
  /\ used \subseteq Workers /\ cancelled \in BOOLEAN
  /\ feeder \in {"select", "put", "wait", "returned"}
  /\ buffers \in 0..Capacity
  /\ wpc \in [Workers -> {"select", "write", "head", "tail", "slot", "add", "done"}]
  /\ mine \in [Workers -> Samples \cup {Zero}]
  /\ whead \in [Workers -> Nat]
  /\ written \in 0..MaxWrites /\ refused \in Nat
  /\ head \in Nat /\ tail \in Nat
  /\ slots \in [0..(Size - 1) -> Samples \cup {Zero}]
  /\ cpc \in {"tick", "head", "slot", "add"}
  /\ read \in Samples \cup {Zero} /\ popped \in Samples \cup {Zero}
  /\ total \in Nat /\ counted \in Nat

Init ==
  /\ used \in SUBSET Workers \ {{}} /\ cancelled = FALSE
  /\ feeder = "select" /\ buffers = 0
  /\ wpc = [w \in Workers |-> IF w \in used THEN "select" ELSE "done"]
  /\ mine = [w \in Workers |-> Zero]
  /\ whead = [w \in Workers |-> 0]
  /\ written = 0 /\ refused = 0
  /\ head = 0 /\ tail = 0 /\ slots = [i \in 0..(Size - 1) |-> Zero]
  /\ cpc = "tick" /\ read = Zero /\ popped = Zero
  /\ total = 0 /\ counted = 0

Cancel ==
  /\ ~cancelled
  /\ cancelled' = TRUE
  /\ UNCHANGED <<used, feeder, buffers, workers, head, tail, slots, consumer>>

-----------------------------------------------------------------------------
(* The feeder.                                                             *)

(* Its select has a default case: a done context is always preferred, but  *)
(* the send that follows the default has no other case.                    *)
FeederSelects ==
  /\ feeder = "select"
  /\ feeder' = IF cancelled THEN "wait" ELSE "put"
  /\ UNCHANGED <<used, cancelled, buffers, workers, head, tail, slots, consumer>>

FeederPuts ==
  /\ feeder = "put" /\ buffers < Capacity
  /\ buffers' = buffers + 1
  /\ feeder' = "select"
  /\ UNCHANGED <<used, cancelled, workers, head, tail, slots, consumer>>

(* wg.Wait *)
FeederReturns ==
  /\ feeder = "wait" /\ \A w \in used : wpc[w] = "done"
  /\ feeder' = "returned"
  /\ UNCHANGED <<used, cancelled, buffers, workers, head, tail, slots, consumer>>

-----------------------------------------------------------------------------
(* A worker.                                                               *)

(* Mutant of Receive: nil, from the closed channel, is taken for a buffer. *)
ReceiveNil(w) ==
  /\ wpc[w] = "select" /\ (buffers > 0 \/ feeder = "wait")
  /\ buffers' = buffers - 1
  /\ wpc' = [wpc EXCEPT ![w] = "write"]
  /\ UNCHANGED <<used, cancelled, feeder, mine, whead, written, refused,
                 head, tail, slots, consumer>>

Receive(w) ==
  /\ wpc[w] = "select" /\ buffers > 0
  /\ buffers' = buffers - 1
  /\ wpc' = [wpc EXCEPT ![w] = "write"]
  /\ UNCHANGED <<used, cancelled, feeder, mine, whead, written, refused,
                 head, tail, slots, consumer>>

(* The context is done, which is the only time that the channel is closed. *)
(* Of two cases that are ready, select takes any.                          *)
WorkerReturns(w) ==
  /\ wpc[w] = "select" /\ cancelled
  /\ wpc' = [wpc EXCEPT ![w] = "done"]
  /\ UNCHANGED <<sending, mine, whead, written, refused, head, tail, slots, consumer>>

Write(w) ==
  /\ wpc[w] = "write" /\ written < MaxWrites
  /\ written' = written + 1
  /\ mine' = [mine EXCEPT ![w] = written + 1]
  /\ wpc' = [wpc EXCEPT ![w] = "head"]
  /\ UNCHANGED <<sending, whead, refused, head, tail, slots, consumer>>

(* Mutant of WriteFails: a write that fails is repeated. *)
WriteFailsAgain(w) == wpc[w] = "write" /\ UNCHANGED vars

(* The buffer is forgotten, and the worker goes on with the next. *)
WriteFails(w) ==
  /\ wpc[w] = "write"
  /\ wpc' = [wpc EXCEPT ![w] = "select"]
  /\ UNCHANGED <<sending, mine, whead, written, refused, head, tail, slots, consumer>>

-----------------------------------------------------------------------------
(* Push.                                                                   *)

(* The worker goes on; what Push and this write had at hand is gone. *)
PushReturns(w) ==
  /\ wpc' = [wpc EXCEPT ![w] = "select"]
  /\ mine' = [mine EXCEPT ![w] = Zero]
  /\ whead' = [whead EXCEPT ![w] = 0]

LoadHead(w) ==
  /\ wpc[w] = "head"
  /\ whead' = [whead EXCEPT ![w] = head]
  /\ wpc' = [wpc EXCEPT ![w] = "tail"]
  /\ UNCHANGED <<sending, mine, written, refused, head, tail, slots, consumer>>

(* Mutant of Full: one more. *)
FullLate(h, t) == h - t > Size

(* head - tail is unsigned: a tail that has passed the head loaded before  *)
(* it looks like a full ring.                                              *)
Full(h, t) == h < t \/ h - t >= Size

LoadTail(w) ==
  /\ wpc[w] = "tail"
  /\ \/ /\ Full(whead[w], tail)
        /\ refused' = refused + 1
        /\ PushReturns(w)
     \/ /\ ~Full(whead[w], tail)
        /\ wpc' = [wpc EXCEPT ![w] = "slot"]
        /\ UNCHANGED <<refused, mine, whead>>
  /\ UNCHANGED <<sending, written, head, tail, slots, consumer>>

WriteSlot(w) ==
  /\ wpc[w] = "slot"
  /\ slots' = [slots EXCEPT ![whead[w] % Size] = mine[w]]
  /\ wpc' = [wpc EXCEPT ![w] = "add"]
  /\ UNCHANGED <<sending, mine, whead, written, refused, head, tail, consumer>>

AddHead(w) ==
  /\ wpc[w] = "add"
  /\ head' = head + 1
  /\ PushReturns(w)
  /\ UNCHANGED <<sending, written, refused, tail, slots, consumer>>

-----------------------------------------------------------------------------
(* ProcessStatsRing, and Pop. Only Pop changes the tail, so that loading   *)
(* it is no step.                                                          *)

(* Mutant of Tick: the goroutine ends with the context. *)
TickUntilCancelled ==
  /\ cpc = "tick" /\ ~cancelled
  /\ cpc' = "head"
  /\ UNCHANGED <<sending, workers, head, tail, slots, read, popped, total, counted>>

(* The ticker is never stopped. *)
Tick ==
  /\ cpc = "tick"
  /\ cpc' = "head"
  /\ UNCHANGED <<sending, workers, head, tail, slots, read, popped, total, counted>>

(* Mutant of Empty: one more. *)
EmptyLate(t, h) == t > h

Empty(t, h) == t >= h

(* An empty ring ends the drain, and what it gave is counted. *)
PopHead ==
  /\ cpc = "head"
  /\ \/ /\ Empty(tail, head)
        /\ cpc' = "tick"
        /\ counted' = counted + total
        /\ total' = 0
     \/ /\ ~Empty(tail, head)
        /\ cpc' = "slot"
        /\ UNCHANGED <<total, counted>>
  /\ UNCHANGED <<sending, workers, head, tail, slots, read, popped>>

PopSlot ==
  /\ cpc = "slot"
  /\ read' = slots[tail % Size]
  /\ cpc' = "add"
  /\ UNCHANGED <<sending, workers, head, tail, slots, popped, total, counted>>

(* A sample of zero adds nothing. *)
PopAdd ==
  /\ cpc = "add"
  /\ tail' = tail + 1
  /\ popped' = read
  /\ read' = Zero
  /\ total' = IF read = Zero THEN total ELSE total + 1
  /\ cpc' = "head"
  /\ UNCHANGED <<sending, workers, head, slots, counted>>

Feeder == FeederSelects \/ FeederPuts \/ FeederReturns

Push(w) == LoadHead(w) \/ LoadTail(w) \/ WriteSlot(w) \/ AddHead(w)

Worker(w) == Receive(w) \/ WorkerReturns(w) \/ Write(w) \/ WriteFails(w) \/ Push(w)

Pop == PopHead \/ PopSlot \/ PopAdd

Next == Cancel \/ Feeder \/ (\E w \in Workers : Worker(w)) \/ Tick \/ Pop

Spec == Init /\ [][Next]_vars

(* The feeder and the consumer run; a write returns, since the peer reads  *)
(* or the connection breaks; a select that keeps finding the context done  *)
(* takes it.                                                               *)
Fairness ==
  /\ WF_vars(Feeder) /\ WF_vars(Tick \/ Pop)
  /\ \A w \in Workers :
       /\ WF_vars(Write(w) \/ WriteFails(w)) /\ WF_vars(Push(w))
       /\ SF_vars(WorkerReturns(w))

FairSpec == Spec /\ Fairness

-----------------------------------------------------------------------------
(* Properties.                                                             *)

OneWorker == Cardinality(used) = 1

(* The samples in the ring, oldest first. *)
Pending == [i \in 1..(IF tail < head THEN head - tail ELSE 0) |-> slots[(tail + i - 1) % Size]]

Queue == INSTANCE SampleQueue WITH queue <- Pending, taken <- popped

(* With one worker the ring is a queue: no step of Push or Pop, at any     *)
(* point of the other, loses, repeats or reorders an accepted sample. Two  *)
(* workers may claim the same slot.                                        *)
RingIsQueue == [][OneWorker => [Queue!Next]_(Queue!vars)]_vars

(* However many workers race for the slots, the counter never exceeds the  *)
(* buffers that were written: each Pop takes a place that some Push added. *)
NeverOvercounts == counted + total + refused <= written

(* With one worker every write whose sample the ring took is counted once  *)
(* the sender is over, for ProcessStatsRing is not over with it. The       *)
(* samples that a full ring refuses are never counted.                     *)
AcceptedWritesCounted ==
  cancelled ~> (OneWorker => counted = written - refused \/ \E w \in used : wpc[w] # "done")

(* After the cancellation the sender returns, unless its feeder has found  *)
(* the channel full and no worker is left to make room: it then stays.     *)
Stranded == feeder = "put" /\ buffers = Capacity /\ \A w \in used : wpc[w] = "done"

SenderEnds == cancelled ~> (feeder = "returned" \/ [](Stranded))
=============================================================================
