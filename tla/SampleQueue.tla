---------------------------- MODULE SampleQueue ----------------------------
(***************************************************************************)
(* What a ring of statistics samples promises (RingBuffer in               *)
(* pkg/network/connection_optimized.go): a queue of at most Size samples,  *)
(* from which each sample that was accepted is taken once, in order.       *)
(***************************************************************************)
EXTENDS Naturals, Sequences

CONSTANTS Size, Samples, Zero  \* Zero: no sample was taken yet

VARIABLES
  queue,  \* the samples accepted and not yet taken
  taken   \* the last sample taken

vars == <<queue, taken>>

Init == queue = <<>> /\ taken = Zero

Put(s) == Len(queue) < Size /\ queue' = Append(queue, s) /\ UNCHANGED taken

Get == queue # <<>> /\ taken' = Head(queue) /\ queue' = Tail(queue)

Next == (\E s \in Samples : Put(s)) \/ Get

Spec == Init /\ [][Next]_vars
=============================================================================
