----------------------- MODULE OptimizedSenderProofs -----------------------
(***************************************************************************)
(* For any ring size, any number of workers and writes: the optimized      *)
(* connection never reports more than it has written, although its workers *)
(* race for the slots of a ring made for one producer. With one worker the *)
(* ring is a bounded queue, although the consumer runs at the same time.   *)
(*                                                                         *)
(* The invariant: every write is in the ring's head, refused, or with a    *)
(* worker in Push (Placed), by counting the finite set of those workers;   *)
(* the tail never passes the head (Behind), and every sample drained moved *)
(* the tail (Drained). For one worker, RingInv says which slots hold what  *)
(* while the worker and the consumer are between their steps.              *)
(***************************************************************************)
EXTENDS OptimizedSender, FiniteSetTheorems, SequenceTheorems, TLAPS

(* The workers inside Push. *)
Pushing == {w \in Workers : wpc[w] \in {"head", "tail", "slot", "add"}}

(* Where the writes are; what the consumer can have taken. *)
Placed  == written = head + refused + Cardinality(Pushing)
Behind  == tail <= head /\ (cpc \in {"slot", "add"} => tail < head)
Drained == counted + total <= tail

(* The inductive invariant, for any number of workers. *)
SenderInv == TypeOK /\ Placed /\ Behind /\ Drained

(* The channel's capacity is a number. *)
LEMMA CapacityIsNat == ASSUME TypeOK PROVE Capacity \in Nat
<1>1. IsFiniteSet(used)
  BY SenderAssumption, FS_Subset DEF TypeOK
<1> QED BY <1>1, FS_CardinalityType DEF Capacity

(* A worker that comes into Push, or leaves it, is one more or one less.   *)
LEMMA PushingChanges ==
  ASSUME TypeOK, NEW w \in Workers,
         NEW s \in {"select", "write", "head", "tail", "slot", "add", "done"},
         wpc' = [wpc EXCEPT ![w] = s]
  PROVE  /\ Cardinality(Pushing) \in Nat /\ Cardinality(Pushing') \in Nat
         /\ w \notin Pushing /\ w \in Pushing' => Cardinality(Pushing') = Cardinality(Pushing) + 1
         /\ w \in Pushing /\ w \notin Pushing' => Cardinality(Pushing') = Cardinality(Pushing) - 1
         /\ (w \in Pushing <=> w \in Pushing') => Pushing' = Pushing
<1>1. IsFiniteSet(Pushing) /\ IsFiniteSet(Pushing')
  <2>1. Pushing \subseteq Workers /\ Pushing' \subseteq Workers
    BY DEF Pushing
  <2> QED BY <2>1, SenderAssumption, FS_Subset
<1>2. \A v \in Workers \ {w} : v \in Pushing <=> v \in Pushing'
  BY DEF Pushing, TypeOK
<1>3. w \notin Pushing /\ w \in Pushing' => Pushing' = Pushing \cup {w}
  BY <1>2 DEF Pushing
<1>4. w \in Pushing /\ w \notin Pushing' => Pushing' = Pushing \ {w}
  BY <1>2 DEF Pushing
<1>5. (w \in Pushing <=> w \in Pushing') => Pushing' = Pushing
  BY <1>2 DEF Pushing
<1>6. Cardinality(Pushing) \in Nat /\ Cardinality(Pushing') \in Nat
  BY <1>1, FS_CardinalityType
<1>7. w \notin Pushing /\ w \in Pushing' => Cardinality(Pushing') = Cardinality(Pushing) + 1
  BY <1>1, <1>3, FS_AddElement
<1>8. w \in Pushing /\ w \notin Pushing' => Cardinality(Pushing') = Cardinality(Pushing) - 1
  BY <1>1, <1>4, FS_RemoveElement
<1> QED BY <1>5, <1>6, <1>7, <1>8

(* The initial states satisfy the invariant. *)
LEMMA InitSender == Init => SenderInv
<1> SUFFICES ASSUME Init PROVE SenderInv
  OBVIOUS
<1>1. used \subseteq Workers /\ IsFiniteSet(used)
  BY SenderAssumption, FS_Subset DEF Init
<1>2. Capacity \in Nat
  BY <1>1, FS_CardinalityType DEF Capacity
<1>3. TypeOK
  <2>1. slots \in [0..(Size - 1) -> Samples \cup {Zero}] /\ mine \in [Workers -> Samples \cup {Zero}]
    BY DEF Init
  <2>2. wpc \in [Workers -> {"select", "write", "head", "tail", "slot", "add", "done"}]
        /\ whead \in [Workers -> Nat]
    BY DEF Init
  <2>3. buffers \in 0..Capacity /\ written \in 0..MaxWrites
    BY <1>2, SenderAssumption DEF Init
  <2> QED BY <1>1, <2>1, <2>2, <2>3 DEF Init, TypeOK
<1>4. Pushing = {}
  BY DEF Init, Pushing
<1>5. Placed /\ Behind /\ Drained
  BY <1>4, FS_EmptySet DEF Init, Placed, Behind, Drained
<1> QED BY <1>3, <1>5 DEF SenderInv

(* The context and the feeder: buffers stay within the channel.            *)
LEMMA FeederKeeps ==
  ASSUME SenderInv, Cancel \/ Feeder
  PROVE  SenderInv'
<1>1. UNCHANGED <<used, wpc, mine, whead, written, refused, head, tail, slots, cpc, read, popped,
                  total, counted>>
  BY DEF Cancel, Feeder, FeederSelects, FeederPuts, FeederReturns, workers, consumer
<1>2. Capacity \in Nat /\ Capacity' = Capacity
  BY <1>1, CapacityIsNat DEF SenderInv, Capacity
<1>3. buffers' \in 0..Capacity
  BY <1>2 DEF SenderInv, TypeOK, Cancel, Feeder, FeederSelects, FeederPuts, FeederReturns
<1>4. cancelled' \in BOOLEAN /\ feeder' \in {"select", "put", "wait", "returned"}
  BY DEF SenderInv, TypeOK, Cancel, Feeder, FeederSelects, FeederPuts, FeederReturns
<1>5. TypeOK'
  BY <1>1, <1>2, <1>3, <1>4 DEF SenderInv, TypeOK
<1>6. Pushing' = Pushing
  BY <1>1 DEF Pushing
<1> QED BY <1>1, <1>5, <1>6 DEF SenderInv, Placed, Behind, Drained

(* A worker outside Push: a write comes into it.                           *)
LEMMA WriterKeeps ==
  ASSUME SenderInv, NEW w \in Workers,
         Receive(w) \/ WorkerReturns(w) \/ Write(w) \/ WriteFails(w)
  PROVE  SenderInv'
<1> DEFINE s == wpc'[w]
<1>1. UNCHANGED <<used, cancelled, feeder, whead, refused, head, tail, slots, cpc, read, popped,
                  total, counted>>
  BY DEF Receive, WorkerReturns, Write, WriteFails, sending, consumer
<1>2. Capacity \in Nat /\ Capacity' = Capacity
  BY <1>1, CapacityIsNat DEF SenderInv, Capacity
<1>3. s \in {"select", "write", "head", "done"} /\ wpc' = [wpc EXCEPT ![w] = s]
  BY DEF SenderInv, TypeOK, Receive, WorkerReturns, Write, WriteFails
<1>4. buffers' \in 0..Capacity
  BY <1>2 DEF SenderInv, TypeOK, Receive, WorkerReturns, Write, WriteFails, sending
<1>5. written' \in 0..MaxWrites /\ mine' \in [Workers -> Samples \cup {Zero}]
  <2>1. CASE Write(w)
    <3>1. written \in 0..MaxWrites /\ written < MaxWrites /\ written' = written + 1
      BY <2>1 DEF SenderInv, TypeOK, Write
    <3>2. written + 1 \in Samples /\ written' \in 0..MaxWrites
      BY <3>1, SenderAssumption DEF Samples
    <3> QED BY <2>1, <3>2 DEF SenderInv, TypeOK, Write
  <2>2. CASE ~Write(w)
    BY <2>2 DEF SenderInv, TypeOK, Receive, WorkerReturns, WriteFails
  <2> QED BY <2>1, <2>2
<1>6. TypeOK'
  <2> HIDE DEF s
  <2> QED BY <1>1, <1>2, <1>3, <1>4, <1>5 DEF SenderInv, TypeOK
<1>7. Placed'
  <2>1. CASE Write(w)
    <3>1. w \notin Pushing /\ w \in Pushing'
      BY <2>1 DEF Write, Pushing, SenderInv, TypeOK
    <3>2. Cardinality(Pushing) \in Nat /\ Cardinality(Pushing') = Cardinality(Pushing) + 1
      BY <1>3, <3>1, PushingChanges DEF SenderInv
    <3>3. written' = written + 1
      BY <2>1 DEF Write
    <3> QED BY <1>1, <3>2, <3>3 DEF SenderInv, TypeOK, Placed
  <2>2. CASE Receive(w) \/ WorkerReturns(w) \/ WriteFails(w)
    <3>1. w \notin Pushing /\ w \notin Pushing' /\ written' = written
      BY <2>2 DEF Receive, WorkerReturns, WriteFails, Pushing, SenderInv, TypeOK
    <3>2. Pushing' = Pushing
      BY <1>3, <3>1, PushingChanges DEF SenderInv
    <3> QED BY <1>1, <3>1, <3>2 DEF SenderInv, Placed
  <2> QED BY <2>1, <2>2
<1> QED BY <1>1, <1>6, <1>7 DEF SenderInv, Behind, Drained

(* Push: its sample is refused, or moves the head.                         *)
LEMMA PushKeeps ==
  ASSUME SenderInv, NEW w \in Workers, Push(w)
  PROVE  SenderInv'
<1> USE DEF SenderInv, sending, consumer
<1>1. UNCHANGED <<used, cancelled, feeder, buffers, written, tail, cpc, read, popped, total, counted>>
  BY DEF Push, LoadHead, LoadTail, WriteSlot, AddHead
<1>2. Capacity' = Capacity
  BY <1>1 DEF Capacity
<1>3. CASE LoadHead(w)
  <2>1. wpc' = [wpc EXCEPT ![w] = "tail"] /\ whead' = [whead EXCEPT ![w] = head]
        /\ wpc[w] = "head" /\ UNCHANGED <<mine, refused, head, slots>>
    BY <1>3 DEF LoadHead
  <2>2. TypeOK'
    BY <1>1, <1>2, <2>1 DEF TypeOK
  <2>3. w \in Pushing /\ w \in Pushing'
    BY <2>1 DEF Pushing, TypeOK
  <2>4. Pushing' = Pushing
    BY <2>1, <2>3, PushingChanges
  <2> QED BY <1>1, <2>1, <2>2, <2>4 DEF Placed, Behind, Drained
<1>4. CASE LoadTail(w) /\ wpc'[w] = "slot"
  <2>1. wpc' = [wpc EXCEPT ![w] = "slot"] /\ wpc[w] = "tail" /\ UNCHANGED <<mine, whead, refused, head, slots>>
    BY <1>4 DEF LoadTail, PushReturns, TypeOK
  <2>2. TypeOK'
    BY <1>1, <1>2, <2>1 DEF TypeOK
  <2>3. w \in Pushing /\ w \in Pushing'
    BY <2>1 DEF Pushing, TypeOK
  <2>4. Pushing' = Pushing
    BY <2>1, <2>3, PushingChanges
  <2> QED BY <1>1, <2>1, <2>2, <2>4 DEF Placed, Behind, Drained
<1>5. CASE LoadTail(w) /\ wpc'[w] # "slot"
  <2>1. /\ wpc' = [wpc EXCEPT ![w] = "select"] /\ mine' = [mine EXCEPT ![w] = Zero]
        /\ whead' = [whead EXCEPT ![w] = 0] /\ refused' = refused + 1 /\ wpc[w] = "tail"
        /\ UNCHANGED <<head, slots>>
    BY <1>5 DEF LoadTail, PushReturns, TypeOK
  <2>2. TypeOK'
    BY <1>1, <1>2, <2>1 DEF TypeOK
  <2>3. w \in Pushing /\ w \notin Pushing'
    BY <2>1 DEF Pushing, TypeOK
  <2>4. Cardinality(Pushing) \in Nat /\ Cardinality(Pushing') = Cardinality(Pushing) - 1
    BY <2>1, <2>3, PushingChanges
  <2> QED BY <1>1, <2>1, <2>2, <2>4 DEF TypeOK, Placed, Behind, Drained
<1>6. CASE WriteSlot(w)
  <2>1. wpc' = [wpc EXCEPT ![w] = "add"] /\ wpc[w] = "slot" /\ UNCHANGED <<mine, whead, refused, head>>
        /\ slots' = [slots EXCEPT ![whead[w] % Size] = mine[w]]
    BY <1>6 DEF WriteSlot
  <2>2. mine[w] \in Samples \cup {Zero}
    BY DEF TypeOK
  <2>3. slots' \in [0..(Size - 1) -> Samples \cup {Zero}]
    BY <2>1, <2>2 DEF TypeOK
  <2>4. TypeOK'
    BY <1>1, <1>2, <2>1, <2>3 DEF TypeOK
  <2>5. w \in Pushing /\ w \in Pushing'
    BY <2>1 DEF Pushing, TypeOK
  <2>6. Pushing' = Pushing
    BY <2>1, <2>5, PushingChanges
  <2> QED BY <1>1, <2>1, <2>4, <2>6 DEF Placed, Behind, Drained
<1>7. CASE AddHead(w)
  <2>1. /\ wpc' = [wpc EXCEPT ![w] = "select"] /\ mine' = [mine EXCEPT ![w] = Zero]
        /\ whead' = [whead EXCEPT ![w] = 0] /\ head' = head + 1 /\ wpc[w] = "add"
        /\ UNCHANGED <<refused, slots>>
    BY <1>7 DEF AddHead, PushReturns
  <2>2. TypeOK'
    BY <1>1, <1>2, <2>1 DEF TypeOK
  <2>3. w \in Pushing /\ w \notin Pushing'
    BY <2>1 DEF Pushing, TypeOK
  <2>4. Cardinality(Pushing) \in Nat /\ Cardinality(Pushing') = Cardinality(Pushing) - 1
    BY <2>1, <2>3, PushingChanges
  <2> QED BY <1>1, <2>1, <2>2, <2>4 DEF TypeOK, Placed, Behind, Drained
<1> QED BY <1>3, <1>4, <1>5, <1>6, <1>7 DEF Push

(* ProcessStatsRing: what is drained moved the tail.                       *)
LEMMA DrainKeeps ==
  ASSUME SenderInv, Tick \/ Pop
  PROVE  SenderInv'
<1> USE DEF SenderInv, sending, workers
<1>1. UNCHANGED <<used, cancelled, feeder, buffers, wpc, mine, whead, written, refused, head, slots>>
  BY DEF Tick, Pop, PopHead, PopSlot, PopAdd
<1>2. Capacity' = Capacity /\ Placed'
  BY <1>1 DEF Capacity, Placed, Pushing
<1>3. read' \in Samples \cup {Zero} /\ popped' \in Samples \cup {Zero} /\ cpc' \in {"tick", "head", "slot", "add"}
  <2>1. slots[tail % Size] \in Samples \cup {Zero}
    BY SenderAssumption DEF TypeOK
  <2> QED BY <2>1 DEF TypeOK, Tick, Pop, PopHead, PopSlot, PopAdd
<1>4. tail' \in Nat /\ total' \in Nat /\ counted' \in Nat /\ Behind' /\ Drained'
  BY <1>1 DEF TypeOK, Behind, Drained, Empty, Tick, Pop, PopHead, PopSlot, PopAdd
<1>5. TypeOK'
  BY <1>1, <1>2, <1>3, <1>4 DEF TypeOK
<1> QED BY <1>2, <1>4, <1>5

(* The invariant of every reachable state. *)
THEOREM SenderInvariant == Spec => []SenderInv
<1>1. Init => SenderInv
  BY InitSender
<1>2. SenderInv /\ [Next]_vars => SenderInv'
  <2> SUFFICES ASSUME SenderInv, [Next]_vars PROVE SenderInv'
    OBVIOUS
  <2>1. CASE Cancel \/ Feeder
    BY <2>1, FeederKeeps
  <2>2. CASE \E w \in Workers : Worker(w)
    BY <2>2, WriterKeeps, PushKeeps DEF Worker
  <2>3. CASE Tick \/ Pop
    BY <2>3, DrainKeeps
  <2>4. CASE UNCHANGED vars
    BY <2>4 DEF vars, sending, workers, consumer, SenderInv, TypeOK, Capacity, Placed, Pushing,
                Behind, Drained
  <2> QED BY <2>1, <2>2, <2>3, <2>4 DEF Next
<1> QED BY <1>1, <1>2, PTL DEF Spec

(* The types of the sender's state, the channel never above its capacity.  *)
THEOREM TypeCorrect == Spec => []TypeOK
<1>1. SenderInv => TypeOK
  BY DEF SenderInv
<1> QED BY <1>1, SenderInvariant, PTL

(* ProcessStatsRing never counts more than sendZeroCopy's fallback wrote,  *)
(* however many workers share the ring.                                    *)
THEOREM CountIsBounded == Spec => []NeverOvercounts
<1>1. SenderInv => NeverOvercounts
  <2> SUFFICES ASSUME SenderInv PROVE NeverOvercounts
    OBVIOUS
  <2>1. Cardinality(Pushing) \in Nat
    <3>1. Pushing \subseteq Workers
      BY DEF Pushing
    <3> QED BY <3>1, SenderAssumption, FS_Subset, FS_CardinalityType
  <2> QED BY <2>1 DEF SenderInv, TypeOK, Placed, Behind, Drained, NeverOvercounts
<1> QED BY <1>1, SenderInvariant, PTL
-----------------------------------------------------------------------------
(***************************************************************************)
(* With one worker the ring is a queue. What the refinement needs beside   *)
(* SenderInv: the one Push that is under way has loaded the head of now,   *)
(* it has found a free slot for it, and its slot keeps what it wrote; the  *)
(* slot that Pop has read keeps what it read.                              *)
(***************************************************************************)
RingInv ==
  /\ \A w \in Workers \ used : wpc[w] = "done"
  /\ OneWorker =>
       /\ head <= tail + Size
       /\ cpc = "add" => read = slots[tail % Size]
       /\ \A w \in Workers :
            /\ wpc[w] \in {"head", "tail", "slot", "add"} => mine[w] \in Samples
            /\ wpc[w] \in {"tail", "slot", "add"} => whead[w] = head
            /\ wpc[w] \in {"slot", "add"} => head < tail + Size
            /\ wpc[w] = "add" => slots[head % Size] = mine[w]

(* Places less than Size apart have different slots. *)
LEMMA SlotsDiffer ==
  ASSUME NEW a \in Nat, NEW b \in Nat, a < b, b < a + Size
  PROVE  a % Size # b % Size
<1> DEFINE p == a \div Size
           q == b \div Size
<1>1. Size \in Nat /\ Size > 0
  BY SenderAssumption
<1>2. /\ p \in Int /\ a % Size \in Int /\ a = Size * p + (a % Size)
      /\ q \in Int /\ b % Size \in Int /\ b = Size * q + (b % Size)
  BY <1>1
<1> HIDE DEF p, q
<1> SUFFICES ASSUME a % Size = b % Size PROVE FALSE
  OBVIOUS
<1>3. b - a = Size * q - Size * p
  BY <1>1, <1>2
<1>4. CASE q <= p
  <2>1. Size * q <= Size * p
    BY <1>1, <1>2, <1>4
  <2>2. Size * q \in Int /\ Size * p \in Int
    BY <1>1, <1>2
  <2> QED BY <1>3, <2>1, <2>2
<1>5. CASE q >= p + 1
  <2>1. Size * q >= Size * (p + 1)
    BY <1>1, <1>2, <1>5
  <2>2. Size * (p + 1) = Size * p + Size
    BY <1>1, <1>2
  <2>3. Size * q \in Int /\ Size * p \in Int
    BY <1>1, <1>2
  <2> QED BY <1>1, <1>3, <2>1, <2>2, <2>3
<1> QED BY <1>2, <1>4, <1>5

(* Only one worker has not returned. *)
LEMMA NoOtherWorker ==
  ASSUME TypeOK, RingInv, OneWorker, NEW v \in Workers, NEW w \in Workers,
         wpc[v] # "done", wpc[w] # "done"
  PROVE  v = w
<1>1. IsFiniteSet(used)
  BY SenderAssumption, FS_Subset DEF TypeOK
<1>2. PICK u : used = {u}
  BY <1>1, FS_Singleton DEF OneWorker
<1>3. v \in used /\ w \in used
  BY DEF RingInv
<1> QED BY <1>2, <1>3

(* The slot of a place is a slot. *)
LEMMA SlotOf == ASSUME NEW n \in Nat PROVE n % Size \in 0..(Size - 1)
BY SenderAssumption

(* A step of Push keeps the ring in order. *)
LEMMA PushKeepsRing ==
  ASSUME SenderInv, RingInv, OneWorker, NEW w \in Workers, Push(w)
  PROVE  RingInv'
<1> USE DEF sending, consumer
<1>1. UNCHANGED <<used, tail, cpc, read>>
  BY DEF Push, LoadHead, LoadTail, WriteSlot, AddHead
<1>2. \A v \in Workers : v # w => wpc[v] \notin {"head", "tail", "slot", "add"}
  BY NoOtherWorker DEF SenderInv, TypeOK, Push, LoadHead, LoadTail, WriteSlot, AddHead
<1>3. \A v \in Workers : v # w => wpc'[v] = wpc[v]
  BY DEF SenderInv, TypeOK, Push, LoadHead, LoadTail, WriteSlot, AddHead, PushReturns
<1>4. wpc[w] # "done" /\ w \in used
  BY DEF RingInv, Push, LoadHead, LoadTail, WriteSlot, AddHead
<1>5. \A v \in Workers \ used' : wpc'[v] = "done"
  BY <1>1, <1>3, <1>4 DEF RingInv
<1>6. /\ head \in Nat /\ tail \in Nat /\ tail <= head /\ (cpc = "add" => tail < head)
      /\ Size \in Nat
  BY SenderAssumption DEF SenderInv, TypeOK, Behind
<1>7. CASE LoadHead(w)
  <2>1. /\ wpc'[w] = "tail" /\ whead'[w] = head /\ wpc[w] = "head"
        /\ UNCHANGED <<mine, head, slots>>
    BY <1>7 DEF LoadHead, SenderInv, TypeOK
  <2> QED BY <1>1, <1>2, <1>3, <1>5, <2>1 DEF RingInv, OneWorker
<1>8. CASE LoadTail(w) /\ wpc'[w] = "slot"
  <2>1. wpc[w] = "tail" /\ ~Full(whead[w], tail) /\ UNCHANGED <<mine, whead, head, slots>>
    BY <1>8 DEF LoadTail, PushReturns, SenderInv, TypeOK
  <2>2. head < tail + Size
    BY <1>6, <2>1 DEF Full, RingInv
  <2> QED BY <1>1, <1>2, <1>3, <1>5, <1>8, <2>1, <2>2 DEF RingInv, OneWorker
<1>9. CASE LoadTail(w) /\ wpc'[w] # "slot"
  <2>1. wpc'[w] = "select" /\ UNCHANGED <<head, slots>>
    BY <1>9 DEF LoadTail, PushReturns, SenderInv, TypeOK
  <2> QED BY <1>1, <1>2, <1>3, <1>5, <2>1 DEF RingInv, OneWorker
<1>10. CASE WriteSlot(w)
  <2>1. /\ wpc'[w] = "add" /\ wpc[w] = "slot" /\ UNCHANGED <<mine, whead, head>>
        /\ whead[w] = head /\ head < tail + Size
        /\ slots' = [slots EXCEPT ![head % Size] = mine[w]]
    BY <1>10 DEF WriteSlot, SenderInv, TypeOK, RingInv
  <2>2. slots'[head % Size] = mine[w]
    BY <1>6, <2>1, SlotOf DEF SenderInv, TypeOK
  <2>3. cpc = "add" => slots'[tail % Size] = slots[tail % Size]
    <3>1. cpc = "add" => tail % Size # head % Size
      BY <1>6, <2>1, SlotsDiffer
    <3> QED BY <1>6, <2>1, <3>1, SlotOf DEF SenderInv, TypeOK
  <2> QED BY <1>1, <1>2, <1>3, <1>5, <2>1, <2>2, <2>3 DEF RingInv, OneWorker
<1>11. CASE AddHead(w)
  <2>1. wpc'[w] = "select" /\ wpc[w] = "add" /\ head' = head + 1 /\ UNCHANGED slots
    BY <1>11 DEF AddHead, PushReturns, SenderInv, TypeOK
  <2>2. head' <= tail' + Size
    BY <1>1, <1>6, <2>1 DEF RingInv
  <2> QED BY <1>1, <1>2, <1>3, <1>5, <2>1, <2>2 DEF RingInv, OneWorker
<1> QED BY <1>7, <1>8, <1>9, <1>10, <1>11 DEF Push

(* A step outside Push and Pop leaves the ring alone. *)
LEMMA OthersKeepRing ==
  ASSUME SenderInv, RingInv, [Next]_vars, \A w \in Workers : ~Push(w), ~Pop
  PROVE  RingInv' /\ UNCHANGED <<used, head, tail, slots, popped>>
<1> USE DEF sending, consumer, workers
<1>1. CASE Cancel \/ Feeder \/ Tick \/ UNCHANGED vars
  <2>1. UNCHANGED <<used, wpc, mine, whead, head, tail, slots, read, popped>>
        /\ (cpc' = "add" => cpc = "add")
    BY <1>1 DEF Cancel, Feeder, FeederSelects, FeederPuts, FeederReturns, Tick, vars
  <2> QED BY <2>1 DEF RingInv, OneWorker
<1>2. ASSUME NEW w \in Workers, Receive(w) \/ WorkerReturns(w) \/ Write(w) \/ WriteFails(w)
      PROVE  RingInv' /\ UNCHANGED <<used, head, tail, slots, popped>>
  <2>1. UNCHANGED <<used, whead, head, tail, slots, cpc, read, popped>>
    BY <1>2 DEF Receive, WorkerReturns, Write, WriteFails
  <2>2. /\ wpc[w] \in {"select", "write"} /\ wpc'[w] \in {"select", "write", "head", "done"}
        /\ \A v \in Workers : v # w => wpc'[v] = wpc[v] /\ mine'[v] = mine[v]
    BY <1>2 DEF Receive, WorkerReturns, Write, WriteFails, SenderInv, TypeOK
  <2>3. wpc'[w] = "head" => mine'[w] \in Samples
    BY <1>2, SenderAssumption DEF Receive, WorkerReturns, Write, WriteFails, SenderInv, TypeOK, Samples
  <2>4. w \in used
    BY <2>2 DEF RingInv
  <2> QED BY <2>1, <2>2, <2>3, <2>4 DEF RingInv, OneWorker
<1> QED BY <1>1, <1>2 DEF Next, Worker

(* Pop reads the slot of the tail, which no Push writes until it moves. *)
LEMMA PopKeepsRing ==
  ASSUME SenderInv, RingInv, Pop
  PROVE  RingInv'
<1>1. UNCHANGED <<used, wpc, mine, whead, head, slots>>
  BY DEF Pop, PopHead, PopSlot, PopAdd, sending, workers
<1>3. tail' = tail \/ tail' = tail + 1
  BY DEF Pop, PopHead, PopSlot, PopAdd
<1>4. head \in Nat /\ tail \in Nat /\ Size \in Nat
  BY SenderAssumption DEF SenderInv, TypeOK
<1>2. cpc' = "add" => tail' = tail /\ read' = slots[tail % Size]
  BY DEF Pop, PopHead, PopSlot, PopAdd
<1>5. head <= tail + Size => head <= tail' + Size
  BY <1>3, <1>4
<1>6. ASSUME NEW w \in Workers, OneWorker, wpc[w] \in {"slot", "add"} PROVE head < tail' + Size
  <2>1. head < tail + Size
    BY <1>6 DEF RingInv
  <2> QED BY <1>3, <1>4, <2>1
<1>7. \A w \in Workers \ used' : wpc'[w] = "done"
  BY <1>1 DEF RingInv
<1>8. ASSUME OneWorker'
      PROVE  /\ head' <= tail' + Size
             /\ cpc' = "add" => read' = slots'[tail' % Size]
             /\ \A w \in Workers :
                  /\ wpc'[w] \in {"head", "tail", "slot", "add"} => mine'[w] \in Samples
                  /\ wpc'[w] \in {"tail", "slot", "add"} => whead'[w] = head'
                  /\ wpc'[w] \in {"slot", "add"} => head' < tail' + Size
                  /\ wpc'[w] = "add" => slots'[head' % Size] = mine'[w]
  <2>1. OneWorker
    BY <1>1, <1>8 DEF OneWorker
  <2>2. head' <= tail' + Size
    BY <1>1, <1>5, <2>1 DEF RingInv
  <2>3. cpc' = "add" => read' = slots'[tail' % Size]
    BY <1>1, <1>2
  <2> QED BY <1>1, <1>6, <2>1, <2>2, <2>3 DEF RingInv
<1> QED BY <1>7, <1>8 DEF RingInv

(* A step of Push when several workers race: only who has not returned.    *)
LEMMA RacingPush ==
  ASSUME SenderInv, RingInv, ~OneWorker, NEW w \in Workers, Push(w)
  PROVE  RingInv'
<1>1. used' = used /\ wpc[w] # "done" /\ \A v \in Workers : v # w => wpc'[v] = wpc[v]
  BY DEF SenderInv, TypeOK, Push, LoadHead, LoadTail, WriteSlot, AddHead, PushReturns, sending
<1> QED BY <1>1 DEF RingInv, OneWorker

(* The ring is in order in every reachable state. *)
LEMMA RingInvariant == Spec => [](SenderInv /\ RingInv)
<1>1. Init => RingInv
  <2> SUFFICES ASSUME Init PROVE RingInv
    OBVIOUS
  <2>1. \A w \in Workers : wpc[w] \in {"select", "done"} /\ (w \notin used => wpc[w] = "done")
    BY DEF Init
  <2>2. head <= tail + Size /\ cpc = "tick"
    BY SenderAssumption DEF Init
  <2> QED BY <2>1, <2>2 DEF RingInv
<1>2. SenderInv /\ RingInv /\ [Next]_vars => RingInv'
  BY PushKeepsRing, OthersKeepRing, PopKeepsRing, RacingPush
<1> QED BY <1>1, <1>2, SenderInvariant, PTL DEF Spec
(* The samples in the ring are a sequence, now and after every step. *)
PendingSeq ==
  /\ Pending \in Seq(Samples \cup {Zero})
  /\ Len(Pending) = head - tail
  /\ \A i \in 1..(head - tail) : Pending[i] = slots[(tail + i - 1) % Size]

(* It is one in every state of the invariant: a slot is modulo the size. *)
LEMMA PendingIsSeq == SenderInv => PendingSeq
<1> SUFFICES ASSUME SenderInv PROVE PendingSeq
  OBVIOUS
<1> DEFINE n == head - tail
<1>1. head \in Nat /\ tail \in Nat /\ tail <= head
  BY DEF SenderInv, TypeOK, Behind
<1>2. n \in Nat /\ (IF tail < head THEN head - tail ELSE 0) = n
  BY <1>1
<1>3. \A i \in 1..n : tail + i - 1 \in Nat /\ slots[(tail + i - 1) % Size] \in Samples \cup {Zero}
  <2> SUFFICES ASSUME NEW i \in 1..n
               PROVE  tail + i - 1 \in Nat /\ slots[(tail + i - 1) % Size] \in Samples \cup {Zero}
    OBVIOUS
  <2>1. tail + i - 1 \in Nat
    BY <1>1, <1>2
  <2>2. (tail + i - 1) % Size \in 0..(Size - 1)
    BY <2>1, SlotOf
  <2> QED BY <2>1, <2>2 DEF SenderInv, TypeOK
<1>4. Pending = [i \in 1..n |-> slots[(tail + i - 1) % Size]]
  BY <1>2 DEF Pending
<1> HIDE DEF n
<1>5. Pending \in [1..n -> Samples \cup {Zero}]
  BY <1>3, <1>4
<1>6. Pending \in Seq(Samples \cup {Zero}) /\ Len(Pending) = n
  BY <1>2, <1>5, <1>4
<1>7. \A i \in 1..n : Pending[i] = slots[(tail + i - 1) % Size]
  BY <1>4
<1> QED BY <1>6, <1>7 DEF n, PendingSeq

(* The same after a step. *)
LEMMA PendingStaysSeq == SenderInv' => PendingSeq'
BY PendingIsSeq, PTL

(* A step of Push puts one sample, or leaves the queue as it is. *)
LEMMA PushIsPut ==
  ASSUME SenderInv, SenderInv', RingInv, OneWorker, NEW w \in Workers, Push(w)
  PROVE  [Queue!Next]_(Queue!vars)
<1> USE DEF sending, consumer
<1>1. UNCHANGED <<tail, popped>>
  BY DEF Push, LoadHead, LoadTail, WriteSlot, AddHead
<1>2. /\ head \in Nat /\ tail \in Nat /\ tail <= head /\ Size \in Nat /\ Size > 0
      /\ tail' \in Nat /\ head' \in Nat /\ tail' <= head'
  BY SenderAssumption DEF SenderInv, TypeOK, Behind
<1>3. CASE LoadHead(w) \/ LoadTail(w)
  <2>1. UNCHANGED <<head, slots>>
    BY <1>3 DEF LoadHead, LoadTail
  <2>2. Pending' = Pending
    BY <1>1, <2>1 DEF Pending
  <2> QED BY <1>1, <2>2 DEF Queue!vars
<1>4. CASE WriteSlot(w)
  <2>1. /\ head' = head /\ head < tail + Size
        /\ slots' = [slots EXCEPT ![head % Size] = mine[w]]
    BY <1>4 DEF WriteSlot, RingInv
  <2>2. ASSUME NEW i \in 1..(head - tail)
        PROVE  slots'[(tail + i - 1) % Size] = slots[(tail + i - 1) % Size]
    <3>1. tail + i - 1 \in Nat /\ tail + i - 1 < head /\ head < (tail + i - 1) + Size
      BY <1>2, <2>1
    <3>2. (tail + i - 1) % Size # head % Size
      BY <1>2, <3>1, SlotsDiffer
    <3>3. (tail + i - 1) % Size \in 0..(Size - 1)
      BY <3>1, SlotOf
    <3> QED BY <2>1, <3>2, <3>3 DEF SenderInv, TypeOK
  <2>3. /\ Len(Pending) = head - tail /\ Len(Pending') = head - tail
        /\ \A i \in 1..(head - tail) : Pending[i] = slots[(tail + i - 1) % Size]
        /\ \A i \in 1..(head - tail) : Pending'[i] = slots'[(tail + i - 1) % Size]
    BY <1>1, <2>1, PendingIsSeq, PendingStaysSeq DEF PendingSeq
  <2>4. Pending \in Seq(Samples \cup {Zero}) /\ Pending' \in Seq(Samples \cup {Zero})
    BY PendingIsSeq, PendingStaysSeq DEF PendingSeq
  <2>5. Pending' = Pending
    BY <2>2, <2>3, <2>4, SeqEqual
  <2> QED BY <1>1, <2>5 DEF Queue!vars
<1>5. CASE AddHead(w)
  <2>1. /\ head' = head + 1 /\ slots' = slots
        /\ head < tail + Size /\ slots[head % Size] = mine[w] /\ mine[w] \in Samples
    BY <1>5 DEF AddHead, RingInv
  <2>2. Pending \in Seq(Samples \cup {Zero}) /\ Pending' \in Seq(Samples \cup {Zero})
    BY PendingIsSeq, PendingStaysSeq DEF PendingSeq
  <2>3. Len(Pending) = head - tail /\ Len(Pending') = head - tail + 1
    BY <1>1, <1>2, <2>1, PendingIsSeq, PendingStaysSeq DEF PendingSeq
  <2>4. \A i \in 1..(head - tail) : Pending'[i] = Pending[i]
    BY <1>1, <1>2, <2>1, PendingIsSeq, PendingStaysSeq DEF PendingSeq
  <2>5. Pending'[head - tail + 1] = mine[w]
    <3>1. head - tail + 1 \in 1..(head' - tail') /\ tail' + (head - tail + 1) - 1 = head
      BY <1>1, <1>2, <2>1
    <3> QED BY <2>1, <3>1, PendingIsSeq, PendingStaysSeq DEF PendingSeq
  <2>6. Append(Pending, mine[w]) \in Seq(Samples \cup {Zero})
    BY <2>1, <2>2
  <2>7. /\ Len(Append(Pending, mine[w])) = head - tail + 1
        /\ \A i \in 1..(head - tail) : Append(Pending, mine[w])[i] = Pending[i]
        /\ Append(Pending, mine[w])[head - tail + 1] = mine[w]
    BY <1>2, <2>1, <2>2, <2>3
  <2>8. \A i \in 1..Len(Pending') : Pending'[i] = Append(Pending, mine[w])[i]
    BY <1>2, <2>3, <2>4, <2>5, <2>7
  <2>9. Pending' = Append(Pending, mine[w])
    BY <2>2, <2>3, <2>6, <2>7, <2>8, SeqEqual
  <2>10. Len(Pending) < Size
    BY <1>2, <2>1, <2>3
  <2> QED BY <1>1, <2>1, <2>9, <2>10 DEF Queue!Next, Queue!Put
<1> QED BY <1>3, <1>4, <1>5 DEF Push

(* A step of Pop gets the oldest sample, or leaves the queue as it is. *)
LEMMA PopIsGet ==
  ASSUME SenderInv, SenderInv', RingInv, OneWorker, Pop
  PROVE  [Queue!Next]_(Queue!vars)
<1> USE DEF sending, workers
<1>1. CASE PopHead \/ PopSlot
  <2>1. UNCHANGED <<head, tail, slots, popped>>
    BY <1>1 DEF PopHead, PopSlot
  <2>2. Pending' = Pending
    BY <2>1 DEF Pending
  <2> QED BY <2>1, <2>2 DEF Queue!vars
<1>2. CASE PopAdd
  <2>1. /\ UNCHANGED <<head, slots>> /\ tail' = tail + 1 /\ popped' = read
        /\ read = slots[tail % Size]
    BY <1>2 DEF PopAdd, RingInv
  <2>2. head \in Nat /\ tail \in Nat /\ tail < head
    BY <1>2 DEF SenderInv, TypeOK, Behind, PopAdd
  <2>3. Pending \in Seq(Samples \cup {Zero}) /\ Pending' \in Seq(Samples \cup {Zero})
    BY PendingIsSeq, PendingStaysSeq DEF PendingSeq
  <2>4. Len(Pending) = head - tail /\ Len(Pending') = head - tail - 1
    BY <2>1, <2>2, PendingIsSeq, PendingStaysSeq DEF PendingSeq
  <2>5. Pending # <<>>
    BY <2>2, <2>3, <2>4
  <2>6. Pending[1] = read
    <3>1. 1 \in 1..(head - tail) /\ tail + 1 - 1 = tail
      BY <2>2
    <3> QED BY <2>1, <3>1, PendingIsSeq, PendingStaysSeq DEF PendingSeq
  <2>7. /\ Tail(Pending) \in Seq(Samples \cup {Zero}) /\ Len(Tail(Pending)) = head - tail - 1
        /\ \A i \in 1..(head - tail - 1) : Tail(Pending)[i] = Pending[i + 1]
    BY <2>3, <2>4, <2>5, HeadTailProperties
  <2>8. ASSUME NEW i \in 1..(head - tail - 1) PROVE Pending'[i] = Pending[i + 1]
    <3>1. i + 1 \in 1..(head - tail) /\ i \in 1..(head' - tail') /\ tail' + i - 1 = tail + (i + 1) - 1
      BY <2>1, <2>2
    <3> QED BY <2>1, <3>1, PendingIsSeq, PendingStaysSeq DEF PendingSeq
  <2>9. Pending' = Tail(Pending)
    BY <2>3, <2>4, <2>7, <2>8, SeqEqual
  <2>10. Head(Pending) = read
    BY <2>6
  <2> QED BY <2>1, <2>5, <2>9, <2>10 DEF Queue!Next, Queue!Get
<1> QED BY <1>1, <1>2 DEF Pop

(* A step outside Push and Pop leaves the queue as it is. *)
LEMMA OthersLeaveQueue ==
  ASSUME SenderInv, RingInv, [Next]_vars, \A w \in Workers : ~Push(w), ~Pop
  PROVE  UNCHANGED Queue!vars
<1>1. UNCHANGED <<head, tail, slots, popped>>
  BY OthersKeepRing
<1>2. Pending' = Pending
  BY <1>1 DEF Pending
<1> QED BY <1>1, <1>2 DEF Queue!vars

(* With one worker, no interleaving of the atomic steps of Push and Pop    *)
(* loses, repeats or reorders an accepted sample, whatever the size of the *)
(* ring and however often its places are used again.                       *)
THEOREM OneWorkerRing == Spec => RingIsQueue
<1>1. SenderInv /\ RingInv /\ SenderInv' /\ [Next]_vars => (OneWorker => [Queue!Next]_(Queue!vars))
  BY PushIsPut, PopIsGet, OthersLeaveQueue
<1> QED BY <1>1, RingInvariant, PTL DEF Spec, RingIsQueue

(* The same as a refinement: a sender with one worker implements the queue *)
(* that SampleQueue specifies.                                             *)
THEOREM OneWorkerImplementsQueue == Spec /\ OneWorker => Queue!Spec
<1>1. Init => Queue!Init
  BY DEF Init, Pending, Queue!Init
<1>2. OneWorker /\ [Next]_vars => OneWorker'
  <2> SUFFICES ASSUME [Next]_vars PROVE used' = used
    BY DEF OneWorker
  <2> USE DEF sending, consumer, workers
  <2>1. CASE Cancel \/ Feeder \/ Tick \/ Pop \/ UNCHANGED vars
    BY <2>1 DEF Cancel, Feeder, FeederSelects, FeederPuts, FeederReturns, Tick, Pop, PopHead,
                PopSlot, PopAdd, vars
  <2>2. ASSUME NEW w \in Workers, Worker(w) PROVE used' = used
    BY <2>2 DEF Worker, Push, LoadHead, LoadTail, WriteSlot, AddHead, Receive, WorkerReturns,
                Write, WriteFails
  <2> QED BY <2>1, <2>2 DEF Next
<1>3. SenderInv /\ RingInv /\ SenderInv' /\ [Next]_vars /\ OneWorker => [Queue!Next]_(Queue!vars)
  BY PushIsPut, PopIsGet, OthersLeaveQueue
<1> QED BY <1>1, <1>2, <1>3, RingInvariant, PTL DEF Spec, Queue!Spec
=============================================================================
