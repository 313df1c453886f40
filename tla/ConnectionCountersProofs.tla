--------------------- MODULE ConnectionCountersProofs ---------------------
(***************************************************************************)
(* For every batch size, every transfer size and every number of callers:  *)
(* no byte of a successful transfer is lost, the UDP loops count each byte *)
(* once, the TCP sender never more than twice, and no snapshot shows a     *)
(* packet without its bytes.                                               *)
(***************************************************************************)
EXTENDS ConnectionCounters, TLAPS

(* The estimate of the packets in a write never exceeds its bytes.         *)
LEMMA PacketsBounded ==
  ASSUME NEW n \in Sizes
  PROVE  n \in Nat \ {0} /\ Packets(n) \in Nat /\ Packets(n) <= n
<1>1. n \in Nat /\ n >= 1 /\ PacketSize \in Nat /\ PacketSize >= 1
  BY CountersAssumption
<1>2. n \div PacketSize \in Nat /\ n \div PacketSize <= n
  BY <1>1
<1> QED BY <1>1, <1>2 DEF Packets

(* Only a TCP sender publishes a write on its own, the first of its batch. *)
LEMMA FirstWriteFacts ==
  ASSUME NEW k \in Nat, FirstWrite(k)
  PROVE  loop = "tcp" /\ k = 1
BY DEF FirstWrite

(* The initial state satisfies the invariant. *)
LEMMA InitCounters == Init => CountersInv
<1> SUFFICES ASSUME Init PROVE CountersInv
  OBVIOUS
<1>1. Zero \in Snapshot /\ Zero.packets = 0 /\ Zero.bytes = 0
  BY DEF Zero, Snapshot
<1>2. TypeOK
  BY <1>1 DEF Init, TypeOK, Loops, Steps, Reasons
<1>3. ReasonFits /\ LocalsFit /\ PacketsBehind
  BY DEF Init, ReasonFits, LocalsFit, PacketsBehind
<1>4. NothingLost /\ DatagramsExact /\ Doubled
  BY DEF Init, NothingLost, DatagramsExact, Doubled, AtMostTwice, Owed
<1>5. LoadsFit /\ PacketsHaveBytes
  BY <1>1 DEF Init, LoadsFit, PacketsHaveBytes, Everyone
<1> QED BY <1>2, <1>3, <1>4, <1>5 DEF CountersInv

(* The part of the invariant that is about the loop and the counters.      *)
LoopInv == ReasonFits /\ LocalsFit /\ NothingLost /\ DatagramsExact /\ Doubled /\ PacketsBehind

(* A step of the loop. *)
LoopStep ==
  \/ \E n \in Sizes : Transfer(n)
  \/ TransferFails
  \/ Begin
  \/ Stop
  \/ AddBytes
  \/ AddPackets

(* The loop's own steps keep what relates its variables and the counters.  *)
LEMMA LoopKeeps ==
  ASSUME TypeOK, LoopInv, LoopStep
  PROVE  LoopInv'
<1> USE DEF LoopInv, ReasonFits, LocalsFit, NothingLost, DatagramsExact, Doubled, AtMostTwice,
            PacketsBehind, Owed, locals, atomics
<1>1. ASSUME NEW n \in Sizes, Transfer(n) PROVE LoopInv'
  <2> DEFINE k == batchCount + 1
  <2>1. /\ n \in Nat /\ n > 0 /\ k \in Nat /\ k > 0
        /\ Packets(n) \in Nat /\ Packets(n) <= n
    BY PacketsBounded DEF TypeOK
  <2>2. /\ pc = "transfer" /\ why = "none" /\ UNCHANGED <<loop, bytes, packets>>
        /\ transferred' = transferred + n /\ localBytes' = localBytes + n
        /\ localPackets' = localPackets + Packets(n) /\ batchCount' = k
    BY <1>1 DEF Transfer
  <2>3. \/ pc' = "addBytes" /\ why' = "batch"
        \/ pc' = "addBytes" /\ why' = "first" /\ loop = "tcp" /\ k = 1
        \/ pc' = "check" /\ why' = "none"
    BY <1>1, <2>1, <2>2, FirstWriteFacts DEF Transfer
  <2> HIDE DEF k
  <2>4. k = 1 => batchCount = 0
    BY DEF TypeOK, k
  <2> QED BY <2>1, <2>2, <2>3, <2>4 DEF TypeOK
<1>2. CASE TransferFails
  BY <1>2 DEF TransferFails, TypeOK
<1>3. CASE Begin
  BY <1>3 DEF Begin, TypeOK
<1>4. CASE Stop
  BY <1>4 DEF Stop, TypeOK
<1>5. CASE AddBytes
  BY <1>5 DEF AddBytes, TypeOK
<1>6. CASE AddPackets
  <2>1. CASE why = "batch"
    BY <1>6, <2>1 DEF AddPackets, Reset, TypeOK
  <2>2. CASE why = "error"
    BY <1>6, <2>2 DEF AddPackets, Reset, TypeOK
  <2>3. CASE why \in {"first", "stop"}
    BY <1>6, <2>3 DEF AddPackets, Reset, TypeOK
  <2>4. why \in {"batch", "error", "first", "stop"}
    BY <1>6 DEF AddPackets, TypeOK, Reasons
  <2> QED BY <2>1, <2>2, <2>3, <2>4
<1> QED BY <1>1, <1>2, <1>3, <1>4, <1>5, <1>6 DEF LoopStep

(* They also keep what relates the counters and the snapshots.             *)
LEMMA LoopKeepsUpdates ==
  ASSUME TypeOK, LoopInv, LoadsFit, PacketsHaveBytes, LoopStep
  PROVE  LoadsFit' /\ PacketsHaveBytes'
<1>1. bytes' \in Nat /\ bytes' >= bytes /\ UNCHANGED <<upc, seen, stats>>
  <2>1. ASSUME NEW n \in Sizes, Transfer(n)
        PROVE  bytes' = bytes /\ UNCHANGED <<upc, seen, stats>>
    BY <2>1 DEF Transfer, atomics, updates
  <2> QED BY <2>1 DEF LoopStep, TransferFails, Begin, Stop, AddBytes, AddPackets, atomics,
                      updates, TypeOK
<1>2. \A u \in Everyone : seen[u].packets \in Nat
  BY DEF TypeOK, Snapshot
<1>3. upc["loop"] = "idle"
  BY DEF LoopStep, LoadsFit, Transfer, TransferFails, Begin, Stop, AddBytes, AddPackets
<1> QED BY <1>1, <1>2, <1>3 DEF LoadsFit, PacketsHaveBytes, TypeOK

(* A call of updateStats changes no counter, and only lets the loop go on. *)
LEMMA UpdateKeepsLoop ==
  ASSUME TypeOK, LoopInv, LoadsFit,
         NEW u \in Everyone,
         LoadPackets(u) \/ LoadBytes(u) \/ Store(u)
  PROVE  LoopInv'
<1>1. UNCHANGED <<loop, transferred, localBytes, localPackets, batchCount, why, bytes, packets>>
  BY DEF LoadPackets, LoadBytes, Store, locals, atomics
<1>2. pc' = pc \/ (pc = "update" /\ pc' = "check")
  BY DEF LoadPackets, LoadBytes, Store, LoadsFit
<1> QED
  BY <1>1, <1>2 DEF LoopInv, ReasonFits, LocalsFit, NothingLost, DatagramsExact, Doubled,
     AtMostTwice, PacketsBehind, Owed, TypeOK

(* A call of updateStats keeps the order of the loads. *)
LEMMA UpdateKeepsUpdates ==
  ASSUME TypeOK, LoopInv, LoadsFit, PacketsHaveBytes,
         NEW u \in Everyone,
         LoadPackets(u) \/ LoadBytes(u) \/ Store(u)
  PROVE  LoadsFit' /\ PacketsHaveBytes'
<1>1. /\ bytes' = bytes /\ packets' = packets
      /\ packets <= bytes
  BY DEF LoadPackets, LoadBytes, Store, atomics, LoopInv, PacketsBehind, TypeOK
<1>2. CASE LoadPackets(u)
  BY <1>1, <1>2 DEF LoadPackets, LoadsFit, PacketsHaveBytes, TypeOK, Snapshot
<1>3. CASE LoadBytes(u)
  BY <1>1, <1>3 DEF LoadBytes, LoadsFit, PacketsHaveBytes, TypeOK, Snapshot
<1>4. CASE Store(u)
  <2>1. stats' = seen[u] /\ upc[u] = "store"
    BY <1>4 DEF Store
  <2>2. PacketsHaveBytes'
    BY <2>1 DEF LoadsFit, PacketsHaveBytes
  <2>3. upc'["loop"] # "idle" => pc' = "update"
    BY <1>4 DEF Store, LoadsFit, TypeOK, Everyone
  <2>4. ASSUME NEW v \in Everyone, upc'[v] # "idle"
        PROVE  v # u /\ upc'[v] = upc[v] /\ seen'[v] = seen[v]
    BY <1>4, <2>4 DEF Store, TypeOK
  <2> QED BY <1>1, <2>2, <2>3, <2>4 DEF LoadsFit
<1> QED BY <1>2, <1>3, <1>4

(* Every step preserves the types. *)
LEMMA TypeKept == TypeOK /\ [Next]_vars => TypeOK'
<1> SUFFICES ASSUME TypeOK, [Next]_vars PROVE TypeOK'
  OBVIOUS
<1> USE DEF TypeOK, locals, atomics, updates, Loops, Steps, Reasons
<1>1. ASSUME NEW n \in Sizes, Transfer(n) PROVE TypeOK'
  BY <1>1, PacketsBounded DEF Transfer
<1>2. CASE TransferFails \/ Begin \/ Stop \/ Cancel
  BY <1>2 DEF TransferFails, Begin, Stop, Cancel
<1>3. CASE AddBytes
  BY <1>3 DEF AddBytes
<1>4. CASE AddPackets
  BY <1>4 DEF AddPackets, Reset
<1>5. ASSUME NEW u \in Everyone, LoadPackets(u) \/ LoadBytes(u) \/ Store(u)
      PROVE  TypeOK'
  <2>1. Zero \in Snapshot
    BY DEF Zero, Snapshot
  <2>2. CASE LoadPackets(u)
    BY <2>2 DEF LoadPackets, Snapshot
  <2>3. CASE LoadBytes(u)
    BY <2>3 DEF LoadBytes, Snapshot
  <2>4. CASE Store(u)
    BY <2>1, <2>4 DEF Store
  <2> QED BY <1>5, <2>2, <2>3, <2>4
<1>6. CASE UNCHANGED vars
  BY <1>6 DEF vars
<1> QED BY <1>1, <1>2, <1>3, <1>4, <1>5, <1>6 DEF Next

(* Every step preserves the invariant. *)
LEMMA CountersKept == CountersInv /\ [Next]_vars => CountersInv'
<1> SUFFICES ASSUME CountersInv, [Next]_vars PROVE CountersInv'
  OBVIOUS
<1>1. TypeOK'
  BY TypeKept DEF CountersInv
<1> USE DEF CountersInv
<1>2. LoopInv
  BY DEF LoopInv
<1>3. CASE LoopStep
  BY <1>1, <1>2, <1>3, LoopKeeps, LoopKeepsUpdates DEF LoopInv
<1>4. ASSUME NEW u \in Everyone, LoadPackets(u) \/ LoadBytes(u) \/ Store(u)
      PROVE  CountersInv'
  BY <1>1, <1>2, <1>4, UpdateKeepsLoop, UpdateKeepsUpdates DEF LoopInv
<1>5. CASE Cancel \/ UNCHANGED vars
  BY <1>1, <1>5 DEF Cancel, vars, locals, atomics, updates, ReasonFits, LocalsFit, NothingLost,
     DatagramsExact, Doubled, AtMostTwice, PacketsBehind, LoadsFit, PacketsHaveBytes, Owed
<1> QED BY <1>3, <1>4, <1>5 DEF Next, LoopStep

(* The invariant holds of every behaviour. *)
THEOREM CountersInvariant == Spec => []CountersInv
<1> QED BY InitCounters, CountersKept, PTL DEF Spec

(* The counter holds, or will hold, every byte that was transferred.       *)
THEOREM NoByteLost == Spec => []NothingLost
<1>1. CountersInv => NothingLost
  BY DEF CountersInv
<1> QED BY <1>1, CountersInvariant, PTL

(* The UDP loops count each byte once. *)
THEOREM DatagramsCountedOnce == Spec => []DatagramsExact
<1>1. CountersInv => DatagramsExact
  BY DEF CountersInv
<1> QED BY <1>1, CountersInvariant, PTL

(* The TCP sender's counter is never more than twice what it transmitted.  *)
THEOREM TcpCountBounded == Spec => []AtMostTwice
<1>1. CountersInv => AtMostTwice
  BY DEF CountersInv, Doubled
<1> QED BY <1>1, CountersInvariant, PTL

(* A snapshot never shows a packet without its bytes.                      *)
THEOREM SnapshotsOrdered == Spec => []PacketsHaveBytes
<1>1. CountersInv => PacketsHaveBytes
  BY DEF CountersInv
<1> QED BY <1>1, CountersInvariant, PTL
=============================================================================
