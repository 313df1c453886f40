------------------------ MODULE ConnectionCounters ------------------------
(***************************************************************************)
(* The counters of one Connection in throughput mode                       *)
(* (pkg/network/connection.go): a send or receive loop adds up what it has *)
(* transferred in local variables and publishes them in batches to two     *)
(* atomic counters, bytes first and packets second; updateStats, called by *)
(* the loop, by periodicStatsUpdater and by every GetStats, loads the      *)
(* counters one after the other and stores them under c.mu.                *)
(*                                                                         *)
(* `loop' says which loop it is: "tcp" for tcpSenderThroughput, "udp" for  *)
(* udpSenderThroughput, "receive" for udpReceiverThroughput.               *)
(***************************************************************************)
EXTENDS Naturals

CONSTANTS
  Sizes,       \* how many bytes one successful transfer may move
  PacketSize,  \* packetSizeInv: the estimate of a TCP packet's size
  BatchSize,   \* SendBatchSize or RecvBatchSize, or its default
  Updaters,    \* the goroutines besides the loop that call updateStats
  MaxBytes     \* bound: how much is transferred

ASSUME CountersAssumption ==
  /\ Sizes \subseteq Nat \ {0}
  /\ PacketSize \in Nat \ {0}
  /\ BatchSize \in Nat \ {0}
  /\ MaxBytes \in Nat
  /\ "loop" \notin Updaters

VARIABLES
  loop,          \* the kind of loop
  cancelled,     \* the context is done
  transferred,   \* the bytes moved by the transfers that returned no error
  localBytes, localPackets, batchCount,   \* the loop's local variables
  pc,            \* where the loop is
  why,           \* what makes it publish
  bytes,         \* c.bytesSent (c.bytesReceived)
  packets,       \* c.packetsSent (c.packetsReceived)
  upc,           \* where each call of updateStats is
  seen,          \* what that call has loaded
  stats          \* c.stats

locals  == <<transferred, localBytes, localPackets, batchCount>>
atomics == <<bytes, packets>>
updates == <<upc, seen, stats>>
vars    == <<loop, cancelled, locals, pc, why, atomics, updates>>

Everyone == Updaters \cup {"loop"}
Loops    == {"tcp", "udp", "receive"}
Steps    == {"check", "transfer", "addBytes", "addPackets", "update", "stopped"}
Reasons  == {"none", "batch", "first", "error", "stop"}
Snapshot == [bytes : Nat, packets : Nat]

TypeOK ==
  /\ loop \in Loops
  /\ cancelled \in BOOLEAN
  /\ transferred \in Nat /\ localBytes \in Nat /\ localPackets \in Nat
  /\ batchCount \in Nat
  /\ pc \in Steps
  /\ why \in Reasons
  /\ bytes \in Nat /\ packets \in Nat
  /\ upc \in [Everyone -> {"idle", "loadBytes", "store"}]
  /\ seen \in [Everyone -> Snapshot]
  /\ stats \in Snapshot

Zero == [bytes |-> 0, packets |-> 0]

Init ==
  /\ loop \in Loops
  /\ cancelled = FALSE
  /\ transferred = 0 /\ localBytes = 0 /\ localPackets = 0 /\ batchCount = 0
  /\ pc = "check" /\ why = "none"
  /\ bytes = 0 /\ packets = 0
  /\ upc = [u \in Everyone |-> "idle"]
  /\ seen = [u \in Everyone |-> Zero]
  /\ stats = Zero

-----------------------------------------------------------------------------
(* The loop. *)

(* A TCP write is worth an estimated number of packets, a datagram one.    *)
Packets(n) == IF loop = "tcp" THEN n \div PacketSize ELSE 1

(* Mutant of FirstWrite: every write before the batch is full is published.*)
FirstWriteAlways(count) == loop = "tcp"

(* The TCP sender also publishes the first write of each batch at once.    *)
FirstWrite(count) == loop = "tcp" /\ count = 1

(* The context is not done yet: the loop goes into a write or a read. *)
Begin ==
  /\ pc = "check"
  /\ ~cancelled
  /\ pc' = "transfer"
  /\ UNCHANGED <<loop, cancelled, locals, why, atomics, updates>>

(* Mutant of Stop: the loop returns with bytes it has not published. *)
StopAtOnce ==
  /\ pc = "check"
  /\ cancelled
  /\ pc' = "stopped"
  /\ UNCHANGED <<loop, cancelled, locals, why, atomics, updates>>

(* The context is done: what is left is published, and the loop returns.   *)
Stop ==
  /\ pc = "check"
  /\ cancelled
  /\ \/ localBytes > 0 /\ pc' = "addBytes" /\ why' = "stop"
     \/ localBytes = 0 /\ pc' = "stopped" /\ UNCHANGED why
  /\ UNCHANGED <<loop, cancelled, locals, atomics, updates>>

(* A write or read of n bytes succeeds. *)
Transfer(n) ==
  /\ pc = "transfer"
  /\ transferred + n <= MaxBytes
  /\ transferred' = transferred + n
  /\ localBytes' = localBytes + n
  /\ localPackets' = localPackets + Packets(n)
  /\ batchCount' = batchCount + 1
  /\ \/ /\ batchCount + 1 >= BatchSize
        /\ pc' = "addBytes" /\ why' = "batch"
     \/ /\ batchCount + 1 < BatchSize /\ FirstWrite(batchCount + 1)
        /\ pc' = "addBytes" /\ why' = "first"
     \/ /\ batchCount + 1 < BatchSize /\ ~FirstWrite(batchCount + 1)
        /\ pc' = "check" /\ UNCHANGED why
  /\ UNCHANGED <<loop, cancelled, atomics, updates>>

(* An error ends the UDP receiver when it is not a timeout, and the TCP    *)
(* sender when the context is done before it has reconnected.              *)
MayEnd == loop = "receive" \/ (loop = "tcp" /\ cancelled)

(* A transfer fails: what is accumulated is published, and reset, first.   *)
TransferFails ==
  /\ pc = "transfer"
  /\ \/ localBytes > 0 /\ pc' = "addBytes" /\ why' = "error"
     \/ localBytes = 0 /\ pc' = "check" /\ UNCHANGED why
     \/ localBytes = 0 /\ MayEnd /\ pc' = "stopped" /\ UNCHANGED why
  /\ UNCHANGED <<loop, cancelled, locals, atomics, updates>>

(* Mutant of AddBytes: a failed transfer publishes the packets only.        *)
AddBytesNotOnError ==
  /\ pc = "addBytes"
  /\ bytes' = IF why = "error" THEN bytes ELSE bytes + localBytes
  /\ pc' = "addPackets"
  /\ UNCHANGED <<loop, cancelled, locals, why, packets, updates>>

AddBytes ==
  /\ pc = "addBytes"
  /\ bytes' = bytes + localBytes
  /\ pc' = "addPackets"
  /\ UNCHANGED <<loop, cancelled, locals, why, packets, updates>>

(* Mutant of Reset: nothing is reset after an error. *)
ResetNotOnError ==
  \/ /\ why = "batch"
     /\ localBytes' = 0 /\ localPackets' = 0 /\ batchCount' = 0
  \/ /\ why # "batch"
     /\ UNCHANGED <<localBytes, localPackets, batchCount>>

(* What the loop resets after it has published. *)
Reset ==
  \/ /\ why = "batch"
     /\ localBytes' = 0 /\ localPackets' = 0 /\ batchCount' = 0
  \/ /\ why = "error"
     /\ localBytes' = 0 /\ localPackets' = 0 /\ UNCHANGED batchCount
  \/ /\ why \in {"first", "stop"}
     /\ UNCHANGED <<localBytes, localPackets, batchCount>>

AddPackets ==
  /\ pc = "addPackets"
  /\ packets' = packets + localPackets
  /\ Reset
  /\ \/ why \in {"batch", "first"} /\ pc' = "update"
     \/ why = "error" /\ pc' = "check"
     \/ why = "error" /\ MayEnd /\ pc' = "stopped"
     \/ why = "stop" /\ pc' = "stopped"
  /\ why' = "none"
  /\ UNCHANGED <<loop, cancelled, transferred, bytes, updates>>

-----------------------------------------------------------------------------
(* updateStatsThroughput. *)

(* The loop calls it after a batch, the others when they like. *)
LoadPackets(u) ==
  /\ upc[u] = "idle"
  /\ u = "loop" => pc = "update"
  /\ seen' = [seen EXCEPT ![u].packets = packets]
  /\ upc' = [upc EXCEPT ![u] = "loadBytes"]
  /\ UNCHANGED <<loop, cancelled, locals, pc, why, atomics, stats>>

LoadBytes(u) ==
  /\ upc[u] = "loadBytes"
  /\ seen' = [seen EXCEPT ![u].bytes = bytes]
  /\ upc' = [upc EXCEPT ![u] = "store"]
  /\ UNCHANGED <<loop, cancelled, locals, pc, why, atomics, stats>>

(* The store is one step, under c.mu; the loop then goes on. *)
Store(u) ==
  /\ upc[u] = "store"
  /\ stats' = seen[u]
  /\ seen' = [seen EXCEPT ![u] = Zero]
  /\ upc' = [upc EXCEPT ![u] = "idle"]
  /\ pc' = IF u = "loop" THEN "check" ELSE pc
  /\ UNCHANGED <<loop, cancelled, locals, why, atomics>>

Cancel ==
  /\ ~cancelled
  /\ cancelled' = TRUE
  /\ UNCHANGED <<loop, locals, pc, why, atomics, updates>>

-----------------------------------------------------------------------------
Next ==
  \/ \E n \in Sizes : Transfer(n)
  \/ TransferFails
  \/ Begin
  \/ Stop
  \/ AddBytes
  \/ AddPackets
  \/ \E u \in Everyone : LoadPackets(u) \/ LoadBytes(u) \/ Store(u)
  \/ Cancel

Spec == Init /\ [][Next]_vars

-----------------------------------------------------------------------------
(* Properties. *)

(* What the loop still owes to the byte counter. *)
Owed == IF pc \in {"addPackets", "stopped"} THEN 0 ELSE localBytes

(* Nothing is lost: however transfers, errors and the cancellation         *)
(* interleave, the bytes of every successful transfer are in the counter   *)
(* or will be, and none is owed once the loop has returned.                *)
NothingLost == bytes + Owed >= transferred

(* The UDP loops publish every byte exactly once. *)
DatagramsExact == loop # "tcp" => bytes + Owed = transferred

(* The TCP sender publishes no byte more than twice. *)
AtMostTwice == bytes + Owed <= 2 * transferred

(* A snapshot never shows a packet without its bytes: bytes are published  *)
(* first and loaded last, by whoever makes the snapshot.                   *)
PacketsHaveBytes == stats.packets <= stats.bytes

(* connection.go: "BytesSent is the total bytes transmitted".  It is never *)
(* more than that.                                                         *)
SentIsTransmitted == stats.bytes <= transferred

-----------------------------------------------------------------------------
(* The inductive strengthening. *)

(* Where the loop is, and what made it publish. *)
ReasonFits ==
  /\ pc \in {"addBytes", "addPackets"} <=> why # "none"
  /\ why = "first" => loop = "tcp" /\ batchCount = 1

(* The two local sums are reset together, and with the count of the batch. *)
LocalsFit ==
  /\ localPackets <= localBytes
  /\ batchCount = 0 => localBytes = 0
  /\ pc = "stopped" => why = "none"

(* In the middle of a publication the bytes are ahead of the packets.      *)
PacketsBehind ==
  IF pc = "addPackets" THEN packets + localPackets <= bytes ELSE packets <= bytes

(* A byte published on its own is counted again when its batch is full:    *)
(* until the batch is reset the second count is still to come.             *)
Doubled ==
  /\ AtMostTwice
  /\ why = "first" /\ pc = "addBytes" => bytes + 2 * localBytes <= 2 * transferred
  /\ why = "first" /\ pc = "addPackets" => bytes + localBytes <= 2 * transferred

(* The loop stands still during its own call of updateStats.  Whoever has   *)
(* loaded the packets will load, or has loaded, at least their bytes.      *)
LoadsFit ==
  /\ upc["loop"] # "idle" => pc = "update"
  /\ \A u \in Everyone :
       /\ upc[u] = "loadBytes" => seen[u].packets <= bytes
       /\ upc[u] = "store" => seen[u].packets <= seen[u].bytes

CountersInv ==
  /\ TypeOK
  /\ ReasonFits
  /\ LocalsFit
  /\ NothingLost
  /\ DatagramsExact
  /\ Doubled
  /\ PacketsBehind
  /\ LoadsFit
  /\ PacketsHaveBytes
=============================================================================
