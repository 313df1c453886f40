----------------------------- MODULE PacketEcho -----------------------------
(***************************************************************************)
(* Packet mode from end to end: a Connection sends numbered packets at a   *)
(* rate and counts the echoes (pkg/network/connection.go), the peer's      *)
(* Server echoes them (pkg/network/server.go), and the network in between  *)
(* loses and duplicates datagrams.                                         *)
(*                                                                         *)
(* With protocol "udp" this is startUDP with its sender and receiver, and  *)
(* the server's datagram loop; the peer's server may stop and start again. *)
(* With protocol "tcp" it is the server's handler of one stream, whose     *)
(* asynchronous echo shares its buffer with the next read; TcpConnection   *)
(* has what becomes of a broken stream.                                    *)
(*                                                                         *)
(* Datagrams are told apart by nothing the code looks at, so that order    *)
(* does not matter for them; a stream is read in whole packets. Bytes are  *)
(* counted with packets, and are left out, as are the RTTs.                *)
(***************************************************************************)
EXTENDS Integers, Sequences

CONSTANTS
  Updaters,     \* the goroutines besides the receiver that call updateStats
  EchoLimit,    \* how many packets fit in the 2048 bytes that are echoed
  MaxPackets,   \* bound: packets sent
  MaxDuplicates,\* bound: datagrams the network duplicates
  MaxRestarts   \* bound: times the peer's server stops

ASSUME EchoAssumption ==
  /\ "receiver" \notin Updaters
  /\ EchoLimit \in Nat /\ MaxPackets \in Nat /\ MaxDuplicates \in Nat /\ MaxRestarts \in Nat

VARIABLES
  protocol,
  cancelled,    \* the context is done
  conn,         \* startUDP: "dialing", "open" or "returned"
  sender,       \* "tick", "count" between a write and the counting, "done"
  receiver,     \* "check", "read", "update" after it counted, "done"
  number,       \* sequenceNum
  sent,         \* c.packetsSent
  received,     \* c.packetsReceived
  upc, seen,    \* who is in updateStatsFull, that is holds c.mu; what it loaded
  stats,        \* c.stats
  out, back,    \* the packets on their way, by number
  refused,      \* a refusal waits on the client's socket
  serverUp,     \* the peer's server runs
  buffer,       \* the handler's buffer
  echoes,       \* its echoes to be written: what each place may hold by then
  duplicates, refusals, restarts, overlapped   \* history

client  == <<cancelled, conn, sender, receiver, number>>
updates == <<upc, seen, stats>>
network == <<out, back, refused, duplicates, refusals>>
server  == <<serverUp, buffer, echoes, restarts, overlapped>>
vars    == <<protocol, client, sent, received, updates, network, server>>

Everyone == Updaters \cup {"receiver"}
Numbers  == 1..MaxPackets

TypeOK ==
  /\ protocol \in {"udp", "tcp"} /\ cancelled \in BOOLEAN
  /\ conn \in {"dialing", "open", "returned"}
  /\ sender \in {"tick", "count", "done"}
  /\ receiver \in {"check", "read", "update", "done"}
  /\ number \in Nat /\ sent \in Nat /\ received \in Nat
  /\ upc \in [Everyone -> {"idle", "loaded"}]
  /\ seen \in [Everyone -> Nat]
  /\ stats \in [sent : Nat, lost : Int]
  /\ out \in Seq(Numbers) /\ back \in Seq(Numbers)
  /\ refused \in BOOLEAN /\ serverUp \in BOOLEAN /\ overlapped \in BOOLEAN
  /\ buffer \in Seq(Numbers)
  /\ echoes \in Seq(Seq(SUBSET Numbers))
  /\ duplicates \in Nat /\ refusals \in Nat /\ restarts \in Nat

Init ==
  /\ protocol \in {"udp", "tcp"} /\ cancelled = FALSE
  /\ conn = IF protocol = "udp" THEN "dialing" ELSE "open"
  /\ sender = "tick" /\ receiver = "check" /\ number = 0
  /\ sent = 0 /\ received = 0
  /\ upc = [u \in Everyone |-> "idle"] /\ seen = [u \in Everyone |-> 0]
  /\ stats = [sent |-> 0, lost |-> 0]
  /\ out = <<>> /\ back = <<>> /\ refused = FALSE
  /\ serverUp = TRUE /\ buffer = <<>> /\ echoes = <<>>
  /\ duplicates = 0 /\ refusals = 0 /\ restarts = 0 /\ overlapped = FALSE

-----------------------------------------------------------------------------
(* startUDP.                                                               *)

(* A dial that fails is retried; one that succeeds starts both goroutines. *)
Dial ==
  /\ conn = "dialing"
  /\ conn' = "open"
  /\ UNCHANGED <<protocol, cancelled, sender, receiver, number, sent, received, updates,
                 network, server>>

DialGivesUp ==
  /\ conn = "dialing" /\ cancelled
  /\ conn' = "returned"
  /\ UNCHANGED <<protocol, cancelled, sender, receiver, number, sent, received, updates,
                 network, server>>

(* Both goroutines have returned: so does the call, closing the socket. *)
Return ==
  /\ conn = "open" /\ sender = "done" /\ receiver = "done"
  /\ conn' = "returned"
  /\ UNCHANGED <<protocol, cancelled, sender, receiver, number, sent, received, updates,
                 network, server>>

Cancel ==
  /\ ~cancelled
  /\ cancelled' = TRUE
  /\ UNCHANGED <<protocol, conn, sender, receiver, number, sent, received, updates,
                 network, server>>

-----------------------------------------------------------------------------
(* The sender. Its select takes the tick or the context, whichever.        *)

(* Mutant of Send: the number is taken before it is increased. *)
SendNumberFirst ==
  /\ conn = "open" /\ sender = "tick"
  /\ number < MaxPackets
  /\ number' = number + 1
  /\ out' = Append(out, number)
  /\ sender' = "count"
  /\ UNCHANGED <<protocol, cancelled, conn, receiver, sent, received, updates,
                 back, refused, duplicates, refusals, server>>

(* The write is out before it is counted. *)
Send ==
  /\ conn = "open" /\ sender = "tick"
  /\ number < MaxPackets
  /\ number' = number + 1
  /\ out' = Append(out, number + 1)
  /\ sender' = "count"
  /\ UNCHANGED <<protocol, cancelled, conn, receiver, sent, received, updates,
                 back, refused, duplicates, refusals, server>>

(* A write reports the refusal of an earlier datagram, and is not repeated. *)
SendFails ==
  /\ conn = "open" /\ sender = "tick" /\ refused
  /\ number < MaxPackets
  /\ number' = number + 1
  /\ refused' = FALSE
  /\ UNCHANGED <<protocol, cancelled, conn, sender, receiver, sent, received, updates,
                 out, back, duplicates, refusals, server>>

CountSent ==
  /\ sender = "count"
  /\ sent' = sent + 1
  /\ sender' = "tick"
  /\ UNCHANGED <<protocol, cancelled, conn, receiver, number, received, updates,
                 network, server>>

SenderStops ==
  /\ conn = "open" /\ sender = "tick" /\ cancelled
  /\ sender' = "done"
  /\ UNCHANGED <<protocol, cancelled, conn, receiver, number, sent, received, updates,
                 network, server>>

-----------------------------------------------------------------------------
(* The receiver.                                                           *)

Check ==
  /\ conn = "open" /\ receiver = "check"
  /\ receiver' = IF cancelled THEN "done" ELSE "read"
  /\ UNCHANGED <<protocol, cancelled, conn, sender, number, sent, received, updates,
                 network, server>>

(* Mutant of ReadTimesOut: a timeout is an error like any other. *)
ReadTimesOutForGood ==
  /\ receiver = "read"
  /\ receiver' = "done"
  /\ UNCHANGED <<protocol, cancelled, conn, sender, number, sent, received, updates,
                 network, server>>

(* Mutant of ReadTimesOut: the read is repeated without a look at the context. *)
ReadTimesOutInPlace == receiver = "read" /\ UNCHANGED vars

(* Nothing came before the deadline. *)
ReadTimesOut ==
  /\ receiver = "read"
  /\ receiver' = "check"
  /\ UNCHANGED <<protocol, cancelled, conn, sender, number, sent, received, updates,
                 network, server>>

(* The read reports a refusal: the receiver returns, and is not replaced. *)
ReadFails ==
  /\ receiver = "read" /\ refused
  /\ refused' = FALSE
  /\ receiver' = "done"
  /\ UNCHANGED <<protocol, cancelled, conn, sender, number, sent, received, updates,
                 out, back, duplicates, refusals, server>>

(* An echo is read; processReceivedPacket counts it, unless its RTT is out *)
(* of range.                                                               *)
Receive ==
  /\ receiver = "read" /\ back # <<>>
  /\ back' = Tail(back)
  /\ \/ received' = received + 1 /\ receiver' = "update"
     \/ UNCHANGED received /\ receiver' = "check"
  /\ UNCHANGED <<protocol, cancelled, conn, sender, number, sent, updates,
                 out, refused, duplicates, refusals, server>>

-----------------------------------------------------------------------------
(* updateStatsFull, which holds c.mu from before it loads the counters.    *)

Wants(u) == upc[u] = "idle" /\ (u = "receiver" => receiver = "update")

(* Mutant of LoadSent: the counters are loaded before the lock is taken,   *)
(* as updateStatsThroughput does.                                          *)
LoadSentUnlocked(u) ==
  /\ Wants(u)
  /\ upc' = [upc EXCEPT ![u] = "loaded"]
  /\ seen' = [seen EXCEPT ![u] = sent]
  /\ UNCHANGED <<protocol, client, sent, received, stats, network, server>>

LoadSent(u) ==
  /\ Wants(u)
  /\ \A v \in Everyone : upc[v] = "idle"
  /\ upc' = [upc EXCEPT ![u] = "loaded"]
  /\ seen' = [seen EXCEPT ![u] = sent]
  /\ UNCHANGED <<protocol, client, sent, received, stats, network, server>>

(* The other counter is loaded, and the statistics are stored. *)
Store(u) ==
  /\ upc[u] = "loaded"
  /\ upc' = [upc EXCEPT ![u] = "idle"]
  /\ stats' = [sent |-> seen[u],
               lost |-> IF protocol = "tcp" THEN -1 ELSE seen[u] - received]
  /\ receiver' = IF u = "receiver" THEN "check" ELSE receiver
  /\ UNCHANGED <<protocol, cancelled, conn, sender, number, sent, received, seen,
                 network, server>>

-----------------------------------------------------------------------------
(* The network, for datagrams.                                             *)

Lose ==
  /\ protocol = "udp"
  /\ \/ out # <<>> /\ out' = Tail(out) /\ UNCHANGED back
     \/ back # <<>> /\ back' = Tail(back) /\ UNCHANGED out
  /\ UNCHANGED <<protocol, client, sent, received, updates, refused, duplicates,
                 refusals, server>>

Duplicate ==
  /\ protocol = "udp" /\ duplicates < MaxDuplicates
  /\ duplicates' = duplicates + 1
  /\ \/ out # <<>> /\ out' = Append(out, Head(out)) /\ UNCHANGED back
     \/ back # <<>> /\ back' = Append(back, Head(back)) /\ UNCHANGED out
  /\ UNCHANGED <<protocol, client, sent, received, updates, refused, refusals, server>>

(* Nobody listens on the peer's port: its host says so. *)
Refuse ==
  /\ protocol = "udp" /\ ~serverUp /\ out # <<>>
  /\ out' = Tail(out)
  /\ refused' = TRUE
  /\ refusals' = refusals + 1
  /\ UNCHANGED <<protocol, client, sent, received, updates, back, duplicates, server>>

-----------------------------------------------------------------------------
(* The peer.                                                               *)

(* Its test ends, and another begins. *)
ServerRestarts ==
  /\ protocol = "udp"
  /\ \/ serverUp /\ restarts < MaxRestarts /\ restarts' = restarts + 1
     \/ ~serverUp /\ UNCHANGED restarts
  /\ serverUp' = ~serverUp
  /\ UNCHANGED <<protocol, client, sent, received, updates, network, buffer, echoes, overlapped>>

(* runUDPServer: the datagram goes back from the buffer it was read into,  *)
(* before the next is read.                                                *)
EchoDatagram ==
  /\ protocol = "udp" /\ serverUp /\ out # <<>>
  /\ out' = Tail(out)
  /\ back' = Append(back, Head(out))
  /\ UNCHANGED <<protocol, client, sent, received, updates, refused, duplicates, refusals, server>>

(* handleTCPConnection reads what has arrived, n packets. An echo that is  *)
(* still to be written may find the new bytes in its part of the buffer.   *)
ReadStream(n) ==
  /\ protocol = "tcp"
  /\ n \in 1..Len(out)
  /\ out' = [i \in 1..(Len(out) - n) |-> out[n + i]]
  /\ LET new == [i \in 1..n |-> out[i]]
         overwritten(e) == [i \in DOMAIN e |-> IF i <= n THEN e[i] \cup {new[i]} ELSE e[i]]
         pending == [k \in DOMAIN echoes |-> overwritten(echoes[k])]
     IN /\ buffer' = [i \in 1..(IF n > Len(buffer) THEN n ELSE Len(buffer)) |->
                        IF i <= n THEN new[i] ELSE buffer[i]]
        /\ echoes' = IF n <= EchoLimit
                     THEN Append(pending, [i \in 1..n |-> {new[i]}]) ELSE pending
  /\ overlapped' = (overlapped \/ echoes # <<>>)
  /\ UNCHANGED <<protocol, client, sent, received, updates, back, refused, duplicates,
                 refusals, serverUp, restarts>>

(* Mutant of Echoed: the whole buffer is written, not what was read. *)
EchoedWhole(e) == {buffer}

(* What the write of an echo may copy from the shared buffer. *)
Echoed(e) == {s \in [DOMAIN e -> Numbers] : \A i \in DOMAIN e : s[i] \in e[i]}

(* One of the echo goroutines writes. *)
EchoStream(k) ==
  /\ k \in DOMAIN echoes
  /\ \E s \in Echoed(echoes[k]) : back' = back \o s
  /\ echoes' = [i \in 1..(Len(echoes) - 1) |-> IF i < k THEN echoes[i] ELSE echoes[i + 1]]
  /\ UNCHANGED <<protocol, client, sent, received, updates, out, refused, duplicates,
                 refusals, serverUp, buffer, restarts, overlapped>>

Receiver == Check \/ ReadTimesOut \/ ReadFails \/ Receive \/ LoadSent("receiver") \/ Store("receiver")

Next ==
  \/ Dial \/ DialGivesUp \/ Return \/ Cancel
  \/ Send \/ SendFails \/ CountSent \/ SenderStops
  \/ Receiver
  \/ \E u \in Updaters : LoadSent(u) \/ Store(u)
  \/ Lose \/ Duplicate \/ Refuse
  \/ ServerRestarts \/ EchoDatagram
  \/ \E n \in Numbers : ReadStream(n) \/ EchoStream(n)

Spec == Init /\ [][Next]_vars

(* The dial loop and both goroutines run; a read has a deadline; a select  *)
(* that keeps finding the context done takes it.                           *)
Fairness ==
  /\ WF_vars(Dial \/ DialGivesUp) /\ WF_vars(Return)
  /\ WF_vars(CountSent) /\ SF_vars(SenderStops)
  /\ WF_vars(Check) /\ WF_vars(ReadTimesOut \/ ReadFails \/ Receive)
  /\ SF_vars(LoadSent("receiver"))
  /\ \A u \in Everyone : WF_vars(Store(u))

FairSpec == Spec /\ Fairness

-----------------------------------------------------------------------------
(* Properties.                                                             *)

(* How far the reported loss can leave its documented range.               *)
(* connection.go:80 calls PacketsLost the packets that did not get a       *)
(* response, of which there cannot be fewer than 0, and connection.go:87   *)
(* gives LossRate as 0-100. The code does not keep to that: a packet is    *)
(* counted only after it is out, the two counters are loaded one after the *)
(* other and a duplicated echo counts again, so both may be negative. The  *)
(* races alone take the loss no lower than -2, for an updater holds c.mu,  *)
(* and the receiver needs it after every echo that it counts; each         *)
(* duplicate takes it one lower.                                           *)
NegativeLossIsBounded == stats.lost >= -2 - duplicates

(* The statistics of a packet-mode connection never go back. *)
StatsAdvance == [][stats'.sent >= stats.sent]_vars

(* Only a refusal can end the receiver before the context does: no loss,   *)
(* duplication or delay does.                                              *)
ReceiverEndsForCause ==
  receiver = "done" /\ ~cancelled => refusals > 0

(* As long as no echo is still to be written when the handler reads again, *)
(* the stream of echoes is made of the packets sent, each at most once and *)
(* in their order, in spite of the shared buffer.                          *)
EchoesInOrder ==
  protocol = "tcp" /\ ~overlapped =>
    \A i, j \in 1..Len(back) : i < j => back[i] < back[j]

(* startUDP returns after the cancellation. *)
StartReturns == cancelled ~> (protocol = "tcp" \/ conn = "returned")
=============================================================================
