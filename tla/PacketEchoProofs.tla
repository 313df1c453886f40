-------------------------- MODULE PacketEchoProofs --------------------------
(***************************************************************************)
(* For any number of updaters, packets, duplicates and restarts: reported  *)
(* losses are never below -2 beyond what the network duplicated, reported  *)
(* counts never go back, and only a refusal ends the receiver early; the   *)
(* echoes of a stream keep its order as long as no read overlaps an echo.  *)
(*                                                                         *)
(* The invariant: c.mu has one holder (OneUpdater); every packet counted   *)
(* or under way was written or duplicated (Accounted); and what the holder *)
(* has loaded is at most one echo, and the one that waits for c.mu, behind *)
(* (Loaded). Of a stream, InOrder: what came back, the echo to be written  *)
(* and what is still to be read follow each other.                         *)
(***************************************************************************)
EXTENDS PacketEcho, SequenceTheorems, TLAPS

(* The part of TypeOK that the datagrams need. *)
Typed ==
  /\ protocol \in {"udp", "tcp"}
  /\ sender \in {"tick", "count", "done"} /\ receiver \in {"check", "read", "update", "done"}
  /\ number \in Nat /\ sent \in Nat /\ received \in Nat /\ duplicates \in Nat /\ refusals \in Nat
  /\ upc \in [Everyone -> {"idle", "loaded"}] /\ seen \in [Everyone -> Nat]
  /\ stats \in [sent : Nat, lost : Int]
  /\ protocol = "udp" => out \in Seq(Numbers) /\ back \in Seq(Numbers) /\ echoes = <<>>

(* c.mu excludes. *)
OneUpdater == \A u, v \in Everyone : upc[u] = "loaded" /\ upc[v] = "loaded" => u = v

(* A packet is counted or under way only if it was written or duplicated;  *)
(* between the write and its counting the sender is one behind.            *)
Accounted ==
  protocol = "udp" =>
    received + Len(out) + Len(back)
      <= sent + (IF sender = "count" THEN 1 ELSE 0) + duplicates

(* What the holder of c.mu loaded lies between what is reported and now.   *)
Loaded(u) ==
  upc[u] = "loaded" =>
    /\ stats.sent <= seen[u] /\ seen[u] <= sent
    /\ u = "receiver" => receiver = "update"
    /\ protocol = "udp" =>
         received <= seen[u] + 1 + duplicates + (IF receiver = "update" THEN 1 ELSE 0)

(* A refusal that waits to be read has been counted. *)
Refusals == refused => refusals > 0

(* The inductive invariant for datagrams. *)
EchoInv ==
  /\ Typed /\ OneUpdater /\ Accounted /\ Refusals
  /\ stats.sent <= sent
  /\ \A u \in Everyone : Loaded(u)
  /\ NegativeLossIsBounded /\ ReceiverEndsForCause

(* The initial states satisfy the invariant. *)
LEMMA InitEcho == Init => EchoInv
<1> SUFFICES ASSUME Init PROVE EchoInv
  OBVIOUS
<1>1. Typed
  BY DEF Init, Typed
<1>2. OneUpdater /\ Accounted /\ Refusals /\ stats.sent <= sent
  BY DEF Init, OneUpdater, Accounted, Refusals
<1>3. \A u \in Everyone : Loaded(u)
  BY DEF Init, Loaded
<1>4. NegativeLossIsBounded /\ ReceiverEndsForCause
  BY DEF Init, NegativeLossIsBounded, ReceiverEndsForCause
<1> QED BY <1>1, <1>2, <1>3, <1>4 DEF EchoInv

(* startUDP and the sender: a packet is counted after it was written.      *)
LEMMA SenderKeeps ==
  ASSUME EchoInv,
         Dial \/ DialGivesUp \/ Return \/ Cancel \/ Send \/ SendFails \/ CountSent \/ SenderStops
  PROVE  EchoInv'
<1> USE EchoAssumption DEF EchoInv, updates, network, server
<1>1. CASE Dial \/ DialGivesUp \/ Return \/ Cancel
  <2>1. UNCHANGED <<protocol, sender, receiver, number, sent, received, upc, seen, stats, out, back,
                    echoes, refused, duplicates, refusals>>
    BY <1>1 DEF Dial, DialGivesUp, Return, Cancel
  <2>2. cancelled => cancelled'
    BY <1>1 DEF Dial, DialGivesUp, Return, Cancel
  <2>3. Typed' /\ Accounted' /\ Refusals' /\ OneUpdater'
    BY <2>1 DEF Typed, Accounted, Refusals, OneUpdater
  <2>4. \A u \in Everyone : Loaded(u)'
    BY <2>1 DEF Loaded
  <2> QED BY <2>1, <2>2, <2>3, <2>4 DEF NegativeLossIsBounded, ReceiverEndsForCause
<1>2. CASE Send
  <2>1. number + 1 \in Numbers
    BY <1>2 DEF Send, Typed, Numbers
  <2>2. Typed'
    BY <1>2, <2>1 DEF Send, Typed
  <2>3. Accounted'
    BY <1>2, <2>1 DEF Send, Typed, Accounted
  <2>4. OneUpdater' /\ Refusals' /\ (stats.sent <= sent)' /\ \A u \in Everyone : Loaded(u)'
    BY <1>2 DEF Send, OneUpdater, Refusals, Loaded
  <2> QED BY <1>2, <2>2, <2>3, <2>4 DEF Send, NegativeLossIsBounded, ReceiverEndsForCause
<1>3. CASE SendFails
  <2>1. Typed' /\ Accounted' /\ Refusals'
    BY <1>3 DEF SendFails, Typed, Accounted, Refusals
  <2>2. OneUpdater' /\ \A u \in Everyone : Loaded(u)'
    BY <1>3 DEF SendFails, OneUpdater, Loaded
  <2> QED BY <1>3, <2>1, <2>2 DEF SendFails, NegativeLossIsBounded, ReceiverEndsForCause
<1>5. CASE SenderStops
  <2>1. Typed' /\ Accounted' /\ Refusals'
    BY <1>5 DEF SenderStops, Typed, Accounted, Refusals
  <2>2. OneUpdater' /\ \A u \in Everyone : Loaded(u)'
    BY <1>5 DEF SenderStops, OneUpdater, Loaded
  <2> QED BY <1>5, <2>1, <2>2 DEF SenderStops, NegativeLossIsBounded, ReceiverEndsForCause
<1>4. CASE CountSent
  <2>1. Typed' /\ Accounted'
    BY <1>4 DEF CountSent, Typed, Accounted
  <2>2. OneUpdater' /\ Refusals' /\ (stats.sent <= sent)'
    BY <1>4 DEF CountSent, Typed, OneUpdater, Refusals
  <2>3. \A u \in Everyone : Loaded(u)'
    BY <1>4 DEF CountSent, Typed, Loaded
  <2> QED BY <1>4, <2>1, <2>2, <2>3 DEF CountSent, NegativeLossIsBounded, ReceiverEndsForCause
<1> QED BY <1>1, <1>2, <1>3, <1>4, <1>5

(* The receiver: it counts an echo, and is then waiting for c.mu.          *)
LEMMA ReceiverKeeps ==
  ASSUME EchoInv, Check \/ ReadTimesOut \/ ReadFails \/ Receive
  PROVE  EchoInv'
<1> USE EchoAssumption DEF EchoInv, updates, network, server
<1>0. \A u \in Everyone : upc[u] = "loaded" => u # "receiver" \/ receiver = "update"
  BY DEF Loaded
<1>1. CASE Check
  <2>1. receiver' = "done" => cancelled'
    BY <1>1 DEF Check
  <2>2. receiver = "check" /\ receiver' \in {"done", "read"}
    BY <1>1 DEF Check
  <2>3. \A u \in Everyone : Loaded(u)'
    BY <1>0, <1>1, <2>2 DEF Check, Loaded, Typed
  <2> QED BY <1>1, <2>1, <2>2, <2>3 DEF Check, Typed, OneUpdater, Accounted, Refusals,
             NegativeLossIsBounded, ReceiverEndsForCause
<1>2. CASE ReadTimesOut
  BY <1>0, <1>2 DEF ReadTimesOut, Typed, OneUpdater, Accounted, Refusals, Loaded,
             NegativeLossIsBounded, ReceiverEndsForCause
<1>3. CASE ReadFails
  BY <1>0, <1>3 DEF ReadFails, Typed, OneUpdater, Accounted, Refusals, Loaded,
             NegativeLossIsBounded, ReceiverEndsForCause
<1>4. CASE Receive
  <2>1. protocol = "udp" => Tail(back) \in Seq(Numbers) /\ Len(Tail(back)) = Len(back) - 1
    BY <1>4 DEF Receive, Typed
  <2>2. receiver = "read" /\ received' \in Nat /\ receiver' \in {"update", "check"}
        /\ (receiver' = "update" => received' = received + 1)
        /\ (receiver' = "check" => received' = received)
    BY <1>4 DEF Receive, Typed
  <2>3. Typed'
    BY <1>4, <2>1, <2>2 DEF Receive, Typed
  <2>4. Accounted'
    <3>1. received' <= received + 1 /\ back' = Tail(back)
      BY <1>4, <2>2 DEF Receive, Typed
    <3>2. protocol = "udp" => Len(back) \in Nat /\ Len(out) \in Nat
      BY DEF Typed
    <3>3. /\ UNCHANGED <<protocol, sender, sent, out, duplicates>>
          /\ protocol = "udp" => Len(back') = Len(back) - 1
      BY <1>4, <2>1, <3>1 DEF Receive
    <3>4. sent \in Nat /\ received \in Nat /\ duplicates \in Nat /\ received' \in Nat
      BY <2>2 DEF Typed
    <3> SUFFICES ASSUME protocol = "udp"
                 PROVE  received' + Len(out') + Len(back')
                          <= sent' + (IF sender' = "count" THEN 1 ELSE 0) + duplicates'
      BY <3>3 DEF Accounted
    <3>5. received + Len(out) + Len(back)
            <= sent + (IF sender = "count" THEN 1 ELSE 0) + duplicates
      BY DEF Accounted
    <3>6. Len(out') = Len(out) /\ Len(back') = Len(back) - 1
      BY <3>3
    <3>7. /\ sent' = sent /\ sender' = sender /\ duplicates' = duplicates
          /\ Len(out) \in Int /\ Len(back) \in Int
      BY <3>2, <3>3
    <3>8. received' <= received + 1
      BY <3>1
    <3> QED BY <3>4, <3>5, <3>6, <3>7, <3>8
  <2>5. \A u \in Everyone : Loaded(u)'
    BY <1>0, <1>4, <2>2 DEF Receive, Loaded, Typed
  <2>6. OneUpdater' /\ Refusals' /\ (stats.sent <= sent)'
    BY <1>4 DEF Receive, OneUpdater, Refusals
  <2> QED BY <1>4, <2>2, <2>3, <2>4, <2>5, <2>6 DEF Receive, NegativeLossIsBounded, ReceiverEndsForCause
<1> QED BY <1>1, <1>2, <1>3, <1>4

(* updateStatsFull: the holder of c.mu loads, and stores what it loaded.   *)
LEMMA UpdateKeeps ==
  ASSUME EchoInv, NEW u \in Everyone, LoadSent(u) \/ Store(u)
  PROVE  EchoInv'
<1> USE DEF EchoInv, client, updates, network, server
<1>1. CASE LoadSent(u)
  <2>1. /\ upc' = [upc EXCEPT ![u] = "loaded"] /\ seen' = [seen EXCEPT ![u] = sent]
        /\ \A v \in Everyone : upc[v] = "idle"
        /\ u = "receiver" => receiver = "update"
        /\ UNCHANGED <<protocol, cancelled, sender, receiver, number, sent, received, stats, out, back,
                       echoes, refused, duplicates, refusals>>
    BY <1>1 DEF LoadSent, Wants
  <2>2. Typed'
    BY <2>1 DEF Typed
  <2>3. \A v \in Everyone : upc'[v] = "loaded" => v = u
    BY <2>1 DEF Typed
  <2>4. protocol = "udp" => received <= sent + 1 + duplicates
    BY DEF Typed, Accounted
  <2>5. \A v \in Everyone : Loaded(v)'
    BY <2>1, <2>3, <2>4 DEF Typed, Loaded
  <2>6. OneUpdater'
    BY <2>3 DEF OneUpdater
  <2> QED BY <2>1, <2>2, <2>5, <2>6 DEF Accounted, Refusals, NegativeLossIsBounded, ReceiverEndsForCause
<1>2. CASE Store(u)
  <2>1. /\ upc[u] = "loaded" /\ upc' = [upc EXCEPT ![u] = "idle"]
        /\ stats'.sent = seen[u]
        /\ stats'.lost = IF protocol = "tcp" THEN -1 ELSE seen[u] - received
        /\ receiver' = IF u = "receiver" THEN "check" ELSE receiver
        /\ UNCHANGED <<protocol, cancelled, sender, number, sent, received, seen, out, back,
                       echoes, refused, duplicates, refusals>>
    BY <1>2 DEF Store
  <2>2. stats' \in [sent : Nat, lost : Int]
    BY <1>2 DEF Store, Typed
  <2>3. Typed'
    BY <2>1, <2>2 DEF Typed
  <2>4. \A v \in Everyone : upc'[v] = "idle"
    BY <2>1 DEF Typed, OneUpdater
  <2>5. OneUpdater' /\ \A v \in Everyone : Loaded(v)'
    BY <2>4 DEF OneUpdater, Loaded
  <2>6. Loaded(u) /\ seen[u] \in Nat
    BY DEF Typed
  <2>7. NegativeLossIsBounded'
    BY <2>1, <2>6 DEF Typed, Loaded, NegativeLossIsBounded
  <2>8. (stats.sent <= sent)'
    BY <2>1, <2>6 DEF Loaded
  <2> QED BY <2>1, <2>3, <2>5, <2>7, <2>8 DEF Accounted, Refusals, ReceiverEndsForCause
<1> QED BY <1>1, <1>2

(* The network and the peer: what is under way was written or duplicated.  *)
LEMMA NetworkKeeps ==
  ASSUME EchoInv, Lose \/ Duplicate \/ Refuse \/ ServerRestarts \/ EchoDatagram
  PROVE  EchoInv'
<1> USE DEF EchoInv, client, updates, network, server
<1>0. UNCHANGED <<protocol, cancelled, sender, receiver, number, sent, received, upc, seen, stats>>
  BY DEF Lose, Duplicate, Refuse, ServerRestarts, EchoDatagram
<1>1. duplicates' \in Nat /\ refusals' \in Nat /\ duplicates' >= duplicates /\ refusals' >= refusals
  <2>1. duplicates \in Nat /\ refusals \in Nat
    BY DEF Typed
  <2>2. duplicates' \in {duplicates, duplicates + 1} /\ refusals' \in {refusals, refusals + 1}
    BY DEF Lose, Duplicate, Refuse, ServerRestarts, EchoDatagram
  <2> QED BY <2>1, <2>2
<1>2. ASSUME NEW s \in Seq(Numbers), s # <<>>
      PROVE  /\ Tail(s) \in Seq(Numbers) /\ Len(Tail(s)) = Len(s) - 1 /\ Head(s) \in Numbers
             /\ \A t \in Seq(Numbers) : /\ Append(t, Head(s)) \in Seq(Numbers)
                                        /\ Len(Append(t, Head(s))) = Len(t) + 1
  BY <1>2
<1>3. Typed'
  <2> SUFFICES protocol = "udp" => out' \in Seq(Numbers) /\ back' \in Seq(Numbers) /\ echoes' = <<>>
    BY <1>0, <1>1 DEF Typed
  <2> SUFFICES ASSUME protocol = "udp"
               PROVE  out' \in Seq(Numbers) /\ back' \in Seq(Numbers) /\ echoes' = <<>>
    OBVIOUS
  <2>1. out \in Seq(Numbers) /\ back \in Seq(Numbers) /\ echoes' = <<>>
    BY DEF Typed, Lose, Duplicate, Refuse, ServerRestarts, EchoDatagram
  <2>2. CASE Lose \/ Refuse \/ ServerRestarts
    BY <1>2, <2>1, <2>2 DEF Lose, Refuse, ServerRestarts
  <2>3. CASE Duplicate
    BY <1>2, <2>1, <2>3 DEF Duplicate
  <2>4. CASE EchoDatagram
    BY <1>2, <2>1, <2>4 DEF EchoDatagram
  <2> QED BY <2>1, <2>2, <2>3, <2>4
<1>4. Accounted'
  <2> SUFFICES ASSUME protocol = "udp" PROVE Accounted'
    BY <1>0 DEF Accounted
  <2>1. out \in Seq(Numbers) /\ back \in Seq(Numbers) /\ duplicates \in Nat
        /\ Len(out) \in Nat /\ Len(back) \in Nat
    BY DEF Typed
  <2>2. CASE Lose \/ Refuse \/ ServerRestarts
    <3>1. duplicates' = duplicates
      BY <2>2 DEF Lose, Refuse, ServerRestarts
    <3>2. out' \in {out, Tail(out)} /\ (out' # out => out # <<>>)
          /\ back' \in {back, Tail(back)} /\ (back' # back => back # <<>>)
      BY <2>2 DEF Lose, Refuse, ServerRestarts
    <3>3. Len(out') \in Int /\ Len(out') <= Len(out) /\ Len(back') \in Int /\ Len(back') <= Len(back)
      BY <1>2, <2>1, <3>2
    <3> QED BY <1>0, <2>1, <3>1, <3>3 DEF Accounted, Typed
  <2>3. CASE Duplicate
    BY <1>0, <1>2, <2>1, <2>3 DEF Duplicate, Accounted, Typed
  <2>4. CASE EchoDatagram
    BY <1>0, <1>2, <2>1, <2>4 DEF EchoDatagram, Accounted, Typed
  <2> QED BY <2>2, <2>3, <2>4
<1>5. Refusals'
  <2>1. CASE Refuse
    BY <2>1 DEF Refuse, Refusals, Typed
  <2>2. CASE Lose \/ Duplicate \/ ServerRestarts \/ EchoDatagram
    <3>1. refused' = refused
      BY <2>2 DEF Lose, Duplicate, ServerRestarts, EchoDatagram
    <3> QED BY <1>1, <3>1 DEF Refusals, Typed
  <2> QED BY <2>1, <2>2
<1>6. OneUpdater' /\ \A u \in Everyone : Loaded(u)'
  BY <1>0, <1>1 DEF OneUpdater, Loaded, Typed
<1>7. NegativeLossIsBounded' /\ ReceiverEndsForCause' /\ (stats.sent <= sent)'
  BY <1>0, <1>1 DEF NegativeLossIsBounded, ReceiverEndsForCause, Typed
<1> QED BY <1>3, <1>4, <1>5, <1>6, <1>7

(* The stream's handler touches nothing that the invariant is about.       *)
LEMMA StreamKeeps ==
  ASSUME EchoInv, NEW n \in Numbers, ReadStream(n) \/ EchoStream(n)
  PROVE  EchoInv'
<1>1. protocol = "tcp"
  <2>1. CASE ReadStream(n)
    BY <2>1 DEF ReadStream
  <2>2. CASE EchoStream(n)
    <3>1. echoes # <<>>
      BY <2>2 DEF EchoStream
    <3> QED BY <3>1 DEF EchoInv, Typed
  <2> QED BY <2>1, <2>2
<1>2. UNCHANGED <<protocol, cancelled, sender, receiver, number, sent, received,
                  upc, seen, stats, refused, duplicates, refusals>>
  BY DEF ReadStream, EchoStream, client, updates
<1> QED BY <1>1, <1>2 DEF EchoInv, Typed, OneUpdater, Accounted, Refusals, Loaded,
                         NegativeLossIsBounded, ReceiverEndsForCause

(* A step that changes nothing.                                            *)
LEMMA NothingKeeps == ASSUME EchoInv, UNCHANGED vars PROVE EchoInv'
BY DEF vars, client, updates, network, server, EchoInv, Typed, OneUpdater, Accounted, Refusals,
       Loaded, NegativeLossIsBounded, ReceiverEndsForCause

(* The invariant of every reachable state.                                 *)
THEOREM EchoInvariant == Spec => []EchoInv
<1>1. Init => EchoInv
  BY InitEcho
<1>2. EchoInv /\ [Next]_vars => EchoInv'
  <2> SUFFICES ASSUME EchoInv, [Next]_vars PROVE EchoInv'
    OBVIOUS
  <2>1. CASE Dial \/ DialGivesUp \/ Return \/ Cancel \/ Send \/ SendFails \/ CountSent \/ SenderStops
    BY <2>1, SenderKeeps
  <2>2. CASE Check \/ ReadTimesOut \/ ReadFails \/ Receive
    BY <2>2, ReceiverKeeps
  <2>3. CASE \E u \in Everyone : LoadSent(u) \/ Store(u)
    BY <2>3, UpdateKeeps
  <2>4. CASE Lose \/ Duplicate \/ Refuse \/ ServerRestarts \/ EchoDatagram
    BY <2>4, NetworkKeeps
  <2>5. CASE \E n \in Numbers : ReadStream(n) \/ EchoStream(n)
    BY <2>5, StreamKeeps
  <2>6. CASE UNCHANGED vars
    BY <2>6, NothingKeeps
  <2>7. Updaters \subseteq Everyone /\ "receiver" \in Everyone
    BY DEF Everyone
  <2> QED BY <2>1, <2>2, <2>3, <2>4, <2>5, <2>6, <2>7 DEF Next, Receiver
<1> QED BY <1>1, <1>2, PTL DEF Spec

(* The losses of updateStatsFull: an echo may be counted before its        *)
(* packet, and one more may be between the two loads, and that is all.     *)
THEOREM LossesAreBounded == Spec => []NegativeLossIsBounded
<1>1. EchoInv => NegativeLossIsBounded
  BY DEF EchoInv
<1> QED BY <1>1, EchoInvariant, PTL

(* udpReceiverPacket: only a refusal ends it before the context does.      *)
THEOREM ReceiverStays == Spec => []ReceiverEndsForCause
<1>1. EchoInv => ReceiverEndsForCause
  BY DEF EchoInv
<1> QED BY <1>1, EchoInvariant, PTL

(* updateStatsFull under c.mu: the reported count of packets never goes    *)
(* back, whichever goroutines update it.                                   *)
THEOREM ReportsAdvance == Spec => StatsAdvance
<1>1. EchoInv /\ [Next]_vars => [stats'.sent >= stats.sent]_vars
  <2> SUFFICES ASSUME EchoInv, Next PROVE stats'.sent >= stats.sent
    OBVIOUS
  <2>1. stats.sent \in Nat
    BY DEF EchoInv, Typed
  <2>2. ASSUME NEW u \in Everyone, Store(u)
        PROVE  stats'.sent >= stats.sent
    <3>1. stats.sent <= seen[u] /\ stats'.sent = seen[u] /\ seen[u] \in Nat
      BY <2>2 DEF Store, EchoInv, Loaded, Typed
    <3> QED BY <2>1, <3>1
  <2>3. ASSUME stats' = stats
        PROVE  stats'.sent >= stats.sent
    BY <2>1, <2>3
  <2>4. CASE Dial \/ DialGivesUp \/ Return \/ Cancel \/ Send \/ SendFails \/ CountSent \/ SenderStops
    BY <2>3, <2>4 DEF Dial, DialGivesUp, Return, Cancel, Send, SendFails, CountSent, SenderStops, updates
  <2>5. CASE Check \/ ReadTimesOut \/ ReadFails \/ Receive
    BY <2>3, <2>5 DEF Check, ReadTimesOut, ReadFails, Receive, updates
  <2>6. CASE \E u \in Everyone : LoadSent(u) \/ Store(u)
    BY <2>2, <2>3, <2>6 DEF LoadSent
  <2>7. CASE Lose \/ Duplicate \/ Refuse \/ ServerRestarts \/ EchoDatagram
    BY <2>3, <2>7 DEF Lose, Duplicate, Refuse, ServerRestarts, EchoDatagram, updates
  <2>8. CASE \E n \in Numbers : ReadStream(n) \/ EchoStream(n)
    BY <2>3, <2>8 DEF ReadStream, EchoStream, updates
  <2>9. Updaters \subseteq Everyone /\ "receiver" \in Everyone
    BY DEF Everyone
  <2> QED BY <2>4, <2>5, <2>6, <2>7, <2>8, <2>9 DEF Next, Receiver
<1> QED BY <1>1, EchoInvariant, PTL DEF Spec, StatsAdvance
-----------------------------------------------------------------------------
(***************************************************************************)
(* The stream. Its sequences are rebuilt by every read and every echo: how *)
(* long they are, and what they hold, first; then their types and order.   *)
(***************************************************************************)
Places == Seq(SUBSET Numbers)    \* what the places of an echo may hold

(* A function on 1..n is a sequence of n. *)
LEMMA FunctionIsSeq ==
  ASSUME NEW S, NEW n \in Nat, NEW f \in [1..n -> S]
  PROVE  f \in Seq(S) /\ Len(f) = n
OBVIOUS

(* The handler's read takes the first n packets out of the stream, and     *)
(* leaves one more echo to be written, when it is not too long.            *)
LEMMA StreamRead ==
  ASSUME TypeOK, NEW n \in Numbers, ReadStream(n)
  PROVE  /\ n \in Nat /\ n <= Len(out)
         /\ out' \in Seq(Numbers) /\ Len(out') = Len(out) - n
         /\ \A i \in 1..(Len(out) - n) : out'[i] = out[n + i]
         /\ buffer' \in Seq(Numbers)
         /\ echoes' \in Seq(Places)
         /\ echoes = <<>> => \/ Len(echoes') = 0
                             \/ /\ Len(echoes') = 1 /\ Len(echoes'[1]) = n
                                /\ \A i \in 1..n : echoes'[1][i] = {out[i]}
<1> DEFINE new == [i \in 1..n |-> out[i]]
           overwritten(e) == [i \in DOMAIN e |-> IF i <= n THEN e[i] \cup {new[i]} ELSE e[i]]
           pending == [k \in DOMAIN echoes |-> overwritten(echoes[k])]
           echo == [i \in 1..n |-> {new[i]}]
           m == IF n > Len(buffer) THEN n ELSE Len(buffer)
<1>1. /\ n \in Nat /\ n <= Len(out)
      /\ out \in Seq(Numbers) /\ buffer \in Seq(Numbers) /\ echoes \in Seq(Places)
  BY DEF ReadStream, TypeOK, Places, Numbers
<1>2. /\ out' = [i \in 1..(Len(out) - n) |-> out[n + i]]
      /\ buffer' = [i \in 1..m |-> IF i <= n THEN new[i] ELSE buffer[i]]
      /\ echoes' = IF n <= EchoLimit THEN Append(pending, echo) ELSE pending
  BY DEF ReadStream
<1>3. \A i \in 1..n : new[i] = out[i] /\ out[i] \in Numbers
  BY <1>1
<1>4. /\ out' \in Seq(Numbers) /\ Len(out') = Len(out) - n
      /\ \A i \in 1..(Len(out) - n) : out'[i] = out[n + i]
  <2>1. Len(out) - n \in Nat
    BY <1>1
  <2>2. \A i \in 1..(Len(out) - n) : out[n + i] \in Numbers
    BY <1>1
  <2>3. out' \in [1..(Len(out) - n) -> Numbers]
    BY <1>2, <2>2
  <2> QED BY <1>2, <2>1, <2>3, FunctionIsSeq
<1>5. buffer' \in Seq(Numbers)
  <2>1. m \in Nat /\ \A i \in 1..m : i > n => i \in 1..Len(buffer)
    BY <1>1
  <2>2. \A i \in 1..m : (IF i <= n THEN new[i] ELSE buffer[i]) \in Numbers
    BY <1>1, <1>3, <2>1
  <2> HIDE DEF m, new
  <2>3. buffer' \in [1..m -> Numbers]
    BY <1>2, <2>2
  <2> QED BY <2>1, <2>3, FunctionIsSeq
<1>6. pending \in Seq(Places) /\ Len(pending) = Len(echoes)
  <2>1. ASSUME NEW k \in 1..Len(echoes) PROVE overwritten(echoes[k]) \in Places
    <3>1. echoes[k] \in Places
      BY <1>1
    <3> DEFINE e == echoes[k]
    <3>2. e \in Seq(SUBSET Numbers) /\ Len(e) \in Nat /\ DOMAIN e = 1..Len(e)
      BY <3>1 DEF Places
    <3> HIDE DEF e
    <3>3. \A i \in 1..Len(e) : (IF i <= n THEN e[i] \cup {new[i]} ELSE e[i]) \in SUBSET Numbers
      BY <1>3, <3>2
    <3> HIDE DEF new
    <3>4. overwritten(e) \in [1..Len(e) -> SUBSET Numbers]
      BY <3>2, <3>3
    <3> QED BY <3>2, <3>4, FunctionIsSeq DEF e, Places
  <2> HIDE DEF overwritten
  <2>2. pending \in [1..Len(echoes) -> Places] /\ Len(echoes) \in Nat
    BY <1>1, <2>1
  <2> QED BY <2>2, FunctionIsSeq
<1>7. /\ echo \in Places /\ Len(echo) = n
      /\ \A i \in 1..n : echo[i] = {out[i]}
  <2>1. \A i \in 1..n : {new[i]} \in SUBSET Numbers
    BY <1>3
  <2>2. echo \in [1..n -> SUBSET Numbers]
    BY <2>1
  <2> QED BY <1>1, <1>3, <2>2, FunctionIsSeq DEF Places
<1> HIDE DEF pending, echo
<1>8. echoes' \in Seq(Places)
  BY <1>2, <1>6, <1>7
<1>9. ASSUME echoes = <<>>
      PROVE  \/ Len(echoes') = 0
             \/ /\ Len(echoes') = 1 /\ Len(echoes'[1]) = n
                /\ \A i \in 1..n : echoes'[1][i] = {out[i]}
  <2>1. Len(pending) = 0
    BY <1>6, <1>9
  <2>2. CASE n <= EchoLimit
    <3>1. echoes' = Append(pending, echo)
      BY <1>2, <2>2
    <3>2. Len(echoes') = 1 /\ echoes'[1] = echo
      BY <1>6, <1>7, <2>1, <3>1
    <3> QED BY <1>7, <3>2
  <2>3. CASE ~(n <= EchoLimit)
    BY <1>2, <2>1, <2>3
  <2> QED BY <2>2, <2>3
<1> QED BY <1>1, <1>4, <1>5, <1>8, <1>9

(* An echo that is written adds, for each of its places, something that    *)
(* the place may hold, and is not written again.                           *)
LEMMA StreamEcho ==
  ASSUME TypeOK, NEW k \in Numbers, EchoStream(k)
  PROVE  /\ k \in 1..Len(echoes)
         /\ echoes' \in Seq(Places) /\ Len(echoes') = Len(echoes) - 1
         /\ back' \in Seq(Numbers)
         /\ \E s \in Seq(Numbers) :
              /\ Len(s) = Len(echoes[k]) /\ Len(back') = Len(back) + Len(s)
              /\ \A i \in 1..Len(s) : s[i] \in echoes[k][i]
              /\ \A i \in 1..(Len(back) + Len(s)) :
                   back'[i] = IF i <= Len(back) THEN back[i] ELSE s[i - Len(back)]
<1>1. echoes \in Seq(Places) /\ back \in Seq(Numbers) /\ Len(echoes) \in Nat
  BY DEF TypeOK, Places
<1>2. k \in 1..Len(echoes)
  BY <1>1 DEF EchoStream
<1>3. echoes[k] \in Seq(SUBSET Numbers) /\ DOMAIN echoes[k] = 1..Len(echoes[k])
      /\ Len(echoes[k]) \in Nat
  BY <1>1, <1>2 DEF Places
<1>4. PICK s \in Echoed(echoes[k]) : back' = back \o s
  BY DEF EchoStream
<1>5. /\ s \in [1..Len(echoes[k]) -> Numbers]
      /\ \A i \in 1..Len(echoes[k]) : s[i] \in echoes[k][i]
  BY <1>3, <1>4 DEF Echoed
<1>6. s \in Seq(Numbers) /\ Len(s) = Len(echoes[k])
  BY <1>3, <1>5, FunctionIsSeq
<1>7. /\ back' \in Seq(Numbers) /\ Len(back') = Len(back) + Len(s)
      /\ \A i \in 1..(Len(back) + Len(s)) :
           back'[i] = IF i <= Len(back) THEN back[i] ELSE s[i - Len(back)]
  <2>1. back \in Seq(Numbers) /\ back' = back \o s
    BY <1>1, <1>4
  <2>2. back \o s \in Seq(Numbers) /\ Len(back \o s) = Len(back) + Len(s)
    BY <1>6, <2>1, ConcatProperties
  <2>3. \A i \in 1..(Len(back) + Len(s)) :
          (back \o s)[i] = IF i <= Len(back) THEN back[i] ELSE s[i - Len(back)]
    BY <1>6, <2>1, ConcatProperties
  <2> QED BY <2>1, <2>2, <2>3
<1>8. echoes' \in Seq(Places) /\ Len(echoes') = Len(echoes) - 1
  <2>1. echoes' = [i \in 1..(Len(echoes) - 1) |-> IF i < k THEN echoes[i] ELSE echoes[i + 1]]
    BY DEF EchoStream
  <2>2. Len(echoes) - 1 \in Nat
    BY <1>1, <1>2
  <2>3. \A i \in 1..(Len(echoes) - 1) : i \in 1..Len(echoes) /\ i + 1 \in 1..Len(echoes)
    BY <1>1
  <2>4. \A i \in 1..(Len(echoes) - 1) : (IF i < k THEN echoes[i] ELSE echoes[i + 1]) \in Places
    BY <1>1, <2>3
  <2>5. echoes' \in [1..(Len(echoes) - 1) -> Places]
    BY <2>1, <2>4
  <2> QED BY <2>2, <2>5, FunctionIsSeq
<1> QED BY <1>2, <1>5, <1>6, <1>7, <1>8

(* Every variable has its type. *)
LEMMA TypeKept == TypeOK /\ [Next]_vars => TypeOK'
<1> SUFFICES ASSUME TypeOK, [Next]_vars PROVE TypeOK'
  OBVIOUS
<1> USE EchoAssumption DEF client, updates, network, server
<1>1. CASE \/ Dial \/ DialGivesUp \/ Return \/ Cancel \/ SendFails \/ CountSent \/ SenderStops
           \/ Check \/ ReadTimesOut \/ ReadFails
  <2>1. CASE Dial \/ DialGivesUp \/ Return \/ Cancel
    <3>1. conn' \in {"dialing", "open", "returned"} /\ cancelled' \in BOOLEAN
      BY <2>1 DEF TypeOK, Dial, DialGivesUp, Return, Cancel
    <3>2. UNCHANGED <<protocol, sender, receiver, number, sent, received, upc, seen, stats, out, back,
                      refused, duplicates, refusals, serverUp, buffer, echoes, restarts, overlapped>>
      BY <2>1 DEF Dial, DialGivesUp, Return, Cancel
    <3> QED BY <3>1, <3>2 DEF TypeOK
  <2>2. CASE SendFails
    <3>1. number' \in Nat
      BY <2>2 DEF TypeOK, SendFails
    <3>2. refused' \in BOOLEAN
      BY <2>2 DEF SendFails
    <3>3. UNCHANGED <<protocol, cancelled, conn, sender, receiver, sent, received, upc, seen, stats,
                      out, back, duplicates, refusals, serverUp, buffer, echoes, restarts, overlapped>>
      BY <2>2 DEF SendFails
    <3> QED BY <3>1, <3>2, <3>3 DEF TypeOK
  <2>3. CASE CountSent
    BY <2>3 DEF TypeOK, CountSent
  <2>4. CASE SenderStops
    BY <2>4 DEF TypeOK, SenderStops
  <2>5. CASE Check \/ ReadTimesOut \/ ReadFails
    <3>1. receiver' \in {"check", "read", "update", "done"} /\ refused' \in BOOLEAN
      BY <2>5 DEF TypeOK, Check, ReadTimesOut, ReadFails
    <3>2. UNCHANGED <<protocol, cancelled, conn, sender, number, sent, received, upc, seen, stats,
                      out, back, duplicates, refusals, serverUp, buffer, echoes, restarts, overlapped>>
      BY <2>5 DEF Check, ReadTimesOut, ReadFails
    <3> QED BY <3>1, <3>2 DEF TypeOK
  <2> QED BY <1>1, <2>1, <2>2, <2>3, <2>4, <2>5
<1>2. CASE Send
  <2>1. number + 1 \in Numbers /\ number + 1 \in Nat
    BY <1>2 DEF Send, TypeOK, Numbers
  <2>2. out' \in Seq(Numbers)
    BY <1>2, <2>1 DEF Send, TypeOK
  <2> QED BY <1>2, <2>1, <2>2 DEF Send, TypeOK
<1>3. CASE Receive
  <2>1. Tail(back) \in Seq(Numbers)
    BY <1>3 DEF Receive, TypeOK
  <2> QED BY <1>3, <2>1 DEF Receive, TypeOK
<1>4. ASSUME NEW u \in Everyone, LoadSent(u) \/ Store(u) PROVE TypeOK'
  <2>1. CASE LoadSent(u)
    BY <2>1 DEF LoadSent, TypeOK
  <2>2. CASE Store(u)
    <3>1. /\ upc' = [upc EXCEPT ![u] = "idle"]
          /\ receiver' \in {receiver, "check"}
          /\ stats' = [sent |-> seen[u], lost |-> IF protocol = "tcp" THEN -1 ELSE seen[u] - received]
          /\ UNCHANGED <<protocol, cancelled, conn, sender, number, sent, received, seen,
                         network, server>>
      BY <2>2 DEF Store
    <3>2. seen[u] \in Nat /\ (IF protocol = "tcp" THEN -1 ELSE seen[u] - received) \in Int
      BY DEF TypeOK
    <3>3. stats' \in [sent : Nat, lost : Int]
      BY <3>1, <3>2
    <3> QED BY <3>1, <3>3 DEF TypeOK
  <2> QED BY <1>4, <2>1, <2>2
<1>5. CASE Lose \/ Duplicate \/ Refuse \/ ServerRestarts \/ EchoDatagram
  <2>1. ASSUME NEW s \in Seq(Numbers), s # <<>>
        PROVE  /\ Tail(s) \in Seq(Numbers) /\ Head(s) \in Numbers
               /\ \A t \in Seq(Numbers) : Append(t, Head(s)) \in Seq(Numbers)
    BY <2>1
  <2>2. out' \in Seq(Numbers) /\ back' \in Seq(Numbers)
    BY <1>5, <2>1 DEF Lose, Duplicate, Refuse, ServerRestarts, EchoDatagram, TypeOK
  <2>3. /\ refused' \in BOOLEAN /\ serverUp' \in BOOLEAN
        /\ duplicates' \in Nat /\ refusals' \in Nat /\ restarts' \in Nat
    <3>1. CASE Lose \/ EchoDatagram
      BY <3>1 DEF Lose, EchoDatagram, TypeOK
    <3>2. CASE Duplicate
      BY <3>2 DEF Duplicate, TypeOK
    <3>3. CASE Refuse
      BY <3>3 DEF Refuse, TypeOK
    <3>4. CASE ServerRestarts
      BY <3>4 DEF ServerRestarts, TypeOK
    <3> QED BY <1>5, <3>1, <3>2, <3>3, <3>4
  <2>4. UNCHANGED <<protocol, client, sent, received, updates, buffer, echoes, overlapped>>
    BY <1>5 DEF Lose, Duplicate, Refuse, ServerRestarts, EchoDatagram
  <2> QED BY <2>2, <2>3, <2>4 DEF TypeOK
<1>6. ASSUME NEW n \in Numbers, ReadStream(n) PROVE TypeOK'
  <2>1. out' \in Seq(Numbers) /\ buffer' \in Seq(Numbers) /\ echoes' \in Seq(Seq(SUBSET Numbers))
    BY <1>6, StreamRead DEF Places
  <2>2. /\ overlapped' \in BOOLEAN
        /\ UNCHANGED <<protocol, client, sent, received, updates, back, refused, duplicates,
                       refusals, serverUp, restarts>>
    BY <1>6 DEF ReadStream, TypeOK
  <2> QED BY <2>1, <2>2 DEF TypeOK
<1>7. ASSUME NEW n \in Numbers, EchoStream(n) PROVE TypeOK'
  <2>1. back' \in Seq(Numbers) /\ echoes' \in Seq(Seq(SUBSET Numbers))
    BY <1>7, StreamEcho DEF Places
  <2>2. UNCHANGED <<protocol, client, sent, received, updates, out, refused, duplicates,
                    refusals, serverUp, buffer, restarts, overlapped>>
    BY <1>7 DEF EchoStream
  <2> QED BY <2>1, <2>2 DEF TypeOK
<1>8. CASE UNCHANGED vars
  BY <1>8 DEF vars, TypeOK
<1>9. Updaters \subseteq Everyone /\ "receiver" \in Everyone
  BY DEF Everyone
<1> QED BY <1>1, <1>2, <1>3, <1>4, <1>5, <1>6, <1>7, <1>8, <1>9 DEF Next, Receiver

(* The types of every reachable state: what is under way, in the buffer    *)
(* and in the echoes are packets that were numbered.                       *)
THEOREM TypeCorrect == Spec => []TypeOK
<1>1. Init => TypeOK
  <2> SUFFICES ASSUME Init PROVE TypeOK
    OBVIOUS
  <2>1. out = <<>> /\ back = <<>> /\ buffer = <<>> /\ echoes = <<>>
    BY DEF Init
  <2>2. out \in Seq(Numbers) /\ back \in Seq(Numbers) /\ buffer \in Seq(Numbers)
        /\ echoes \in Seq(Seq(SUBSET Numbers))
    BY <2>1
  <2>3. upc \in [Everyone -> {"idle", "loaded"}] /\ seen \in [Everyone -> Nat]
        /\ stats \in [sent : Nat, lost : Int]
    BY DEF Init
  <2>4. /\ protocol \in {"udp", "tcp"} /\ conn \in {"dialing", "open"}
        /\ cancelled = FALSE /\ sender = "tick" /\ receiver = "check" /\ number = 0
        /\ sent = 0 /\ received = 0 /\ refused = FALSE /\ serverUp = TRUE
        /\ duplicates = 0 /\ refusals = 0 /\ restarts = 0 /\ overlapped = FALSE
    BY DEF Init
  <2> QED BY <2>2, <2>3, <2>4 DEF TypeOK
<1> QED BY <1>1, TypeKept, PTL DEF Spec

(***************************************************************************)
(* The order of the echoes. Until an echo is overtaken by a read, at most  *)
(* one echo waits to be written. What came back, what that echo may hold   *)
(* and what is still in the stream follow each other: each is increasing,  *)
(* and below the next.                                                     *)
(***************************************************************************)
Increasing(s) == \A i, j \in 1..Len(s) : i < j => s[i] < s[j]

(* All of s comes before all of t. *)
Below(s, t) == \A i \in 1..Len(s), j \in 1..Len(t) : s[i] < t[j]

(* What an echo may hold lies between what came back and what is to be     *)
(* read, place after place.                                                *)
EchoBetween(e) ==
  /\ \A i \in 1..Len(e) : \A x \in e[i] :
       /\ x <= number
       /\ \A j \in 1..Len(out) : x < out[j]
       /\ \A j \in 1..Len(back) : back[j] < x
  /\ \A i, j \in 1..Len(e) : i < j => \A x \in e[i], y \in e[j] : x < y

(* The stream follows itself, around one echo at most. *)
InOrder ==
  /\ Len(echoes) <= 1
  /\ Increasing(out) /\ Increasing(back) /\ Below(back, out)
  /\ \A i \in 1..Len(out) : out[i] <= number
  /\ \A i \in 1..Len(back) : back[i] <= number
  /\ \A k \in 1..Len(echoes) : EchoBetween(echoes[k])

(* The inductive invariant for a stream. *)
OrderInv == protocol = "tcp" /\ ~overlapped => InOrder

(* The packets in a sequence are numbers. *)
LEMMA PacketsAreNumbers ==
  ASSUME TypeOK
  PROVE  /\ number \in Nat /\ Numbers \subseteq Nat
         /\ out \in Seq(Numbers) /\ Len(out) \in Nat /\ \A i \in 1..Len(out) : out[i] \in Nat
         /\ back \in Seq(Numbers) /\ Len(back) \in Nat /\ \A i \in 1..Len(back) : back[i] \in Nat
         /\ echoes \in Seq(Places) /\ Len(echoes) \in Nat
         /\ \A k \in 1..Len(echoes) :
              /\ Len(echoes[k]) \in Nat
              /\ \A i \in 1..Len(echoes[k]) : echoes[k][i] \subseteq Nat
<1>1. Numbers \subseteq Nat
  BY DEF Numbers
<1>2. out \in Seq(Numbers) /\ back \in Seq(Numbers) /\ echoes \in Seq(Places) /\ number \in Nat
  BY DEF TypeOK, Places
<1>3. ASSUME NEW k \in 1..Len(echoes)
      PROVE  /\ Len(echoes[k]) \in Nat
             /\ \A i \in 1..Len(echoes[k]) : echoes[k][i] \subseteq Nat
  <2>1. echoes[k] \in Seq(SUBSET Numbers)
    BY <1>2 DEF Places
  <2>2. Len(echoes[k]) \in Nat /\ \A i \in 1..Len(echoes[k]) : echoes[k][i] \in SUBSET Numbers
    BY <2>1
  <2> QED BY <1>1, <2>2
<1>4. \A i \in 1..Len(out) : out[i] \in Numbers
  BY <1>2
<1>5. \A i \in 1..Len(back) : back[i] \in Numbers
  BY <1>2
<1>6. Len(out) \in Nat /\ Len(back) \in Nat /\ Len(echoes) \in Nat
  BY <1>2
<1> QED BY <1>1, <1>2, <1>3, <1>4, <1>5, <1>6

(* A packet is sent with the highest number. *)
LEMMA SendInOrder ==
  ASSUME TypeOK, OrderInv, Send
  PROVE  OrderInv'
<1> SUFFICES ASSUME protocol = "tcp", ~overlapped PROVE InOrder'
  BY DEF OrderInv, Send, server
<1>1. InOrder
  BY DEF OrderInv
<1>2. /\ number' = number + 1 /\ out' = Append(out, number + 1)
      /\ UNCHANGED <<back, echoes>>
  BY DEF Send, server
<1>3. /\ Len(out') = Len(out) + 1 /\ out'[Len(out) + 1] = number + 1
      /\ \A i \in 1..Len(out) : out'[i] = out[i]
  BY <1>2, PacketsAreNumbers
<1>4. \A i \in 1..Len(out') : i \in 1..Len(out) \/ (i = Len(out) + 1 /\ out'[i] = number + 1)
  BY <1>3, PacketsAreNumbers
<1>5. Increasing(out)'
  <2> SUFFICES ASSUME NEW i \in 1..Len(out'), NEW j \in 1..Len(out'), i < j
               PROVE  out'[i] < out'[j]
    BY DEF Increasing
  <2>1. i \in 1..Len(out) /\ out'[i] = out[i] /\ out[i] \in Nat /\ out[i] <= number
    BY <1>1, <1>3, PacketsAreNumbers DEF InOrder
  <2>2. CASE j \in 1..Len(out)
    BY <1>1, <1>3, <2>1, <2>2 DEF InOrder, Increasing
  <2>3. CASE out'[j] = number + 1
    BY <2>1, <2>3, PacketsAreNumbers
  <2> QED BY <1>4, <2>2, <2>3
<1>6. Below(back, out)'
  <2> SUFFICES ASSUME NEW i \in 1..Len(back), NEW j \in 1..Len(out') PROVE back[i] < out'[j]
    BY <1>2 DEF Below
  <2>1. back[i] \in Nat /\ back[i] <= number /\ number \in Nat
    BY <1>1, PacketsAreNumbers DEF InOrder
  <2>2. CASE j \in 1..Len(out)
    BY <1>1, <1>3, <2>2 DEF InOrder, Below
  <2>3. CASE out'[j] = number + 1
    BY <2>1, <2>3
  <2> QED BY <1>4, <2>2, <2>3
<1>7. /\ \A i \in 1..Len(out') : out'[i] <= number'
      /\ \A i \in 1..Len(back') : back'[i] <= number'
  <2>1. /\ number \in Nat /\ \A i \in 1..Len(out) : out[i] \in Nat /\ out[i] <= number
        /\ \A i \in 1..Len(back) : back[i] \in Nat /\ back[i] <= number
    BY <1>1, PacketsAreNumbers DEF InOrder
  <2>2. \A i \in 1..Len(back') : back'[i] <= number'
    BY <1>2, <2>1
  <2>3. \A i \in 1..Len(out') : out'[i] <= number'
    BY <1>2, <1>3, <1>4, <2>1
  <2> QED BY <2>2, <2>3
<1>8. ASSUME NEW k \in 1..Len(echoes) PROVE EchoBetween(echoes[k])'
  <2>1. EchoBetween(echoes[k]) /\ echoes'[k] = echoes[k]
    BY <1>1, <1>2 DEF InOrder
  <2>2. ASSUME NEW i \in 1..Len(echoes[k]), NEW x \in echoes[k][i]
        PROVE  /\ x <= number'
               /\ \A j \in 1..Len(out') : x < out'[j]
               /\ \A j \in 1..Len(back') : back'[j] < x
    <3>1. x \in Nat /\ x <= number
      BY <2>1, PacketsAreNumbers DEF EchoBetween
    <3>2. x <= number' /\ x < number + 1
      BY <1>2, <3>1, PacketsAreNumbers
    <3>3. /\ \A j \in 1..Len(out) : x < out[j]
          /\ \A j \in 1..Len(back) : back[j] < x
      BY <2>1 DEF EchoBetween
    <3>4. \A j \in 1..Len(out') : x < out'[j]
      BY <1>3, <1>4, <3>2, <3>3
    <3> QED BY <1>2, <3>2, <3>3, <3>4
  <2> QED BY <2>1, <2>2 DEF EchoBetween
<1> QED BY <1>1, <1>2, <1>5, <1>6, <1>7, <1>8 DEF InOrder, Increasing

(* An echo is taken from the front of what came back. *)
LEMMA ReceiveInOrder ==
  ASSUME TypeOK, OrderInv, Receive
  PROVE  OrderInv'
<1> SUFFICES ASSUME protocol = "tcp", ~overlapped PROVE InOrder'
  BY DEF OrderInv, Receive, server
<1>1. InOrder
  BY DEF OrderInv
<1>2. UNCHANGED <<number, out, echoes>> /\ back # <<>> /\ back' = Tail(back)
  BY DEF Receive, server
<1>3. /\ Len(back') = Len(back) - 1
      /\ \A i \in 1..Len(back') : back'[i] = back[i + 1]
  BY <1>2, PacketsAreNumbers, HeadTailProperties
<1>4. \A i \in 1..Len(back') : i + 1 \in 1..Len(back)
  BY <1>3, PacketsAreNumbers
<1>5. Increasing(back)'
  <2> SUFFICES ASSUME NEW i \in 1..Len(back'), NEW j \in 1..Len(back'), i < j
               PROVE  back'[i] < back'[j]
    BY DEF Increasing
  <2>1. i + 1 \in 1..Len(back) /\ j + 1 \in 1..Len(back) /\ i + 1 < j + 1
    BY <1>4
  <2>2. back[i + 1] < back[j + 1]
    BY <1>1, <2>1 DEF InOrder, Increasing
  <2> QED BY <1>3, <2>2
<1>6. Below(back, out)'
  BY <1>1, <1>2, <1>3, <1>4 DEF InOrder, Below
<1>7. \A i \in 1..Len(back') : back'[i] <= number'
  BY <1>1, <1>2, <1>3, <1>4 DEF InOrder
<1>8. ASSUME NEW k \in 1..Len(echoes) PROVE EchoBetween(echoes[k])'
  <2>1. EchoBetween(echoes[k])
    BY <1>1 DEF InOrder
  <2> QED BY <1>2, <1>3, <1>4, <2>1 DEF EchoBetween
<1> QED BY <1>1, <1>2, <1>5, <1>6, <1>7, <1>8 DEF InOrder, Increasing

(* The handler reads, with nothing to be written: its echo is what it read. *)
LEMMA ReadInOrder ==
  ASSUME TypeOK, OrderInv, NEW n \in Numbers, ReadStream(n)
  PROVE  OrderInv'
<1> SUFFICES ASSUME protocol = "tcp", ~overlapped, echoes = <<>> PROVE InOrder'
  BY DEF OrderInv, ReadStream
<1>1. InOrder
  BY DEF OrderInv
<1>2. UNCHANGED <<number, back>>
  BY DEF ReadStream, client
<1>3. /\ n \in Nat /\ n <= Len(out) /\ Len(out') = Len(out) - n
      /\ \A i \in 1..(Len(out) - n) : out'[i] = out[n + i]
  BY StreamRead
<1>4. \A i \in 1..Len(out') : n + i \in 1..Len(out) /\ out'[i] = out[n + i]
  BY <1>3, PacketsAreNumbers
<1>5. Below(back, out)' /\ \A i \in 1..Len(out') : out'[i] <= number'
  BY <1>1, <1>2, <1>4 DEF InOrder, Below
<1>6. Increasing(out)'
  <2> SUFFICES ASSUME NEW i \in 1..Len(out'), NEW j \in 1..Len(out'), i < j
               PROVE  out'[i] < out'[j]
    BY DEF Increasing
  <2>1. n + i \in 1..Len(out) /\ n + j \in 1..Len(out) /\ n + i < n + j
    BY <1>3, <1>4
  <2>2. out[n + i] < out[n + j]
    BY <1>1, <2>1 DEF InOrder, Increasing
  <2> QED BY <1>4, <2>2
<1>7. Increasing(back)' /\ \A i \in 1..Len(back') : back'[i] <= number'
  BY <1>1, <1>2 DEF InOrder, Increasing
<1>8. CASE Len(echoes') = 0
  BY <1>5, <1>7, <1>8, <1>6 DEF InOrder
<1>9. CASE /\ Len(echoes') = 1 /\ Len(echoes'[1]) = n
           /\ \A i \in 1..n : echoes'[1][i] = {out[i]}
  <2>1. \A i \in 1..n : i \in 1..Len(out)
    BY <1>3, PacketsAreNumbers
  <2>2. ASSUME NEW i \in 1..n, NEW j \in 1..Len(out') PROVE out[i] < out'[j]
    <3>1. i \in 1..Len(out) /\ n + j \in 1..Len(out) /\ i < n + j
      BY <1>3, <1>4, <2>1
    <3>2. out[i] < out[n + j]
      BY <1>1, <3>1 DEF InOrder, Increasing
    <3> QED BY <1>4, <3>2
  <2>3. \A i \in 1..n : out[i] <= number' /\ \A j \in 1..Len(back') : back'[j] < out[i]
    BY <1>1, <1>2, <2>1 DEF InOrder, Below
  <2>4. \A i, j \in 1..n : i < j => out[i] < out[j]
    BY <1>1, <2>1 DEF InOrder, Increasing
  <2>5. EchoBetween(echoes[1])'
    BY <1>9, <2>2, <2>3, <2>4 DEF EchoBetween
  <2> QED BY <1>5, <1>7, <1>9, <1>6, <2>5 DEF InOrder
<1> QED BY <1>8, <1>9, StreamRead

(* The echo is written behind what came back. *)
LEMMA EchoInOrder ==
  ASSUME TypeOK, OrderInv, NEW k \in Numbers, EchoStream(k)
  PROVE  OrderInv'
<1> SUFFICES ASSUME protocol = "tcp", ~overlapped PROVE InOrder'
  BY DEF OrderInv, EchoStream
<1>1. InOrder
  BY DEF OrderInv
<1>2. UNCHANGED <<number, out>>
  BY DEF EchoStream, client
<1>3. k \in 1..Len(echoes) /\ Len(echoes') = Len(echoes) - 1
  BY StreamEcho
<1>4. Len(echoes') = 0
  BY <1>1, <1>3, PacketsAreNumbers DEF InOrder
<1>5. EchoBetween(echoes[k])
  BY <1>1, <1>3 DEF InOrder
<1>6. PICK s \in Seq(Numbers) :
        /\ Len(s) = Len(echoes[k]) /\ Len(back') = Len(back) + Len(s)
        /\ \A i \in 1..Len(s) : s[i] \in echoes[k][i]
        /\ \A i \in 1..(Len(back) + Len(s)) :
             back'[i] = IF i <= Len(back) THEN back[i] ELSE s[i - Len(back)]
  BY StreamEcho
<1>7. \A i \in 1..Len(s) : /\ s[i] <= number
                           /\ \A j \in 1..Len(out) : s[i] < out[j]
                           /\ \A j \in 1..Len(back) : back[j] < s[i]
  BY <1>5, <1>6 DEF EchoBetween
<1>8. Increasing(s)
  BY <1>5, <1>6 DEF EchoBetween, Increasing
<1>9. \A i \in 1..Len(back') : \/ i \in 1..Len(back) /\ back'[i] = back[i]
                               \/ /\ i > Len(back) /\ i - Len(back) \in 1..Len(s)
                                  /\ back'[i] = s[i - Len(back)]
  <2>1. Len(back) \in Nat /\ Len(s) \in Nat /\ Len(back') = Len(back) + Len(s)
    BY <1>6, PacketsAreNumbers
  <2> TAKE i \in 1..Len(back')
  <2>2. i \in 1..(Len(back) + Len(s))
    BY <2>1
  <2>3. CASE i <= Len(back)
    BY <1>6, <2>1, <2>2, <2>3
  <2>4. CASE i > Len(back)
    <3>1. back'[i] = s[i - Len(back)]
      BY <1>6, <2>1, <2>2, <2>4
    <3>2. i - Len(back) \in 1..Len(s)
      BY <2>1, <2>2, <2>4
    <3> QED BY <2>4, <3>1, <3>2
  <2> QED BY <2>1, <2>2, <2>3, <2>4
<1>10. Below(back, out)' /\ \A i \in 1..Len(back') : back'[i] <= number'
  <2>1. \A i \in 1..Len(back) : back[i] <= number /\ \A j \in 1..Len(out) : back[i] < out[j]
    BY <1>1 DEF InOrder, Below
  <2>2. \A i \in 1..Len(back') : back'[i] <= number /\ \A j \in 1..Len(out) : back'[i] < out[j]
    BY <1>7, <1>9, <2>1
  <2> QED BY <1>2, <2>2 DEF Below
<1>11. Len(back) \in Nat /\ Len(back') \in Nat /\ \A i \in 1..Len(back') : i \in Int
  BY <1>6, PacketsAreNumbers
<1>12. Increasing(back)'
  <2> SUFFICES ASSUME NEW i \in 1..Len(back'), NEW j \in 1..Len(back'), i < j
               PROVE  back'[i] < back'[j]
    BY DEF Increasing
  <2>1. CASE j <= Len(back)
    <3>1. i \in 1..Len(back) /\ j \in 1..Len(back)
      BY <2>1, PacketsAreNumbers
    <3> QED BY <1>1, <1>9, <3>1 DEF InOrder, Increasing
  <2>2. CASE i <= Len(back) /\ j > Len(back)
    <3>1. i \in 1..Len(back) /\ back'[i] = back[i]
      BY <1>9, <1>11, <2>2
    <3>2. j - Len(back) \in 1..Len(s) /\ back'[j] = s[j - Len(back)]
      BY <1>9, <1>11, <2>2
    <3> QED BY <1>7, <3>1, <3>2
  <2>3. CASE i > Len(back)
    <3>1. /\ i - Len(back) \in 1..Len(s) /\ j - Len(back) \in 1..Len(s)
          /\ i - Len(back) < j - Len(back)
          /\ back'[i] = s[i - Len(back)] /\ back'[j] = s[j - Len(back)]
      <4>1. i \in Int /\ j \in Int /\ j > Len(back)
        BY <1>11, <2>3
      <4>2. i \notin 1..Len(back) /\ j \notin 1..Len(back)
        BY <1>11, <2>3, <4>1
      <4>3. /\ i - Len(back) \in 1..Len(s) /\ back'[i] = s[i - Len(back)]
            /\ j - Len(back) \in 1..Len(s) /\ back'[j] = s[j - Len(back)]
        BY <1>9, <4>2
      <4> QED BY <1>11, <4>1, <4>3
    <3> QED BY <1>8, <3>1 DEF Increasing
  <2> QED BY <2>1, <2>2, <2>3, <1>6, PacketsAreNumbers
<1> QED BY <1>1, <1>2, <1>4, <1>10, <1>12 DEF InOrder, Increasing

(* The other steps are about a datagram or leave the stream as it is. *)
LEMMA OthersInOrder ==
  ASSUME TypeOK, OrderInv, [Next]_vars, ~Send, ~Receive,
         \A n \in Numbers : ~ReadStream(n) /\ ~EchoStream(n)
  PROVE  OrderInv'
<1> USE DEF client, updates, network, server
<1>1. CASE protocol' = "udp"
  BY <1>1 DEF OrderInv
<1>2. CASE protocol' # "udp"
  <2>1. UNCHANGED <<protocol, out, back, echoes, overlapped>> /\ number' \in {number, number + 1}
    <3>1. CASE Lose \/ Duplicate \/ Refuse \/ ServerRestarts \/ EchoDatagram
      BY <1>2, <3>1 DEF Lose, Duplicate, Refuse, ServerRestarts, EchoDatagram
    <3>2. CASE \/ Dial \/ DialGivesUp \/ Return \/ Cancel \/ SendFails \/ CountSent \/ SenderStops
               \/ Check \/ ReadTimesOut \/ ReadFails
      BY <3>2 DEF Dial, DialGivesUp, Return, Cancel, SendFails, CountSent, SenderStops,
                  Check, ReadTimesOut, ReadFails
    <3>3. CASE \E u \in Everyone : LoadSent(u) \/ Store(u)
      BY <3>3 DEF LoadSent, Store
    <3>4. CASE UNCHANGED vars
      BY <3>4 DEF vars
    <3>5. Updaters \subseteq Everyone /\ "receiver" \in Everyone
      BY DEF Everyone
    <3> QED BY <3>1, <3>2, <3>3, <3>4, <3>5 DEF Next, Receiver
  <2>2. SUFFICES ASSUME protocol = "tcp", ~overlapped, InOrder PROVE InOrder'
    BY <2>1 DEF OrderInv
  <2>3. number \in Nat /\ number <= number'
    BY <2>1, PacketsAreNumbers
  <2>4. /\ \A i \in 1..Len(out) : out[i] <= number'
        /\ \A i \in 1..Len(back) : back[i] <= number'
    <3>1. /\ \A i \in 1..Len(out) : out[i] \in Nat /\ out[i] <= number
          /\ \A i \in 1..Len(back) : back[i] \in Nat /\ back[i] <= number
      BY <2>2, PacketsAreNumbers DEF InOrder
    <3>2. number' \in Nat
      BY <2>1, <2>3
    <3> QED BY <2>3, <3>1, <3>2
  <2>5. ASSUME NEW k \in 1..Len(echoes) PROVE EchoBetween(echoes[k])'
    <3>1. EchoBetween(echoes[k])
      BY <2>2 DEF InOrder
    <3>2. \A i \in 1..Len(echoes[k]) : \A x \in echoes[k][i] : x \in Nat /\ x <= number'
      <4>1. \A i \in 1..Len(echoes[k]) : \A x \in echoes[k][i] : x \in Nat
        BY PacketsAreNumbers
      <4>2. number' \in Nat
        BY <2>1, <2>3
      <4> QED BY <2>3, <3>1, <4>1, <4>2 DEF EchoBetween
    <3> QED BY <2>1, <3>1, <3>2 DEF EchoBetween
  <2> QED BY <2>1, <2>2, <2>4, <2>5 DEF InOrder, Increasing, Below
<1> QED BY <1>1, <1>2

(* handleTCPConnection: the stream of echoes has the packets that were     *)
(* sent, each at most once and in order, for any number of packets and any *)
(* sizes of the reads, as long as no read overtakes an echo.               *)
THEOREM StreamInOrder == Spec => []EchoesInOrder
<1>1. Init => OrderInv
  BY DEF Init, OrderInv, InOrder, Increasing, Below
<1>2. TypeOK /\ OrderInv /\ [Next]_vars => OrderInv'
  BY SendInOrder, ReceiveInOrder, ReadInOrder, EchoInOrder, OthersInOrder
<1>3. OrderInv => EchoesInOrder
  BY DEF OrderInv, InOrder, Increasing, EchoesInOrder
<1> QED BY <1>1, <1>2, <1>3, TypeCorrect, PTL DEF Spec
=============================================================================
