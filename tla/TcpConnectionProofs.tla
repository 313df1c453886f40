------------------------ MODULE TcpConnectionProofs ------------------------
(***************************************************************************)
(* For any number of reconnections and every interleaving of the sender    *)
(* and the receiver: a throughput connection holds one socket at most and  *)
(* never calls a nil connection, the loops that promise to retry until the *)
(* cancellation do, c.conn never stays on a closed socket, and Start       *)
(* leaves no more sockets open than there were reconnections.              *)
(***************************************************************************)
EXTENDS TcpConnection, FiniteSetTheorems, TLAPS

(* The initial state satisfies the invariant. *)
LEMMA InitConn == Init => ConnInv
<1> SUFFICES ASSUME Init PROVE ConnInv
  OBVIOUS
<1>1. TypeOK
  <2>1. 0 \in 0..MaxDials
    BY MaxDialsAssumption
  <2> QED BY <2>1 DEF Init, TypeOK, None, StartSteps, Steps
<1>2. Numbered
  BY DEF Init, Numbered, Sides, None
<1>3. FreshSocket /\ ClosedIsReplaced
  BY DEF Init, FreshSocket, ClosedIsReplaced
<1>4. SenderOwnsConn /\ OneSocket /\ RetriesUntilCancelled
  BY DEF Init, SenderOwnsConn, OneSocket, RetriesUntilCancelled, Sides
<1> QED BY <1>1, <1>2, <1>3, <1>4 DEF ConnInv

(* Every step preserves the types. *)
LEMMA TypeKept == TypeOK /\ Numbered /\ [Next]_vars => TypeOK'
<1> SUFFICES ASSUME TypeOK, Numbered, [Next]_vars PROVE TypeOK'
  OBVIOUS
<1> USE MaxDialsAssumption DEF TypeOK, sockets, None, StartSteps, Steps, Goto, Take, At
<1>1. CASE DialStart
  BY <1>1 DEF DialStart, NewSocket, Sockets
<1>2. CASE DialGivesUp \/ Return \/ Cancel
  BY <1>2 DEF DialGivesUp, Return, Cancel
<1>3. CASE Panic
  BY <1>3 DEF Panic
<1>4. CASE ~Panic /\ (Write \/ Read \/ EchoArrives)
  BY <1>4 DEF Write, Read, EchoArrives, Sides
<1>5. CASE ~Panic /\ SetReadDeadline
  <2>1. {conn} \ {0} \subseteq Sockets
    BY DEF Sockets
  <2> QED BY <1>5, <2>1 DEF SetReadDeadline
<1>6. ASSUME NEW g \in Sides, Step(g), ~Panic PROVE TypeOK'
  <2>1. CASE Redial(g)
    BY <2>1 DEF Redial, NewSocket, Sockets, Numbered, Sides
  <2>2. CASE CloseOld(g) \/ ClearConn(g) \/ RedialGivesUp(g) \/ Assign(g)
    BY <1>6, <2>2 DEF CloseOld, ClearConn, RedialGivesUp, Assign
  <2>3. CASE Exit(g) \/ Begin(g) \/ NilCheck(g) \/ IoReturns(g) \/ ReconnectTCP(g)
    BY <2>3 DEF Exit, Begin, NilCheck, IoReturns, ReconnectTCP
  <2> QED BY <1>6, <2>1, <2>2, <2>3 DEF Step
<1>7. ASSUME NEW s \in Sockets, PeerGone(s) PROVE TypeOK'
  BY <1>7 DEF PeerGone
<1>8. CASE UNCHANGED vars
  BY <1>8 DEF vars
<1> QED BY <1>1, <1>2, <1>3, <1>4, <1>5, <1>6, <1>7, <1>8 DEF Next

(* Every step preserves the numbering and what is known of fresh sockets.  *)
LEMMA NumberedKept ==
  ASSUME TypeOK, Numbered, FreshSocket, [Next]_vars
  PROVE  Numbered' /\ FreshSocket'
<1> USE MaxDialsAssumption DEF TypeOK, sockets, None, Goto, Take, At, Numbered, FreshSocket
<1>1. CASE DialStart
  <2>1. dialled = 0 /\ open = {}
    BY <1>1 DEF DialStart
  <2>2. /\ dialled' = 1 /\ open' = {1} /\ conn' = 1 /\ start' = "wait"
        /\ hand' = hand /\ \A g \in Sides : pc'[g] = "check"
        /\ reconnects' = reconnects
    BY <1>1, <2>1 DEF DialStart, NewSocket
  <2>3. reconnects = 0
    BY <1>1 DEF DialStart
  <2> QED BY <2>1, <2>2, <2>3
<1>2. CASE DialGivesUp
  <2>1. /\ start = "dial" /\ start' = "returned" /\ dialled = 0 /\ open = {}
        /\ UNCHANGED <<pc, conn, hand, dialled, open, reconnects>>
    BY <1>2 DEF DialGivesUp
  <2> QED BY <2>1
<1>10. CASE Cancel
  BY <1>10 DEF Cancel
<1>3. CASE Return
  BY <1>3 DEF Return
<1>4. CASE Panic
  BY <1>4 DEF Panic
<1>5. CASE ~Panic /\ (Write \/ Read)
  BY <1>5 DEF Write, Read, Sides
<1>6. CASE ~Panic /\ SetReadDeadline
  BY <1>6 DEF SetReadDeadline, Sides
<1>11. CASE EchoArrives
  BY <1>11 DEF EchoArrives, Sides
<1>7. ASSUME NEW g \in Sides, Step(g), ~Panic PROVE Numbered' /\ FreshSocket'
  <2>1. CASE Redial(g)
    BY <2>1 DEF Redial, NewSocket, Sides
  <2>2. CASE CloseOld(g)
    BY <1>7, <2>2 DEF CloseOld, Sides
  <2>3. CASE ClearConn(g)
    BY <2>3 DEF ClearConn, Sides
  <2>4. CASE Assign(g)
    BY <2>4 DEF Assign, Sides
  <2>5. CASE IoReturns(g)
    BY <2>5 DEF IoReturns, Sides
  <2>6. CASE Exit(g) \/ Begin(g) \/ NilCheck(g)
    BY <2>6 DEF Exit, Begin, NilCheck, Sides
  <2>7. CASE ReconnectTCP(g) \/ RedialGivesUp(g)
    BY <2>7 DEF ReconnectTCP, RedialGivesUp, Sides
  <2> QED BY <1>7, <2>1, <2>2, <2>3, <2>4, <2>5, <2>6, <2>7 DEF Step
<1>8. ASSUME NEW s \in Sockets, PeerGone(s) PROVE Numbered' /\ FreshSocket'
  BY <1>8 DEF PeerGone
<1>9. CASE UNCHANGED vars
  BY <1>9 DEF vars
<1> QED BY <1>1, <1>2, <1>3, <1>4, <1>5, <1>6, <1>7, <1>8, <1>9, <1>10, <1>11 DEF Next

(* In throughput mode the sender stays the only user of c.conn, which      *)
(* makes the socket single and keeps both loops running.                   *)
LEMMA ThroughputKept ==
  ASSUME TypeOK, Numbered, FreshSocket, SenderOwnsConn, OneSocket, RetriesUntilCancelled,
         [Next]_vars, mode = "throughput"
  PROVE  SenderOwnsConn' /\ OneSocket' /\ RetriesUntilCancelled'
<1> USE DEF TypeOK, sockets, None, Goto, Take, At, Numbered, SenderOwnsConn, OneSocket,
            RetriesUntilCancelled, Sides
<1>1. CASE DialStart
  <2>1. /\ mode' = mode /\ panicked' = panicked /\ conn' = 1 /\ open' = {1}
        /\ pc' = [g \in Sides |-> "check"]
    <3>1. dialled = 0 /\ open = {}
      BY <1>1 DEF DialStart
    <3> QED BY <1>1, <3>1 DEF DialStart, NewSocket
  <2> QED BY <2>1
<1>2. CASE DialGivesUp
  BY <1>2 DEF DialGivesUp
<1>9. CASE Cancel
  BY <1>9 DEF Cancel
<1>3. CASE Return
  BY <1>3 DEF Return
<1>4. CASE Write
  <2>1. pc["sender"] = "use" /\ conn # None /\ open \subseteq {conn}
    BY <1>4 DEF Write
  <2>2. /\ pc' = [pc EXCEPT !["sender"] = "io"]
        /\ UNCHANGED <<mode, cancelled, conn, open, panicked>>
    BY <1>4, <2>1 DEF Write
  <2> QED BY <2>1, <2>2
<1>5. CASE SetReadDeadline \/ Read \/ EchoArrives
  BY <1>5 DEF SetReadDeadline, Read, EchoArrives
<1>6. ASSUME NEW g \in Sides, Step(g)
      PROVE  SenderOwnsConn' /\ OneSocket' /\ RetriesUntilCancelled'
  <2>1. CASE Redial(g)
    <3>1. g = "sender" /\ open = {} /\ open' = {dialled + 1}
      BY <2>1 DEF Redial, NewSocket
    <3>2. hand'["sender"] = dialled + 1 /\ pc'["sender"] = "assign"
      BY <2>1, <3>1 DEF Redial
    <3>3. pc'["receiver"] = pc["receiver"] /\ UNCHANGED <<mode, panicked, cancelled>>
      BY <2>1, <3>1 DEF Redial
    <3> QED BY <3>1, <3>2, <3>3
  <2>2. CASE CloseOld(g)
    <3>1. g = "sender" /\ conn # None /\ open \subseteq {conn}
      BY <2>2 DEF CloseOld
    <3>2. /\ pc' = [pc EXCEPT !["sender"] = "clear"] /\ open' = {}
          /\ UNCHANGED <<mode, cancelled, panicked>>
      BY <2>2, <3>1 DEF CloseOld, Panic
    <3> QED BY <3>1, <3>2
  <2>3. CASE ClearConn(g)
    BY <2>3 DEF ClearConn
  <2>4. CASE Assign(g)
    <3>1. g = "sender" /\ hand[g] \in open /\ open \subseteq {hand[g]}
      BY <2>4 DEF Assign, FreshSocket
    <3>2. /\ pc' = [pc EXCEPT !["sender"] = "check"] /\ conn' = hand["sender"]
          /\ UNCHANGED <<mode, cancelled, open, panicked>>
      BY <2>4, <3>1 DEF Assign
    <3>3. conn' # None
      BY <3>1, <3>2
    <3> QED BY <3>1, <3>2, <3>3
  <2>5. CASE IoReturns(g)
    BY <2>5 DEF IoReturns
  <2>6. CASE NilCheck(g)
    BY <2>6 DEF NilCheck
  <2>7. CASE Exit(g)
    BY <2>7 DEF Exit
  <2>8. CASE Begin(g)
    BY <2>8 DEF Begin
  <2>9. CASE ReconnectTCP(g)
    <3>1. g = "sender" /\ conn # None
      BY <2>9 DEF ReconnectTCP
    <3>2. /\ pc' = [pc EXCEPT !["sender"] = "close"]
          /\ UNCHANGED <<mode, cancelled, conn, open, panicked>>
      BY <2>9, <3>1 DEF ReconnectTCP
    <3> QED BY <2>9, <3>1, <3>2 DEF ReconnectTCP
  <2>10. CASE RedialGivesUp(g)
    BY <2>10 DEF RedialGivesUp
  <2> QED BY <1>6, <2>1, <2>2, <2>3, <2>4, <2>5, <2>6, <2>7, <2>8, <2>9, <2>10 DEF Step
<1>7. ASSUME NEW s \in Sockets, PeerGone(s)
      PROVE  SenderOwnsConn' /\ OneSocket' /\ RetriesUntilCancelled'
  BY <1>7 DEF PeerGone
<1>8. CASE UNCHANGED vars
  BY <1>8 DEF vars
<1> QED BY <1>1, <1>2, <1>3, <1>4, <1>5, <1>6, <1>7, <1>8, <1>9 DEF Next

(* In packet mode the sender may end and a nil connection may be called,   *)
(* but the receiver retries until the cancellation.                        *)
LEMMA PacketKept ==
  ASSUME TypeOK, RetriesUntilCancelled, Numbered, [Next]_vars, mode = "packet"
  PROVE  SenderOwnsConn' /\ OneSocket' /\ RetriesUntilCancelled'
<1>1. mode' = "packet"
  <2>1. ASSUME NEW g \in Sides, Step(g) PROVE mode' = mode
    BY <2>1 DEF Step, Exit, Begin, NilCheck, IoReturns, ReconnectTCP, CloseOld, ClearConn,
                Redial, RedialGivesUp, Assign, Panic
  <2>2. ASSUME NEW s \in Sockets, PeerGone(s) PROVE mode' = mode
    BY <2>2 DEF PeerGone
  <2> QED
    BY <2>1, <2>2 DEF Next, vars, DialStart, DialGivesUp, Return, Write, SetReadDeadline,
                      Read, EchoArrives, Cancel, Panic
<1>2. pc'["receiver"] = "exited" => cancelled'
  <2> USE DEF TypeOK, RetriesUntilCancelled, Numbered, Sides, Goto, At
  <2>1. ASSUME NEW g \in Sides, Step(g) PROVE pc'["receiver"] = "exited" => cancelled'
    <3>1. CASE Exit(g) \/ RedialGivesUp(g)
      BY <3>1 DEF Exit, RedialGivesUp
    <3>2. CASE NilCheck(g)
      BY <3>2 DEF NilCheck
    <3>3. CASE Begin(g) \/ IoReturns(g) \/ ReconnectTCP(g) \/ ClearConn(g)
      BY <3>3 DEF Begin, IoReturns, ReconnectTCP, ClearConn
    <3>4. CASE CloseOld(g) \/ Redial(g) \/ Assign(g)
      BY <3>4 DEF CloseOld, Redial, Assign, Panic
    <3> QED BY <2>1, <3>1, <3>2, <3>3, <3>4 DEF Step
  <2>2. ASSUME NEW s \in Sockets, PeerGone(s) PROVE pc'["receiver"] = "exited" => cancelled'
    BY <2>2 DEF PeerGone
  <2>3. CASE DialStart \/ DialGivesUp \/ Return \/ Cancel
    BY <2>3 DEF DialStart, DialGivesUp, Return, Cancel
  <2>4. CASE Write \/ SetReadDeadline \/ Read \/ EchoArrives
    BY <2>4 DEF Write, SetReadDeadline, Read, EchoArrives, Panic
  <2>5. CASE UNCHANGED vars
    BY <2>5 DEF vars
  <2> QED BY <2>1, <2>2, <2>3, <2>4, <2>5 DEF Next
<1> QED BY <1>1, <1>2 DEF SenderOwnsConn, OneSocket, RetriesUntilCancelled

(* A goroutine that closes c.conn is the one that clears it, and a socket  *)
(* that is assigned is a fresh one.                                        *)
LEMMA ReplacedKept ==
  ASSUME TypeOK, Numbered, FreshSocket, ClosedIsReplaced, [Next]_vars
  PROVE  ClosedIsReplaced'
<1> USE DEF TypeOK, sockets, None, Goto, Take, At, ClosedIsReplaced, Sides
<1>1. CASE DialStart
  BY <1>1 DEF DialStart, NewSocket
<1>2. CASE DialGivesUp \/ Return \/ Cancel
  BY <1>2 DEF DialGivesUp, Return, Cancel
<1>3. CASE Panic
  BY <1>3 DEF Panic
<1>4. CASE ~Panic /\ (Write \/ Read)
  BY <1>4 DEF Write, Read
<1>5. CASE ~Panic /\ SetReadDeadline
  BY <1>5 DEF SetReadDeadline
<1>6. CASE EchoArrives
  BY <1>6 DEF EchoArrives
<1>7. ASSUME NEW g \in Sides, Step(g), ~Panic PROVE ClosedIsReplaced'
  <2>1. CASE CloseOld(g)
    <3>1. pc'[g] = "clear"
      BY <1>7, <2>1 DEF CloseOld
    <3> QED BY <3>1
  <2>2. CASE ClearConn(g)
    BY <2>2 DEF ClearConn
  <2>3. CASE Assign(g)
    <3>1. conn' \in open'
      BY <2>3 DEF Assign, FreshSocket
    <3> QED BY <3>1
  <2>4. CASE Redial(g)
    BY <2>4 DEF Redial, NewSocket
  <2>5. CASE Exit(g) \/ Begin(g)
    BY <2>5 DEF Exit, Begin
  <2>6. CASE NilCheck(g) \/ ReconnectTCP(g)
    BY <2>6 DEF NilCheck, ReconnectTCP
  <2>7. CASE IoReturns(g) \/ RedialGivesUp(g)
    BY <2>7 DEF IoReturns, RedialGivesUp
  <2> QED BY <1>7, <2>1, <2>2, <2>3, <2>4, <2>5, <2>6, <2>7 DEF Step
<1>8. ASSUME NEW s \in Sockets, PeerGone(s) PROVE ClosedIsReplaced'
  BY <1>8 DEF PeerGone
<1>9. CASE UNCHANGED vars
  BY <1>9 DEF vars
<1> QED BY <1>1, <1>2, <1>3, <1>4, <1>5, <1>6, <1>7, <1>8, <1>9 DEF Next

-----------------------------------------------------------------------------
(* The invariant: it holds of every connection, with any number of dials.  *)
THEOREM ConnInvariant == Spec => []ConnInv
<1>1. ConnInv /\ [Next]_vars => ConnInv'
  <2> SUFFICES ASSUME ConnInv, [Next]_vars PROVE ConnInv'
    OBVIOUS
  <2>1. TypeOK' /\ Numbered' /\ FreshSocket' /\ ClosedIsReplaced'
    BY TypeKept, NumberedKept, ReplacedKept DEF ConnInv
  <2>2. SenderOwnsConn' /\ OneSocket' /\ RetriesUntilCancelled'
    <3>1. mode \in {"throughput", "packet"}
      BY DEF ConnInv, TypeOK
    <3> QED BY <3>1, ThroughputKept, PacketKept DEF ConnInv
  <2> QED BY <2>1, <2>2 DEF ConnInv
<1> QED BY InitConn, <1>1, PTL DEF Spec

(* A throughput connection never has two sockets open: reconnectTCP closes *)
(* the broken one before it dials, and nothing else touches c.conn.        *)
THEOREM ThroughputHoldsOneSocket == Spec => []OneSocket
<1>1. ConnInv => OneSocket
  BY DEF ConnInv
<1> QED BY ConnInvariant, <1>1, PTL

(* The receiver loop of either mode, and the throughput sender, end only   *)
(* after the cancellation, and the throughput sender calls no nil          *)
(* connection, however often the peer goes away.                           *)
THEOREM LoopsRetryUntilCancelled == Spec => []RetriesUntilCancelled
<1>1. ConnInv => RetriesUntilCancelled
  BY DEF ConnInv
<1> QED BY ConnInvariant, <1>1, PTL

(* Two reconnections that race never leave a closed socket in c.conn.      *)
THEOREM ClosedSocketIsReplaced == Spec => []ClosedIsReplaced
<1>1. ConnInv => ClosedIsReplaced
  BY DEF ConnInv
<1> QED BY ConnInvariant, <1>1, PTL

(* When Start has returned the first socket is closed, so there are no     *)
(* more open sockets than reconnections.                                   *)
THEOREM LeaksBounded == Spec => []LeaksPaidByReconnects
<1>1. ConnInv => LeaksPaidByReconnects
  <2> SUFFICES ASSUME TypeOK, Numbered, start = "returned" PROVE Cardinality(open) <= reconnects
    BY DEF ConnInv, LeaksPaidByReconnects
  <2>1. /\ dialled \in Nat /\ reconnects \in Nat /\ dialled <= reconnects + 1
        /\ open \subseteq 2..dialled
    BY MaxDialsAssumption DEF TypeOK, Numbered, Sockets
  <2>2. /\ IsFiniteSet(2..dialled)
        /\ Cardinality(2..dialled) = IF 2 > dialled THEN 0 ELSE dialled - 2 + 1
    BY <2>1, FS_Interval
  <2>3. IsFiniteSet(open) /\ Cardinality(open) <= Cardinality(2..dialled)
    BY <2>1, <2>2, FS_Subset
  <2>4. Cardinality(open) \in Nat
    BY <2>3, FS_CardinalityType
  <2> QED BY <2>1, <2>2, <2>3, <2>4
<1> QED BY ConnInvariant, <1>1, PTL
=============================================================================
