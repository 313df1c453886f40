--------------------------- MODULE TcpConnection ---------------------------
(***************************************************************************)
(* One TCP Connection (pkg/network/connection.go): startTCP dials, starts  *)
(* the sender and the receiver goroutine, waits for both and closes the    *)
(* socket it dialled.  Both goroutines share the field c.conn without a    *)
(* lock, and each may close it, set it to nil and dial again in            *)
(* reconnectTCP.                                                           *)
(*                                                                         *)
(* In packet mode the sender writes on a ticker and the receiver reads     *)
(* echoes; in throughput mode the sender alone uses the socket, and the    *)
(* receiver waits for the context.  Sockets are numbered as they are       *)
(* dialled; 0 is nil.                                                      *)
(***************************************************************************)
EXTENDS Naturals, FiniteSets

CONSTANTS
  MaxDials     \* bound: how many dials succeed

ASSUME MaxDialsAssumption == MaxDials \in Nat \ {0}

VARIABLES
  mode,        \* "throughput" or "packet"
  cancelled,   \* ctx is done
  start,       \* where startTCP is
  pc,          \* where the sender and the receiver are
  conn,        \* c.conn
  hand,        \* hand[g]: the socket goroutine g is doing I/O on, or has dialled
  dialled,     \* how many dials have succeeded
  open,        \* the sockets that are open
  broken,      \* the sockets whose peer is gone
  deadlined,   \* the sockets that have a read deadline
  reconnects,  \* c.reconnectCount
  panicked     \* a nil interface was called

Sockets    == 1..MaxDials
None       == 0
Sides      == {"sender", "receiver"}
StartSteps == {"dial", "wait", "returned"}
Steps      == {"off", "check", "nilCheck", "use", "read", "io", "reconnect", "close",
               "clear", "redial", "assign", "exited"}

sockets == <<dialled, open, broken, deadlined>>
vars    == <<mode, cancelled, start, pc, conn, hand, sockets, reconnects, panicked>>

TypeOK ==
  /\ mode \in {"throughput", "packet"}
  /\ cancelled \in BOOLEAN
  /\ start \in StartSteps
  /\ pc \in [Sides -> Steps]
  /\ conn \in 0..MaxDials
  /\ hand \in [Sides -> 0..MaxDials]
  /\ dialled \in 0..MaxDials
  /\ open \subseteq Sockets
  /\ broken \subseteq Sockets
  /\ deadlined \subseteq Sockets
  /\ reconnects \in 0..MaxDials
  /\ panicked \in BOOLEAN

Init ==
  /\ mode \in {"throughput", "packet"}
  /\ cancelled = FALSE
  /\ start = "dial"
  /\ pc = [g \in Sides |-> "off"]
  /\ conn = None
  /\ hand = [g \in Sides |-> None]
  /\ dialled = 0 /\ open = {} /\ broken = {} /\ deadlined = {}
  /\ reconnects = 0
  /\ panicked = FALSE

-----------------------------------------------------------------------------
(* Helpers. *)

At(g, step)   == ~panicked /\ pc[g] = step
Goto(g, step) == pc' = [pc EXCEPT ![g] = step]
Take(g, s)    == hand' = [hand EXCEPT ![g] = s]

(* The value of c.conn is two words, read and written without a lock.  A   *)
(* method called on it while it is nil, or half written, panics or fails   *)
(* with EINVAL.                                                            *)
Panic ==
  /\ panicked' = TRUE
  /\ UNCHANGED <<mode, cancelled, start, pc, conn, hand, sockets, reconnects>>

(* net.DialTimeout returns a new socket. *)
NewSocket ==
  /\ dialled < MaxDials
  /\ dialled' = dialled + 1
  /\ open' = open \cup {dialled + 1}

(* I/O on socket s fails: it was closed here, or its peer is gone. *)
Fails(s) == s \notin open \/ s \in broken

-----------------------------------------------------------------------------
(* startTCP. *)

(* The first dial succeeds, possibly after retries: the goroutines start.  *)
DialStart ==
  /\ ~panicked
  /\ start = "dial"
  /\ NewSocket
  /\ conn' = dialled + 1
  /\ start' = "wait"
  /\ pc' = [g \in Sides |-> "check"]
  /\ UNCHANGED <<mode, cancelled, hand, broken, deadlined, reconnects, panicked>>

(* A dial fails and the context is done. *)
DialGivesUp ==
  /\ ~panicked
  /\ start = "dial"
  /\ cancelled
  /\ start' = "returned"
  /\ UNCHANGED <<mode, cancelled, pc, conn, hand, sockets, reconnects, panicked>>

(* Mutant of Return: the deferred Close is missing. *)
ReturnOpen ==
  /\ ~panicked
  /\ start = "wait"
  /\ \A g \in Sides : pc[g] = "exited"
  /\ start' = "returned"
  /\ UNCHANGED <<mode, cancelled, pc, conn, hand, sockets, reconnects, panicked>>

(* Both goroutines are done.  The deferred Close was bound to the socket   *)
(* that startTCP dialled, whatever c.conn holds now.                       *)
Return ==
  /\ ~panicked
  /\ start = "wait"
  /\ \A g \in Sides : pc[g] = "exited"
  /\ start' = "returned"
  /\ open' = open \ {1}
  /\ UNCHANGED <<mode, cancelled, pc, conn, hand, dialled, broken, deadlined,
                 reconnects, panicked>>

-----------------------------------------------------------------------------
(* tcpSender and tcpReceiver. *)

(* The context is done. *)
Exit(g) ==
  /\ At(g, "check")
  /\ cancelled
  /\ Goto(g, "exited")
  /\ UNCHANGED <<mode, cancelled, start, conn, hand, sockets, reconnects, panicked>>

(* The loop goes on.  The packet sender selects between the context and    *)
(* its ticker, and may take the tick when both are ready.                  *)
Begin(g) ==
  /\ At(g, "check")
  /\ g = "receiver" => mode = "packet"
  /\ ~cancelled \/ (g = "sender" /\ mode = "packet")
  /\ Goto(g, "nilCheck")
  /\ UNCHANGED <<mode, cancelled, start, conn, hand, sockets, reconnects, panicked>>

(* c.conn == nil ends the sender and makes the receiver reconnect. *)
NilCheck(g) ==
  /\ At(g, "nilCheck")
  /\ Goto(g, IF conn # None THEN "use"
             ELSE IF g = "sender" THEN "exited" ELSE "reconnect")
  /\ UNCHANGED <<mode, cancelled, start, conn, hand, sockets, reconnects, panicked>>

(* The sender writes on what c.conn is by now. *)
Write ==
  /\ At("sender", "use")
  /\ \/ conn = None /\ Panic
     \/ /\ conn = None
        /\ Goto("sender", "reconnect")
        /\ UNCHANGED <<mode, cancelled, start, conn, hand, sockets, reconnects, panicked>>
     \/ /\ conn # None
        /\ Take("sender", conn)
        /\ Goto("sender", "io")
        /\ UNCHANGED <<mode, cancelled, start, conn, sockets, reconnects, panicked>>

(* The receiver sets a deadline on what c.conn is by now ... *)
SetReadDeadline ==
  /\ At("receiver", "use")
  /\ \/ conn = None /\ Panic
     \/ /\ deadlined' = deadlined \cup ({conn} \ {None})
        /\ Goto("receiver", "read")
        /\ UNCHANGED <<mode, cancelled, start, conn, hand, dialled, open, broken,
                       reconnects, panicked>>

(* ... and reads from what it is after that. *)
Read ==
  /\ At("receiver", "read")
  /\ \/ conn = None /\ Panic
     \/ /\ conn = None
        /\ Goto("receiver", "reconnect")
        /\ UNCHANGED <<mode, cancelled, start, conn, hand, sockets, reconnects, panicked>>
     \/ /\ conn # None
        /\ Take("receiver", conn)
        /\ Goto("receiver", "io")
        /\ UNCHANGED <<mode, cancelled, start, conn, sockets, reconnects, panicked>>

(* The write or the read returns: with an error when the socket is closed  *)
(* or broken; a write to a live peer ends by itself, a read at its         *)
(* deadline ...                                                            *)
IoReturns(g) ==
  /\ At(g, "io")
  /\ \/ Fails(hand[g]) /\ Goto(g, "reconnect")
     \/ /\ ~Fails(hand[g])
        /\ g = "sender" \/ hand[g] \in deadlined
        /\ Goto(g, "check")
  /\ Take(g, None)
  /\ UNCHANGED <<mode, cancelled, start, conn, sockets, reconnects, panicked>>

(* ... or when an echo arrives. *)
EchoArrives ==
  /\ At("receiver", "io")
  /\ ~Fails(hand["receiver"])
  /\ Goto("receiver", "check")
  /\ Take("receiver", None)
  /\ UNCHANGED <<mode, cancelled, start, conn, sockets, reconnects, panicked>>

-----------------------------------------------------------------------------
(* reconnectTCP. *)

ReconnectTCP(g) ==
  /\ At(g, "reconnect")
  /\ Goto(g, IF conn # None THEN "close" ELSE "redial")
  /\ UNCHANGED <<mode, cancelled, start, conn, hand, sockets, reconnects, panicked>>

(* Mutant of CloseOld: the broken socket is not closed. *)
CloseOldNot(g) ==
  /\ At(g, "close")
  /\ Goto(g, "clear")
  /\ UNCHANGED <<mode, cancelled, start, conn, hand, sockets, reconnects, panicked>>

(* c.conn.Close(), on what c.conn is by now. *)
CloseOld(g) ==
  /\ At(g, "close")
  /\ \/ conn = None /\ Panic
     \/ /\ open' = open \ {conn}
        /\ Goto(g, "clear")
        /\ UNCHANGED <<mode, cancelled, start, conn, hand, dialled, broken, deadlined,
                       reconnects, panicked>>

(* Mutant of ClearConn: the field keeps the closed socket. *)
ClearConnNot(g) ==
  /\ At(g, "clear")
  /\ Goto(g, "redial")
  /\ UNCHANGED <<mode, cancelled, start, conn, hand, sockets, reconnects, panicked>>

(* c.conn = nil *)
ClearConn(g) ==
  /\ At(g, "clear")
  /\ conn' = None
  /\ Goto(g, "redial")
  /\ UNCHANGED <<mode, cancelled, start, hand, sockets, reconnects, panicked>>

Redial(g) ==
  /\ At(g, "redial")
  /\ NewSocket
  /\ Take(g, dialled + 1)
  /\ reconnects' = reconnects + 1
  /\ Goto(g, "assign")
  /\ UNCHANGED <<mode, cancelled, start, conn, broken, deadlined, panicked>>

(* Mutants of RedialGivesUp: the retries never end; the first dial that    *)
(* fails ends them.                                                        *)
RedialNeverGivesUp(g) == FALSE

RedialGivesUpAtOnce(g) ==
  /\ At(g, "redial")
  /\ Goto(g, "exited")
  /\ UNCHANGED <<mode, cancelled, start, conn, hand, sockets, reconnects, panicked>>

(* A dial fails and the context is done: the goroutine returns. *)
RedialGivesUp(g) ==
  /\ At(g, "redial")
  /\ cancelled
  /\ Goto(g, "exited")
  /\ UNCHANGED <<mode, cancelled, start, conn, hand, sockets, reconnects, panicked>>

(* c.conn = conn *)
Assign(g) ==
  /\ At(g, "assign")
  /\ conn' = hand[g]
  /\ Take(g, None)
  /\ Goto(g, "check")
  /\ UNCHANGED <<mode, cancelled, start, sockets, reconnects, panicked>>

-----------------------------------------------------------------------------
(* The environment. *)

Cancel ==
  /\ ~panicked
  /\ ~cancelled
  /\ cancelled' = TRUE
  /\ UNCHANGED <<mode, start, pc, conn, hand, sockets, reconnects, panicked>>

PeerGone(s) ==
  /\ ~panicked
  /\ s \in open \ broken
  /\ broken' = broken \cup {s}
  /\ UNCHANGED <<mode, cancelled, start, pc, conn, hand, dialled, open, deadlined,
                 reconnects, panicked>>

-----------------------------------------------------------------------------
Step(g) ==
  \/ Exit(g)
  \/ Begin(g)
  \/ NilCheck(g)
  \/ IoReturns(g)
  \/ ReconnectTCP(g)
  \/ CloseOld(g)
  \/ ClearConn(g)
  \/ Redial(g)
  \/ RedialGivesUp(g)
  \/ Assign(g)

Next ==
  \/ DialStart
  \/ DialGivesUp
  \/ Return
  \/ \E g \in Sides : Step(g)
  \/ Write
  \/ SetReadDeadline
  \/ Read
  \/ EchoArrives
  \/ Cancel
  \/ \E s \in Sockets : PeerGone(s)

Spec == Init /\ [][Next]_vars

(* Every goroutine that can take a step does; a dial ends within its       *)
(* timeout, a write when the peer reads or goes away, a read at its        *)
(* deadline.  A select whose context stays done takes that case sooner or  *)
(* later.  Nothing is promised of the peer or of the caller.               *)
Fairness ==
  /\ WF_vars(DialStart \/ DialGivesUp)
  /\ WF_vars(Return)
  /\ WF_vars(Write)
  /\ WF_vars(SetReadDeadline)
  /\ WF_vars(Read)
  /\ \A g \in Sides : WF_vars(Step(g)) /\ SF_vars(Exit(g))

FairSpec == Spec /\ Fairness

-----------------------------------------------------------------------------
(* Properties. *)

(* In throughput mode a connection that reconnects never holds two open    *)
(* sockets: the broken one is closed before the next is dialled.           *)
OneSocket == mode = "throughput" => \A s, t \in open : s = t

(* What Start leaves open when it returns: the deferred Close covers the   *)
(* first socket alone, so up to one socket per reconnection is left behind *)
(* but never more, however the two goroutines race in reconnectTCP.        *)
LeaksPaidByReconnects == start = "returned" => Cardinality(open) <= reconnects

(* "Retry connection indefinitely until context cancellation" holds of the *)
(* receiver, and of the sender in throughput mode, which also never calls  *)
(* a nil connection.                                                       *)
RetriesUntilCancelled ==
  /\ pc["receiver"] = "exited" => cancelled
  /\ mode = "throughput" => ~panicked /\ (pc["sender"] = "exited" => cancelled)

(* The field c.conn never stays on a socket that was closed here: a        *)
(* goroutine is about to clear it, in either mode and in every             *)
(* interleaving of two reconnections.                                      *)
ClosedIsReplaced ==
  start = "wait" /\ conn # None /\ conn \notin open =>
    \E g \in Sides : pc[g] = "clear"

(* The read that no deadline and no cancellation can end: the receiver set *)
(* its deadline on the socket that was c.conn a moment earlier.            *)
ReadUnbounded == pc["receiver"] = "io" /\ hand["receiver"] \notin deadlined

(* Start returns after the cancellation, unless a nil connection is called *)
(* or a read has no deadline.                                              *)
StartReturns == cancelled ~> (start = "returned" \/ panicked \/ ReadUnbounded)

-----------------------------------------------------------------------------
(* The inductive strengthening. *)

(* Sockets are numbered in the order they are dialled: one by startTCP and *)
(* one by each reconnection.                                               *)
Numbered ==
  /\ start = "wait" => dialled = reconnects + 1
  /\ start = "dial" => dialled = 0 /\ reconnects = 0 /\ \A g \in Sides : pc[g] = "off"
  /\ start = "returned" => dialled <= reconnects + 1 /\ 1 \notin open
                           /\ \A g \in Sides : pc[g] \in {"off", "exited"}
  /\ open \subseteq 1..dialled
  /\ conn \in 0..dialled
  /\ \A g \in Sides : hand[g] \in 0..dialled

(* A socket that was dialled and not yet assigned is open and nobody's.    *)
FreshSocket ==
  \A g \in Sides : pc[g] = "assign" =>
    /\ hand[g] \in open
    /\ hand[g] # conn
    /\ \A h \in Sides \ {g} : pc[h] = "assign" => hand[h] # hand[g]

(* In throughput mode the sender owns c.conn. *)
SenderOwnsConn ==
  mode = "throughput" =>
    /\ ~panicked
    /\ pc["receiver"] \in {"off", "check", "exited"}
    /\ pc["sender"] \in {"check", "nilCheck", "use", "io", "reconnect", "close"} =>
         conn # None /\ open \subseteq {conn}
    /\ pc["sender"] = "clear" => open = {}
    /\ pc["sender"] = "redial" => conn = None /\ open = {}
    /\ pc["sender"] = "assign" => open \subseteq {hand["sender"]}
    /\ pc["sender"] # "read"

ConnInv ==
  /\ TypeOK
  /\ Numbered
  /\ FreshSocket
  /\ SenderOwnsConn
  /\ OneSocket
  /\ RetriesUntilCancelled
  /\ ClosedIsReplaced
=============================================================================
