---------------------------- MODULE TestControl ----------------------------
(***************************************************************************)
(* The life of the tests one NetworkTester runs (pkg/testing/tester.go):   *)
(* StartWithConfig, the goroutine runControlledTest that starts a test and *)
(* waits for it, the goroutines a test consists of, the echo server it     *)
(* owns, the duration timer, Stop / StopAndFinalize called by the timer,   *)
(* by HTTP requests and by the signal handler, and the end of the process. *)
(*                                                                         *)
(* A test is known by the context reconfigure makes for it: test 0 is the  *)
(* context of NewNetworkTester, test e the e-th accepted start.  The field *)
(* nt.ctx (with nt.cancel, nt.config and nt.connections) is `epoch': every *)
(* goroutine that reads the field late reads whatever epoch is current.    *)
(***************************************************************************)
EXTENDS Naturals, FiniteSets

CONSTANTS
  MaxTests,    \* bound: how many starts are accepted
  Requests,    \* concurrent API requests (or library callers)
  Main,        \* the command's main goroutine, which gets the signals
  Mode,        \* "run" (cmd_run.go), "server" (cmd_server.go) or "library"
  ApiPorts,    \* whether an API port is configured: a set of Booleans
  Timed,       \* TRUE when the tests have a positive Duration
  Watchers     \* the goroutines a test has beside its server: "conn" for the
               \* Connection.Start ones, "reporter" for the two reporters

ASSUME ConstantsOK ==
  /\ MaxTests \in Nat \ {0}
  /\ Main \notin Requests
  /\ Requests \cap Nat = {} /\ Main \notin Nat
  /\ Mode \in {"run", "server", "library"}
  /\ ApiPorts \subseteq BOOLEAN
  /\ Timed \in BOOLEAN
  /\ Watchers \subseteq {"conn", "reporter"}

Tests   == 1..MaxTests
Epochs  == 0..MaxTests
Kinds   == {"server"} \cup Watchers      \* the goroutines of a test
Callers == Requests \cup {Main}
Actors  == Callers \cup Tests              \* test e, as an actor, is its AfterFunc timer
None    == 0                               \* a nil *network.Server

VARIABLES
  epoch,          \* nt.ctx: the context made by the latest reconfigure
  cancelled,      \* the contexts whose cancel function has been called
  isRunning,      \* nt.isRunning
  controlMu,      \* nt.controlMu is held across steps (by StartWithConfig)
  lastError,      \* nt.lastError: the test whose Start failed, 0 for ""
  doneClosed,     \* nt.testDone is closed
  networkServer,  \* nt.networkServer: the server made by that test, or None
  opened,         \* servers whose Start has opened their socket
  listening,      \* servers whose socket is open now
  serves,         \* serves[e]: the server that the Run goroutine of test e runs
  accepted,       \* the Run goroutines between an Accept and its wg.Add
  handlers,       \* the Run goroutines that have a live connection handler
  runner,         \* runner[e]: where runControlledTest of test e is
  work,           \* work[e][k]: the life of the goroutine of kind k of test e
  bound,          \* bound[e][k]: the context that goroutine took from nt.ctx
  pc,             \* where each caller and each timer is
  held,           \* held[a]: the server whose Stop actor a is inside
  target,         \* target[a]: the context that the Stop actor a is in cancelled
  reported,       \* the tests whose state a final report has described
  process,        \* "up", or how the process ended
  apiServer       \* nt.apiServer: "off" without a port, "unstarted", "serving"
                  \* with its goroutine in nt.wg, or "ended"

control == <<epoch, cancelled, isRunning, controlMu, lastError, doneClosed>>
sockets == <<networkServer, opened, listening, serves, accepted, handlers>>
tests   == <<runner, work, bound>>
actors  == <<pc, held, target, reported>>
vars    == <<control, sockets, tests, actors, process, apiServer>>

ActorSteps  == {"idle", "previous", "closeOld", "drainOld", "reconfigure",
                "cancel", "unmark", "checkServer", "stopServer", "drain",
                "clear", "finalize", "leave", "off", "armed", "over"}
RunnerSteps == {"none", "new", "listen", "spawn", "fail", "wait", "finish",
                "close", "done"}
WorkSteps   == {"none", "spawned", "running", "exited"}
Endings     == {"up", "exited", "nilServer", "closedTwice"}
ApiSteps    == {"off", "unstarted", "serving", "ended"}

TypeOK ==
  /\ epoch \in Epochs
  /\ cancelled \subseteq Epochs
  /\ isRunning \in BOOLEAN
  /\ controlMu \in BOOLEAN
  /\ lastError \in Epochs
  /\ doneClosed \in BOOLEAN
  /\ networkServer \in Epochs
  /\ opened \subseteq Tests
  /\ listening \subseteq Tests
  /\ serves \in [Tests -> Epochs]
  /\ accepted \subseteq Tests
  /\ handlers \subseteq Tests
  /\ runner \in [Tests -> RunnerSteps]
  /\ work \in [Tests -> [Kinds -> WorkSteps]]
  /\ bound \in [Tests -> [Kinds -> Epochs]]
  /\ pc \in [Actors -> ActorSteps]
  /\ held \in [Actors -> Epochs]
  /\ target \in [Actors -> Epochs]
  /\ reported \subseteq Epochs
  /\ process \in Endings
  /\ apiServer \in ApiSteps

Init ==
  /\ epoch = 0 /\ cancelled = {}
  /\ isRunning = FALSE /\ controlMu = FALSE /\ lastError = 0 /\ doneClosed = FALSE
  /\ networkServer = None /\ opened = {} /\ listening = {}
  /\ serves = [e \in Tests |-> None] /\ accepted = {} /\ handlers = {}
  /\ runner = [e \in Tests |-> "none"]
  /\ work = [e \in Tests |-> [k \in Kinds |-> "none"]]
  /\ bound = [e \in Tests |-> [k \in Kinds |-> 0]]
  /\ pc = [a \in Actors |-> IF a \in Tests THEN "off" ELSE "idle"]
  /\ held = [a \in Actors |-> None]
  /\ target = [a \in Actors |-> 0]
  /\ reported = {}
  /\ process = "up"
  /\ \E configured \in ApiPorts :
       apiServer \in IF ~configured THEN {"off"}
                     ELSE IF Mode = "server" THEN {"serving", "ended"} ELSE {"unstarted"}

-----------------------------------------------------------------------------
(* Helpers. *)

At(a, step)         == process = "up" /\ pc[a] = step
RunnerAt(e, step)   == process = "up" /\ runner[e] = step
WorkAt(e, k, step)  == process = "up" /\ work[e][k] = step

Goto(a, step)       == pc' = [pc EXCEPT ![a] = step]
RunnerGoto(e, step) == runner' = [runner EXCEPT ![e] = step]

(* A panic ends the process: nothing else happens in the step. *)
Panic(why) ==
  /\ process' = why
  /\ UNCHANGED <<control, sockets, tests, actors, apiServer>>

(* Mutants of CtxDone: any context up to the one taken counts; the context *)
(* from before reconfigure is kept.                                        *)
CtxDoneEarlier(e, k) == \E x \in cancelled : x <= bound[e][k]
CtxDoneBefore(e, k)  == e - 1 \in cancelled

(* <-nt.ctx.Done() is ready in goroutine k of test e. *)
CtxDone(e, k) == bound[e][k] \in cancelled

(* Mutants of Counted: no wg.Add for the connections; none for the server. *)
CountedNotConn(w, e, k)   == k # "conn" /\ w[e][k] \in {"spawned", "running"}
CountedNotServer(w, e, k) == k # "server" /\ w[e][k] \in {"spawned", "running"}

(* The goroutine k of test e has been added to nt.wg and is not done. *)
Counted(w, e, k) == w[e][k] \in {"spawned", "running"}

(* nt.wg has reached zero.  The ListenAndServe goroutine counts as well.   *)
Drained(w, api) ==
  api # "serving" /\ \A e \in Tests, k \in Kinds : ~Counted(w, e, k)

(* The runners inside wg.Wait go on when the last goroutine is done. *)
Woken(w, api) ==
  [e \in Tests |-> IF runner[e] = "wait" /\ Drained(w, api) THEN "finish" ELSE runner[e]]

(* wg.Done: the goroutine ends. *)
WorkDone(e, k) ==
  /\ work' = [work EXCEPT ![e][k] = "exited"]
  /\ bound' = [bound EXCEPT ![e][k] = 0]
  /\ runner' = Woken(work', apiServer)

(* No connection handler of server s is alive: Server.Stop's wg.Wait returns. *)
NoHandlers(s) == \A e \in handlers : serves[e] # s

-----------------------------------------------------------------------------
(* StartWithConfig. *)

(* Main starts the first test of `gosmesh run'; API requests, in any mode, *)
(* and library callers start the others.                                   *)
MayStart(c) ==
  \/ Mode = "run" /\ c = Main /\ epoch = 0
  \/ c \in Requests /\ (Mode = "library" \/ apiServer = "serving")

(* Take controlMu, refuse when a test is running; the lock stays held.     *)
StartWithConfig(c) ==
  /\ At(c, "idle")
  /\ MayStart(c)
  /\ epoch < MaxTests
  /\ ~controlMu
  /\ ~isRunning
  /\ controlMu' = TRUE
  /\ Goto(c, "previous")
  /\ UNCHANGED <<epoch, cancelled, isRunning, lastError, doneClosed, sockets,
                 tests, held, target, reported, process, apiServer>>

(* The wait for the previous test's goroutines ends, because they are done *)
(* or because it lasted a second; reconfigure then looks for an old server *)
(* to stop.                                                                *)
PreviousWaited(c) ==
  /\ At(c, "previous")
  /\ Goto(c, IF networkServer = None THEN "reconfigure" ELSE "closeOld")
  /\ UNCHANGED <<control, sockets, tests, held, target, reported, process, apiServer>>

(* Server.Stop closes the socket and then waits for the handlers. *)
CloseServer(a, next) ==
  /\ listening' = listening \ {networkServer}
  /\ held' = [held EXCEPT ![a] = networkServer]
  /\ Goto(a, next)
  /\ UNCHANGED <<control, networkServer, opened, serves, accepted, handlers, tests,
                 target, reported, process, apiServer>>

CloseOld(c) ==
  /\ At(c, "closeOld")
  /\ \/ networkServer = None /\ Panic("nilServer")
     \/ networkServer # None /\ CloseServer(c, "drainOld")

(* The rest of reconfigure and of StartWithConfig: a new context, the      *)
(* running flag, the runControlledTest goroutine, and controlMu released.  *)
Reconfigure(c) ==
  /\ \/ At(c, "reconfigure")
     \/ At(c, "drainOld") /\ NoHandlers(held[c])
  /\ networkServer' = None
  /\ epoch' = epoch + 1
  /\ isRunning' = TRUE
  /\ lastError' = 0
  /\ controlMu' = FALSE
  /\ RunnerGoto(epoch + 1, "new")
  /\ held' = [held EXCEPT ![c] = None]
  /\ Goto(c, "idle")
  /\ UNCHANGED <<cancelled, doneClosed, opened, listening, serves, accepted, handlers,
                 work, bound, target, reported, process, apiServer>>

-----------------------------------------------------------------------------
(* runControlledTest and Start. *)

(* StartHTTPServer, the first time that Start finds an API port.  Its      *)
(* ListenAndServe returns at once when the port is taken.                  *)
ApiServerStarts ==
  apiServer' \in IF apiServer = "unstarted" THEN {"serving", "ended"} ELSE {apiServer}

(* Mutant of NewServer: the server is not published before it is started.  *)
NewServerUnpublished(e) ==
  /\ RunnerAt(e, "new")
  /\ ApiServerStarts
  /\ RunnerGoto(e, "listen")
  /\ UNCHANGED <<control, sockets, work, bound, actors, process>>

(* Start makes a server and publishes it in nt.networkServer. *)
NewServer(e) ==
  /\ RunnerAt(e, "new")
  /\ ApiServerStarts
  /\ networkServer' = e
  /\ RunnerGoto(e, "listen")
  /\ UNCHANGED <<control, opened, listening, serves, accepted, handlers, work, bound,
                 actors, process>>

(* nt.networkServer.Start(), on whatever the field holds by now.  The port *)
(* is the same for every test, so Listen fails while a socket is open; it  *)
(* may fail for reasons of its own too.                                    *)
ServerStart(e) ==
  /\ RunnerAt(e, "listen")
  /\ \/ networkServer = None /\ Panic("nilServer")
     \/ /\ networkServer # None
        /\ \/ /\ listening = {}
              /\ listening' = {networkServer}
              /\ opened' = opened \cup {networkServer}
              /\ RunnerGoto(e, "spawn")
           \/ /\ RunnerGoto(e, "fail")
              /\ UNCHANGED <<listening, opened>>
        /\ UNCHANGED <<control, networkServer, serves, accepted, handlers, work,
                       bound, actors, process, apiServer>>

(* The rest of Start: the server, connection and reporter goroutines are   *)
(* added to nt.wg and spawned, and the duration timer is armed.            *)
Spawn(e) ==
  /\ RunnerAt(e, "spawn")
  /\ work' = [work EXCEPT ![e] = [k \in Kinds |-> "spawned"]]
  /\ pc' = [pc EXCEPT ![e] = IF Timed THEN "armed" ELSE "off"]
  /\ RunnerGoto(e, "wait")
  /\ UNCHANGED <<control, sockets, bound, held, target, reported, process, apiServer>>

(* Mutants of StartFailed: it closes testDone too; it blames the next test. *)
StartFailedCloses(e) ==
  /\ RunnerAt(e, "fail")
  /\ ~controlMu
  /\ lastError' = e
  /\ doneClosed' = TRUE
  /\ RunnerGoto(e, "finish")
  /\ UNCHANGED <<epoch, cancelled, isRunning, controlMu, sockets, work, bound, actors,
                 process, apiServer>>

StartFailedNext(e) ==
  /\ RunnerAt(e, "fail")
  /\ ~controlMu
  /\ lastError' = epoch + 1
  /\ RunnerGoto(e, "finish")
  /\ UNCHANGED <<epoch, cancelled, isRunning, controlMu, doneClosed, sockets, work,
                 bound, actors, process, apiServer>>

(* Start returned an error: it is recorded under controlMu. *)
StartFailed(e) ==
  /\ RunnerAt(e, "fail")
  /\ ~controlMu
  /\ lastError' = e
  /\ RunnerGoto(e, "finish")
  /\ UNCHANGED <<epoch, cancelled, isRunning, controlMu, doneClosed, sockets, work,
                 bound, actors, process, apiServer>>

(* Mutant of Finish: the flag is left set. *)
FinishKeepsFlag(e) ==
  /\ RunnerAt(e, "finish")
  /\ ~controlMu
  /\ RunnerGoto(e, "close")
  /\ UNCHANGED <<control, sockets, work, bound, actors, process, apiServer>>

(* The deferred function clears the running flag under controlMu ...       *)
Finish(e) ==
  /\ RunnerAt(e, "finish")
  /\ ~controlMu
  /\ isRunning' = FALSE
  /\ RunnerGoto(e, "close")
  /\ UNCHANGED <<epoch, cancelled, controlMu, lastError, doneClosed, sockets, work,
                 bound, actors, process, apiServer>>

(* ... and closes testDone, which NewNetworkTester made once.              *)
CloseTestDone(e) ==
  /\ RunnerAt(e, "close")
  /\ \/ doneClosed /\ Panic("closedTwice")
     \/ /\ ~doneClosed
        /\ doneClosed' = TRUE
        /\ RunnerGoto(e, "done")
        /\ UNCHANGED <<epoch, cancelled, isRunning, controlMu, lastError, sockets,
                       work, bound, actors, process, apiServer>>

-----------------------------------------------------------------------------
(* The goroutines of a test. *)

(* The server goroutine first runs: it takes both fields as they are now.  *)
ServerBegin(e) ==
  /\ WorkAt(e, "server", "spawned")
  /\ \/ networkServer \notin opened /\ Panic("nilServer")
     \/ /\ networkServer \in opened
        /\ serves' = [serves EXCEPT ![e] = networkServer]
        /\ bound' = [bound EXCEPT ![e]["server"] = epoch]
        /\ work' = [work EXCEPT ![e]["server"] = "running"]
        /\ UNCHANGED <<control, networkServer, opened, listening, accepted, handlers,
                       runner, actors, process, apiServer>>

(* A connection or reporter goroutine first runs, and reads nt.ctx. *)
WorkBegin(e, k) ==
  /\ WorkAt(e, k, "spawned")
  /\ bound' = [bound EXCEPT ![e][k] = epoch]
  /\ work' = [work EXCEPT ![e][k] = "running"]
  /\ UNCHANGED <<control, sockets, runner, actors, process, apiServer>>

(* A tick makes a reporter evaluate nt.ctx.Done() again. *)
ReporterTick(e) ==
  /\ "reporter" \in Watchers
  /\ WorkAt(e, "reporter", "running")
  /\ bound' = [bound EXCEPT ![e]["reporter"] = epoch]
  /\ UNCHANGED <<control, sockets, runner, work, actors, process, apiServer>>

(* Connection.Start or the reporter sees its context done and returns. *)
WorkExit(e, k) ==
  /\ WorkAt(e, k, "running")
  /\ CtxDone(e, k)
  /\ WorkDone(e, k)
  /\ UNCHANGED <<control, sockets, actors, process, apiServer>>

(* Connection.Start may also return an error at once. *)
ConnError(e) ==
  /\ "conn" \in Watchers
  /\ WorkAt(e, "conn", "running")
  /\ WorkDone(e, "conn")
  /\ UNCHANGED <<control, sockets, actors, process, apiServer>>

(* The accept loop takes a connection (bound: one at a time for a server)  *)
Accept(e) ==
  /\ WorkAt(e, "server", "running")
  /\ serves[e] \in listening
  /\ e \notin accepted \cup handlers
  /\ accepted' = accepted \cup {e}
  /\ UNCHANGED <<control, networkServer, opened, listening, serves, handlers, tests,
                 actors, process, apiServer>>

(* ... and adds its handler to the server's wait group: a Stop that waits  *)
(* on it has seen the handler or has not.                                  *)
Handle(e) ==
  /\ WorkAt(e, "server", "running")
  /\ e \in accepted
  /\ accepted' = accepted \ {e}
  /\ handlers' = handlers \cup {e}
  /\ UNCHANGED <<control, networkServer, opened, listening, serves, tests, actors,
                 process, apiServer>>

(* A handler returns when its context is done, or when its peer goes away. *)
HandlerCancelled(e) ==
  /\ process = "up"
  /\ e \in handlers
  /\ CtxDone(e, "server")
  /\ handlers' = handlers \ {e}
  /\ UNCHANGED <<control, networkServer, opened, listening, serves, accepted, tests,
                 actors, process, apiServer>>

PeerGone(e) ==
  /\ process = "up"
  /\ e \in handlers
  /\ handlers' = handlers \ {e}
  /\ UNCHANGED <<control, networkServer, opened, listening, serves, accepted, tests,
                 actors, process, apiServer>>

(* The goroutine that closes the listener when the context is done. *)
ListenerWatch(e) ==
  /\ WorkAt(e, "server", "running")
  /\ CtxDone(e, "server")
  /\ serves[e] \in listening
  /\ listening' = listening \ {serves[e]}
  /\ UNCHANGED <<control, networkServer, opened, serves, accepted, handlers, tests,
                 actors, process, apiServer>>

(* Accept fails on the closed listener, the context is done and the        *)
(* handlers have ended: Run returns.                                       *)
ServerExit(e) ==
  /\ WorkAt(e, "server", "running")
  /\ CtxDone(e, "server")
  /\ serves[e] \notin listening
  /\ e \notin accepted
  /\ NoHandlers(serves[e])
  /\ WorkDone(e, "server")
  /\ serves' = [serves EXCEPT ![e] = None]
  /\ UNCHANGED <<control, networkServer, opened, listening, accepted, handlers,
                 actors, process, apiServer>>

-----------------------------------------------------------------------------
(* Stop and StopAndFinalize. *)

(* POST /api/stop: the running flag is checked under controlMu, which is   *)
(* released before StopAndFinalize is called.                              *)
HandleStop(r) ==
  /\ apiServer = "serving"
  /\ r \in Requests
  /\ At(r, "idle")
  /\ ~controlMu
  /\ isRunning
  /\ Goto(r, "cancel")
  /\ UNCHANGED <<control, sockets, tests, held, target, reported, process, apiServer>>

(* A library caller calls StopAndFinalize, or main gets a signal. *)
CallStop(c) ==
  /\ At(c, "idle")
  /\ \/ Mode = "library" /\ c \in Requests
     \/ Mode = "run" /\ c = Main /\ epoch > 0
     \/ Mode = "server" /\ c = Main
  /\ Goto(c, "cancel")
  /\ UNCHANGED <<control, sockets, tests, held, target, reported, process, apiServer>>

(* The AfterFunc timer of test e fires. *)
TimerFires(e) ==
  /\ At(e, "armed")
  /\ Goto(e, "cancel")
  /\ UNCHANGED <<control, sockets, tests, held, target, reported, process, apiServer>>

(* nt.cancel(): the cancel function of the current context. *)
Cancel(a) ==
  /\ At(a, "cancel")
  /\ cancelled' = cancelled \cup {epoch}
  /\ target' = [target EXCEPT ![a] = epoch]
  /\ Goto(a, "unmark")
  /\ UNCHANGED <<epoch, isRunning, controlMu, lastError, doneClosed, sockets, tests,
                 held, reported, process, apiServer>>

Unmark(a) ==
  /\ At(a, "unmark")
  /\ ~controlMu
  /\ isRunning' = FALSE
  /\ Goto(a, "checkServer")
  /\ UNCHANGED <<epoch, cancelled, controlMu, lastError, doneClosed, sockets, tests,
                 held, target, reported, process, apiServer>>

(* The test for a nil server, and its use, are two steps. *)
CheckServer(a) ==
  /\ At(a, "checkServer")
  /\ Goto(a, IF networkServer = None THEN "finalize" ELSE "stopServer")
  /\ UNCHANGED <<control, sockets, tests, held, target, reported, process, apiServer>>

StopServer(a) ==
  /\ At(a, "stopServer")
  /\ \/ networkServer = None /\ Panic("nilServer")
     \/ networkServer # None /\ CloseServer(a, "drain")

ClearServer(a) ==
  /\ At(a, "drain")
  /\ NoHandlers(held[a])
  /\ networkServer' = None
  /\ held' = [held EXCEPT ![a] = None]
  /\ Goto(a, "finalize")
  /\ UNCHANGED <<control, opened, listening, serves, accepted, handlers, tests,
                 target, reported, process, apiServer>>

(* Where an actor goes once its Stop is over. *)
AfterStop(a) ==
  IF a \in Tests THEN "over" ELSE IF a = Main THEN "leave" ELSE "idle"

(* One second later the final report is made from the fields as they are.  *)
(* Main of `gosmesh server' calls Stop alone, with no report.              *)
Finalize(a) ==
  /\ At(a, "finalize")
  /\ reported' = IF Mode = "server" /\ a = Main
                THEN reported ELSE reported \cup {epoch}
  /\ target' = [target EXCEPT ![a] = 0]
  /\ Goto(a, AfterStop(a))
  /\ UNCHANGED <<control, sockets, tests, held, process, apiServer>>

(* Mutant of MainReturns: after a signal main waits for testDone alone. *)
MainReturnsOnDone ==
  /\ \/ Mode = "server" /\ At(Main, "leave")
     \/ Mode = "run" /\ (At(Main, "leave") \/ At(Main, "idle")) /\ doneClosed
  /\ process' = "exited"
  /\ UNCHANGED <<control, sockets, tests, actors, apiServer>>

(* main returns: in `gosmesh run' when testDone is closed, or after its    *)
(* own StopAndFinalize (and at most two more seconds); in `gosmesh server' *)
(* after Stop.                                                             *)
MainReturns ==
  /\ \/ At(Main, "leave")
     \/ Mode = "run" /\ At(Main, "idle") /\ doneClosed
  /\ process' = "exited"
  /\ UNCHANGED <<control, sockets, tests, actors, apiServer>>

(* StopHTTPServer, by main of `gosmesh server' after its Stop or by a      *)
(* library caller: ListenAndServe returns and its goroutine leaves nt.wg.  *)
(* `gosmesh run' does not call it.                                         *)
ApiServerEnds ==
  /\ process = "up"
  /\ Mode = "library" \/ (Mode = "server" /\ At(Main, "leave"))
  /\ apiServer = "serving"
  /\ apiServer' = "ended"
  /\ runner' = Woken(work, "ended")
  /\ UNCHANGED <<control, sockets, work, bound, actors, process>>

-----------------------------------------------------------------------------
StopStep(a) ==
  \/ Cancel(a)
  \/ Unmark(a)
  \/ CheckServer(a)
  \/ StopServer(a)
  \/ ClearServer(a)
  \/ Finalize(a)

StartStep(c) ==
  \/ PreviousWaited(c)
  \/ CloseOld(c)
  \/ Reconfigure(c)

RunnerStep(e) ==
  \/ NewServer(e)
  \/ ServerStart(e)
  \/ Spawn(e)
  \/ StartFailed(e)
  \/ Finish(e)
  \/ CloseTestDone(e)

WorkStep(e) ==
  \/ ServerBegin(e)
  \/ \E k \in Watchers : WorkBegin(e, k)
  \/ \E k \in Watchers : WorkExit(e, k)
  \/ Handle(e)
  \/ HandlerCancelled(e)
  \/ ListenerWatch(e)
  \/ ServerExit(e)

EnvironmentStep ==
  \/ \E c \in Callers : StartWithConfig(c)
  \/ \E c \in Callers : CallStop(c)
  \/ \E r \in Requests : HandleStop(r)
  \/ \E e \in Tests : ConnError(e)
  \/ \E e \in Tests : Accept(e)
  \/ \E e \in Tests : PeerGone(e)
  \/ \E e \in Tests : ReporterTick(e)
  \/ ApiServerEnds

Next ==
  \/ EnvironmentStep
  \/ \E e \in Tests : TimerFires(e)
  \/ \E e \in Tests : RunnerStep(e)
  \/ \E e \in Tests : WorkStep(e)
  \/ \E c \in Callers : StartStep(c)
  \/ \E a \in Actors : StopStep(a)
  \/ MainReturns

Spec == Init /\ [][Next]_vars

(* What the Go scheduler and the clock promise: a goroutine that can run   *)
(* does, a timer fires, a done context is noticed.  Nothing is promised of *)
(* the callers, the peers or the ticks; main of `gosmesh run' does start   *)
(* its test.                                                               *)
Fairness ==
  /\ Mode = "run" => WF_vars(StartWithConfig(Main))
  /\ WF_vars(MainReturns)
  /\ \A c \in Callers : WF_vars(StartStep(c))
  /\ \A a \in Actors : WF_vars(StopStep(a))
  /\ \A e \in Tests :
       /\ WF_vars(TimerFires(e))
       /\ WF_vars(RunnerStep(e))
       /\ WF_vars(ServerBegin(e))
       /\ WF_vars(ListenerWatch(e))
       /\ WF_vars(Handle(e))
       /\ WF_vars(HandlerCancelled(e))
       /\ WF_vars(ServerExit(e))
       /\ \A k \in Watchers : WF_vars(WorkBegin(e, k)) /\ WF_vars(WorkExit(e, k))

FairSpec == Spec /\ Fairness

-----------------------------------------------------------------------------
(* Safety. *)

(* The running flag always belongs to a live runControlledTest: it is the  *)
(* one of the latest accepted start, and it has not cleared the flag yet.  *)
(* Were it not so, the tester would answer "already running" for ever.     *)
FlagHasRunner ==
  isRunning => /\ epoch # 0
               /\ runner[epoch] \in RunnerSteps \ {"none", "close", "done"}

(* runControlledTest goes past Wait, clears the flag and closes testDone   *)
(* only when every goroutine its Start spawned has returned: the server,   *)
(* the connections and the reporters.                                      *)
RunnerOutlivesWork ==
  \A e \in Tests : runner[e] \in {"finish", "close", "done"} =>
    \A k \in Kinds : work[e][k] \in {"none", "exited"}

(* The echo server and the reporters of a test do not end by themselves:   *)
(* when one has, a Stop has cancelled the context of that test or, because *)
(* these goroutines read nt.ctx late, of a later one.                      *)
NoSilentEnd ==
  \A e \in Tests : \A k \in Kinds \ {"conn"} :
    work[e][k] = "exited" => \E x \in cancelled : x >= e

(* When testDone of a single test is closed, that test is over: its server *)
(* did not start, or a Stop cancelled it, its port is free again and no    *)
(* handler runs, also none of a connection that was accepted while a Stop  *)
(* was already waiting for the handlers.                                   *)
DoneMeansOver ==
  doneClosed /\ epoch = 1 =>
    /\ listening = {} /\ accepted = {} /\ handlers = {}
    /\ ~isRunning
    /\ lastError = 1 \/ 1 \in cancelled

(* A tester that ran one test has closed testDone at most once: the panic  *)
(* of a second close needs a second test.                                  *)
SingleUseClosesOnce == process = "closedTwice" => epoch >= 2

(* The nil server a panic is about was cleared by a Stop or replaced while *)
(* one was under way: starting tests alone never gets there.               *)
NilServerNeedsStop == process = "nilServer" => cancelled # {}

-----------------------------------------------------------------------------
(* The inductive strengthening of FlagHasRunner, RunnerOutlivesWork and    *)
(* NoSilentEnd.                                                            *)

(* controlMu is what a caller inside StartWithConfig holds: there is one   *)
(* such caller at most, and the bound it checked still holds.              *)
StartSteps == {"previous", "closeOld", "drainOld", "reconfigure"}

StartExclusive ==
  \A a \in Actors : pc[a] \in StartSteps =>
    /\ controlMu
    /\ epoch < MaxTests
    /\ \A b \in Actors : pc[b] \in StartSteps => b = a

(* Each accepted start has one runControlledTest, and goroutines are       *)
(* spawned by a Start that has returned.                                   *)
RunnersStarted ==
  \A e \in Tests :
    /\ runner[e] = "none" <=> e > epoch
    /\ \A k \in Kinds :
         work[e][k] # "none" => runner[e] \in {"wait", "finish", "close", "done"}

(* A goroutine reads nt.ctx after its test was accepted: it never watches  *)
(* the context of an earlier test.                                         *)
BoundAhead ==
  \A e \in Tests : \A k \in Kinds :
    work[e][k] = "running" => bound[e][k] >= e

LifeInv ==
  /\ RunnersStarted
  /\ BoundAhead
  /\ RunnerOutlivesWork
  /\ FlagHasRunner
  /\ NoSilentEnd

-----------------------------------------------------------------------------
(* Liveness. *)

(* All that is left of the test is the goroutine of the API server: the    *)
(* test was stopped and reported, every other goroutine has returned and   *)
(* the port is free, but runControlledTest waits for it as well.           *)
OnlyApiServerLeft ==
  /\ apiServer = "serving"
  /\ runner[1] = "wait"
  /\ 1 \in reported
  /\ listening = {}
  /\ \A k \in Kinds : ~Counted(work, 1, k)

(* `gosmesh run' with a duration comes to an end, whenever signals and     *)
(* requests arrive; but with -api-server-port it may instead stay for ever *)
(* after its test, waiting for the API server that nothing stops.          *)
RunEnds == <>(process # "up") \/ <>[]OnlyApiServerLeft

(* A signal ends `gosmesh run', with an API server or without: whatever    *)
(* the test and the other stops are doing, main's own Stop comes back, and *)
(* then main waits for testDone no longer than two seconds.                *)
SignalEndsRun == At(Main, "cancel") ~> process # "up"

-----------------------------------------------------------------------------
(* What the comments say, and the code does not do. *)

(* tester.go: testDone "signals when the controlled test has completed     *)
(* (including report generation)".  A test that was started and stopped    *)
(* has its report when testDone is closed.                                 *)
ReportBeforeDone ==
  doneClosed /\ lastError = 0 => epoch \in reported

(* tester.go: "Schedule test end": the timer of a test ends that test.  No *)
(* timer cancels the context of a later one.                               *)
TimerStopsOwnTest == \A e \in Tests : target[e] \in {0, e}

(* tester.go: reconfigure "allows reusing the same NetworkTester instance  *)
(* for multiple tests": completing the tests one after the other never     *)
(* closes a closed channel.                                                *)
ReusableTester == process # "closedTwice"
=============================================================================
