-------------------------- MODULE TestControlProofs --------------------------
(***************************************************************************)
(* What holds of the life of the tests for any number of tests, callers    *)
(* and goroutine kinds, in every mode: the running flag has a live runner, *)
(* testDone closes after the work is over and, of a single test, once and  *)
(* when its server is down; the server and the reporters of a test end     *)
(* only after a Stop, and only where a Stop was under way is the server    *)
(* found nil.                                                              *)
(***************************************************************************)
EXTENDS TestControl, TLAPS

(* The sets the variables range over. *)
LEMMA ConstantFacts ==
  /\ Epochs = Tests \cup {0} /\ 0 \in Epochs /\ None = 0 /\ Tests \subseteq Epochs
  /\ Tests \subseteq Nat /\ Epochs \subseteq Nat
  /\ Callers \subseteq Actors /\ Tests \subseteq Actors /\ Requests \subseteq Callers
  /\ Watchers \subseteq Kinds /\ "server" \in Kinds
BY ConstantsOK DEF Tests, Epochs, None, Callers, Actors, Kinds

(* A start that has not reached MaxTests yet has room for the next test. *)
LEMMA NextEpoch ==
  ASSUME epoch \in Epochs, epoch < MaxTests
  PROVE  epoch + 1 \in Tests
BY ConstantsOK DEF Tests, Epochs

(* The runners that are woken were waiting, for work that has all ended. *)
LEMMA WokenRunners ==
  ASSUME TypeOK, NEW w, NEW api, runner' = Woken(w, api)
  PROVE  /\ runner' \in [Tests -> RunnerSteps]
         /\ \A f \in Tests : runner'[f] # runner[f] =>
              runner[f] = "wait" /\ runner'[f] = "finish" /\ Drained(w, api)
<1>1. \/ /\ ~Drained(w, api)
         /\ runner' = [f \in Tests |-> runner[f]]
      \/ /\ Drained(w, api)
         /\ runner' = [f \in Tests |-> IF runner[f] = "wait" THEN "finish" ELSE runner[f]]
  BY Zenon DEF Woken
<1>2. CASE runner' = [f \in Tests |-> runner[f]]
  BY <1>2 DEF TypeOK
<1>3. CASE /\ Drained(w, api)
           /\ runner' = [f \in Tests |-> IF runner[f] = "wait" THEN "finish" ELSE runner[f]]
  <2> DEFINE D == Drained(w, api)
  <2>1. D
    BY <1>3
  <2> HIDE DEF D
  <2>2. /\ runner' \in [Tests -> RunnerSteps]
        /\ \A f \in Tests : runner'[f] # runner[f] =>
             runner[f] = "wait" /\ runner'[f] = "finish" /\ D
    BY <1>3, <2>1 DEF TypeOK, RunnerSteps
  <2> QED
    BY <2>2 DEF D
<1> QED
  BY <1>1, <1>2, <1>3, Zenon

(* A goroutine that ends changes its own state, and wakes waiting runners. *)
LEMMA WorkDoneFacts ==
  ASSUME TypeOK, NEW e \in Tests, NEW k \in Kinds, WorkDone(e, k)
  PROVE  /\ \A f \in Tests : runner'[f] # runner[f] =>
              runner[f] = "wait" /\ runner'[f] = "finish"
         /\ \A f \in Tests, j \in Kinds :
              /\ work'[f][j] = IF f = e /\ j = k THEN "exited" ELSE work[f][j]
              /\ bound'[f][j] = IF f = e /\ j = k THEN 0 ELSE bound[f][j]
<1>1. \A f \in Tests : runner'[f] # runner[f] =>
        runner[f] = "wait" /\ runner'[f] = "finish"
  BY WokenRunners DEF WorkDone
<1>2. \A f \in Tests, j \in Kinds :
        /\ work'[f][j] = IF f = e /\ j = k THEN "exited" ELSE work[f][j]
        /\ bound'[f][j] = IF f = e /\ j = k THEN 0 ELSE bound[f][j]
  BY DEF WorkDone, TypeOK
<1> QED
  BY <1>1, <1>2

(* Every variable has its type, and StartWithConfig excludes itself: the   *)
(* bound on the starts and the typing of epoch rest on that.               *)
LEMMA TypeAndLock == Spec => [](TypeOK /\ StartExclusive)
<1> DEFINE Inv == TypeOK /\ StartExclusive
<1>1. Init => Inv
  <2> SUFFICES ASSUME Init PROVE Inv
    OBVIOUS
  <2>1. pc \in [Actors -> ActorSteps] /\ \A a \in Actors : pc[a] \in {"off", "idle"}
    BY DEF Init, ActorSteps
  <2>2. TypeOK
    BY <2>1, ConstantFacts DEF Init, TypeOK, RunnerSteps, WorkSteps, Endings, ApiSteps
  <2> QED
    BY <2>1, <2>2 DEF StartExclusive, StartSteps
<1>2. Inv /\ [Next]_vars => Inv'
  <2> SUFFICES ASSUME Inv, [Next]_vars PROVE Inv'
    OBVIOUS
  <2> USE ConstantFacts
      DEF TypeOK, StartExclusive, StartSteps, ActorSteps, RunnerSteps, WorkSteps, Endings, ApiSteps,
          At, RunnerAt, WorkAt, Goto, RunnerGoto, control, sockets, tests, actors
  <2>1. ASSUME NEW c \in Callers, StartWithConfig(c) PROVE Inv'
    BY <2>1 DEF StartWithConfig
  <2>2. ASSUME NEW c \in Callers, PreviousWaited(c) PROVE Inv'
    BY <2>2 DEF PreviousWaited
  <2>3. ASSUME NEW c \in Callers, CloseOld(c) PROVE Inv'
    <3>1. CASE Panic("nilServer")
      BY <3>1 DEF Panic
    <3>2. CASE CloseServer(c, "drainOld")
      BY <2>3, <3>2 DEF CloseOld, CloseServer
    <3> QED
      BY <2>3, <3>1, <3>2 DEF CloseOld
  <2>4. ASSUME NEW c \in Callers, Reconfigure(c) PROVE Inv'
    <3>1. epoch + 1 \in Tests /\ epoch + 1 \in Epochs
      BY <2>4, NextEpoch DEF Reconfigure
    <3>2. /\ pc[c] \in StartSteps
          /\ pc' = [pc EXCEPT ![c] = "idle"]
      BY <2>4 DEF Reconfigure
    <3>3. StartExclusive'
      BY <3>2
    <3>4. TypeOK'
      <4>1. /\ networkServer' = None /\ epoch' = epoch + 1 /\ isRunning' = TRUE
            /\ lastError' = 0 /\ controlMu' = FALSE
            /\ runner' = [runner EXCEPT ![epoch + 1] = "new"]
            /\ held' = [held EXCEPT ![c] = None]
            /\ UNCHANGED <<cancelled, doneClosed, opened, listening, serves, accepted, handlers,
                           work, bound, target, reported, process, apiServer>>
        BY <2>4 DEF Reconfigure
      <4>2. None \in Epochs /\ 0 \in Epochs
        BY DEF None
      <4> QED
        BY <3>1, <3>2, <4>1, <4>2
    <3> QED
      BY <3>3, <3>4
  <2>5. ASSUME NEW c \in Callers, CallStop(c) PROVE Inv'
    BY <2>5 DEF CallStop
  <2>6. ASSUME NEW r \in Requests, HandleStop(r) PROVE Inv'
    BY <2>6 DEF HandleStop
  <2>7. ASSUME NEW e \in Tests, NewServer(e) PROVE Inv'
    BY <2>7 DEF NewServer, ApiServerStarts
  <2>8. ASSUME NEW e \in Tests, ServerStart(e) PROVE Inv'
    <3>1. CASE networkServer = None /\ Panic("nilServer")
      BY <3>1 DEF Panic
    <3>2. CASE /\ networkServer # None /\ runner' = [runner EXCEPT ![e] = "spawn"]
               /\ listening' = {networkServer} /\ opened' = opened \cup {networkServer}
               /\ UNCHANGED <<control, actors, process, apiServer, networkServer, serves, accepted,
                               handlers, work, bound>>
      <4>1. networkServer \in Tests
        BY <3>2
      <4>2. listening' \subseteq Tests /\ opened' \subseteq Tests
        BY <3>2, <4>1
      <4> QED
        BY <3>2, <4>2
    <3>3. CASE runner' = [runner EXCEPT ![e] = "fail"] /\ UNCHANGED <<listening, opened>>
      <4>1. UNCHANGED <<control, actors, process, apiServer, networkServer, serves, accepted,
                               handlers, work, bound>>
        BY <2>8, <3>3 DEF ServerStart, Panic
      <4> QED
        BY <3>3, <4>1
    <3> QED
      BY <2>8, <3>1, <3>2, <3>3 DEF ServerStart
  <2>9. ASSUME NEW e \in Tests, Spawn(e) PROVE Inv'
    BY <2>9 DEF Spawn
  <2>10. ASSUME NEW e \in Tests, StartFailed(e) PROVE Inv'
    BY <2>10 DEF StartFailed
  <2>11. ASSUME NEW e \in Tests, Finish(e) PROVE Inv'
    BY <2>11 DEF Finish
  <2>12. ASSUME NEW e \in Tests, CloseTestDone(e) PROVE Inv'
    <3>1. CASE Panic("closedTwice")
      BY <3>1 DEF Panic
    <3>2. CASE ~Panic("closedTwice")
      BY <2>12, <3>2 DEF CloseTestDone
    <3> QED
      BY <3>1, <3>2
  <2>13. ASSUME NEW e \in Tests, ServerBegin(e) PROVE Inv'
    <3>1. CASE Panic("nilServer")
      BY <3>1 DEF Panic
    <3>2. CASE ~Panic("nilServer")
      <4>1. networkServer \in Epochs /\ epoch \in Epochs
        OBVIOUS
      <4>2. /\ serves' = [serves EXCEPT ![e] = networkServer]
            /\ bound' = [bound EXCEPT ![e]["server"] = epoch]
            /\ work' = [work EXCEPT ![e]["server"] = "running"]
            /\ UNCHANGED <<control, networkServer, opened, listening, accepted, handlers,
                           runner, actors, process, apiServer>>
        BY <2>13, <3>2 DEF ServerBegin
      <4> QED
        BY <4>1, <4>2
    <3> QED
      BY <3>1, <3>2
  <2>14. ASSUME NEW e \in Tests, ReporterTick(e) PROVE Inv'
    BY <2>14 DEF ReporterTick
  <2>15. ASSUME NEW e \in Tests, ConnError(e) PROVE Inv'
    BY <2>15, WokenRunners DEF ConnError, WorkDone
  <2>16. ASSUME NEW e \in Tests, Accept(e) PROVE Inv'
    BY <2>16 DEF Accept
  <2>17. ASSUME NEW e \in Tests, HandlerCancelled(e) PROVE Inv'
    BY <2>17 DEF HandlerCancelled
  <2>18. ASSUME NEW e \in Tests, PeerGone(e) PROVE Inv'
    BY <2>18 DEF PeerGone
  <2>19. ASSUME NEW e \in Tests, ListenerWatch(e) PROVE Inv'
    BY <2>19 DEF ListenerWatch
  <2>20. ASSUME NEW e \in Tests, ServerExit(e) PROVE Inv'
    BY <2>20, WokenRunners DEF ServerExit, WorkDone
  <2>21. ASSUME NEW e \in Tests, TimerFires(e) PROVE Inv'
    BY <2>21 DEF TimerFires
  <2>22. ASSUME NEW e \in Tests, NEW k \in Watchers, WorkBegin(e, k) PROVE Inv'
    BY <2>22 DEF WorkBegin
  <2>23. ASSUME NEW e \in Tests, NEW k \in Watchers, WorkExit(e, k) PROVE Inv'
    BY <2>23, WokenRunners DEF WorkExit, WorkDone
  <2>24. ASSUME NEW a \in Actors, Cancel(a) PROVE Inv'
    BY <2>24 DEF Cancel
  <2>25. ASSUME NEW a \in Actors, Unmark(a) PROVE Inv'
    BY <2>25 DEF Unmark
  <2>26. ASSUME NEW a \in Actors, CheckServer(a) PROVE Inv'
    BY <2>26 DEF CheckServer
  <2>27. ASSUME NEW a \in Actors, StopServer(a) PROVE Inv'
    <3>1. CASE Panic("nilServer")
      BY <3>1 DEF Panic
    <3>2. CASE CloseServer(a, "drain")
      BY <2>27, <3>2 DEF StopServer, CloseServer
    <3> QED
      BY <2>27, <3>1, <3>2 DEF StopServer
  <2>28. ASSUME NEW a \in Actors, ClearServer(a) PROVE Inv'
    BY <2>28 DEF ClearServer
  <2>29. ASSUME NEW a \in Actors, Finalize(a) PROVE Inv'
    BY <2>29 DEF Finalize, AfterStop
  <2>30. ASSUME MainReturns PROVE Inv'
    BY <2>30 DEF MainReturns
  <2>31. ASSUME NEW e \in Tests, Handle(e) PROVE Inv'
    BY <2>31 DEF Handle
  <2>32. ASSUME ApiServerEnds PROVE Inv'
    BY <2>32, WokenRunners DEF ApiServerEnds
  <2>33. ASSUME UNCHANGED vars PROVE Inv'
    BY <2>33 DEF vars
  <2> QED
    BY <2>1, <2>2, <2>3, <2>4, <2>5, <2>6, <2>7, <2>8, <2>9, <2>10, <2>11, <2>12, <2>13, <2>14, <2>15, <2>16, <2>17, <2>18, <2>19, <2>20, <2>21, <2>22, <2>23, <2>24, <2>25, <2>26, <2>27, <2>28, <2>29, <2>30, <2>31, <2>32, <2>33
    DEF Next, EnvironmentStep, RunnerStep, WorkStep, StartStep, StopStep
<1> QED
  BY <1>1, <1>2, PTL DEF Spec

(* A goroutine that ends, with a reason when it is not a connection, keeps *)
(* the invariant: the runners that it wakes have nothing left running.     *)
LEMMA WorkDoneKeepsLife ==
  ASSUME TypeOK, LifeInv, NEW e \in Tests, NEW k \in Kinds,
         work[e][k] = "running", WorkDone(e, k),
         k # "conn" => \E x \in cancelled : x >= e,
         UNCHANGED <<epoch, isRunning, cancelled>>
  PROVE  LifeInv'
<1> DEFINE w == [work EXCEPT ![e][k] = "exited"]
<1>1. /\ work' = w
      /\ work' \in [Tests -> [Kinds -> WorkSteps]]
      /\ \A f \in Tests, j \in Kinds :
           work'[f][j] = IF f = e /\ j = k THEN "exited" ELSE work[f][j]
  BY DEF WorkDone, TypeOK, WorkSteps
<1>a. /\ runner' \in [Tests -> RunnerSteps]
      /\ \A f \in Tests : runner'[f] # runner[f] =>
           runner[f] = "wait" /\ runner'[f] = "finish" /\ Drained(work', apiServer)
  BY WokenRunners DEF WorkDone
<1>b. ASSUME NEW f \in Tests, runner'[f] # runner[f], NEW g \in Tests, NEW j \in Kinds
      PROVE  ~Counted(work', g, j)
  BY <1>a, <1>b DEF Drained
<1>3. bound' \in [Tests -> [Kinds -> Epochs]]
      /\ \A f \in Tests, j \in Kinds : f # e \/ j # k => bound'[f][j] = bound[f][j]
  BY ConstantFacts DEF WorkDone, TypeOK
<1>4. RunnersStarted'
  BY <1>1, <1>a DEF LifeInv, RunnersStarted
<1>5. BoundAhead'
  BY <1>1, <1>3 DEF LifeInv, BoundAhead
<1>6. RunnerOutlivesWork'
  BY <1>1, <1>a, <1>b DEF LifeInv, RunnerOutlivesWork, Counted, WorkSteps, TypeOK
<1>7. FlagHasRunner'
  BY <1>a, ConstantFacts DEF LifeInv, FlagHasRunner, RunnerSteps, TypeOK
<1>8. NoSilentEnd'
  BY <1>1 DEF LifeInv, NoSilentEnd
<1> QED
  BY <1>4, <1>5, <1>6, <1>7, <1>8 DEF LifeInv

(* A connection may also end by an error, and ends like any goroutine. *)
LEMMA ConnErrorKeepsLife ==
  ASSUME TypeOK, LifeInv, NEW e \in Tests, ConnError(e)
  PROVE  LifeInv'
<1>1. "conn" \in Kinds /\ work[e]["conn"] = "running" /\ WorkDone(e, "conn")
  BY DEF ConnError, Kinds, WorkAt
<1>2. UNCHANGED <<epoch, isRunning, cancelled>>
  BY DEF ConnError, control
<1> QED
  BY <1>1, <1>2, WorkDoneKeepsLife

(* When the API server ends, the runners that it kept waiting have no work *)
(* left.                                                                   *)
LEMMA ApiServerEndsKeepsLife ==
  ASSUME TypeOK, LifeInv, ApiServerEnds
  PROVE  LifeInv'
<1>1. \A f \in Tests : runner'[f] # runner[f] =>
        runner[f] = "wait" /\ runner'[f] = "finish" /\ Drained(work, "ended")
  BY WokenRunners DEF ApiServerEnds
<1>2. UNCHANGED <<epoch, cancelled, isRunning, work, bound>>
  BY DEF ApiServerEnds, control
<1>3. RunnersStarted' /\ BoundAhead' /\ NoSilentEnd'
  BY <1>1, <1>2 DEF LifeInv, RunnersStarted, BoundAhead, NoSilentEnd
<1>4. ASSUME NEW e \in Tests, runner'[e] \in {"finish", "close", "done"}, NEW k \in Kinds
      PROVE  work'[e][k] \in {"none", "exited"}
  <2>1. CASE runner'[e] = runner[e]
    BY <1>2, <1>4, <2>1 DEF LifeInv, RunnerOutlivesWork
  <2>2. CASE runner'[e] # runner[e]
    <3>1. ~Counted(work, e, k)
      BY <1>1, <2>2 DEF Drained
    <3> QED
      BY <1>2, <3>1 DEF Counted, TypeOK, WorkSteps
  <2> QED
    BY <2>1, <2>2
<1>5. RunnerOutlivesWork'
  BY <1>4 DEF RunnerOutlivesWork
<1>6. FlagHasRunner'
  BY <1>1, <1>2, ConstantFacts DEF LifeInv, FlagHasRunner, RunnerSteps, TypeOK
<1> QED
  BY <1>3, <1>5, <1>6 DEF LifeInv

(* The strengthening of the three life-cycle properties is inductive. *)
LEMMA LifeInvariant == Spec => []LifeInv
<1>1. Init => LifeInv
  <2>1. \A e \in Tests : e > 0
    BY ConstantsOK DEF Tests
  <2> QED BY <2>1, ConstantFacts
  DEF Init, LifeInv, RunnersStarted, BoundAhead, RunnerOutlivesWork, FlagHasRunner, NoSilentEnd
<1>2. TypeOK /\ StartExclusive /\ LifeInv /\ [Next]_vars => LifeInv'
  <2> SUFFICES ASSUME TypeOK, StartExclusive, LifeInv, [Next]_vars PROVE LifeInv'
    OBVIOUS
  <2> USE ConstantFacts
      DEF TypeOK, StartExclusive, StartSteps, RunnerSteps, WorkSteps, LifeInv, RunnersStarted,
          BoundAhead, RunnerOutlivesWork, FlagHasRunner, NoSilentEnd,
          At, RunnerAt, WorkAt, Goto, RunnerGoto, control, sockets, tests, actors
  <2>1. ASSUME NEW c \in Callers, StartWithConfig(c) PROVE LifeInv'
    BY <2>1 DEF StartWithConfig
  <2>2. ASSUME NEW c \in Callers, PreviousWaited(c) PROVE LifeInv'
    BY <2>2 DEF PreviousWaited
  <2>3. ASSUME NEW c \in Callers, CloseOld(c) PROVE LifeInv'
    BY <2>3 DEF CloseOld, CloseServer, Panic
  <2>4. ASSUME NEW c \in Callers, Reconfigure(c) PROVE LifeInv'
    <3>1. epoch + 1 \in Tests
      BY <2>4, NextEpoch DEF Reconfigure
    <3>2. /\ epoch' = epoch + 1
          /\ runner' = [runner EXCEPT ![epoch + 1] = "new"]
          /\ UNCHANGED <<work, bound, cancelled>>
      BY <2>4 DEF Reconfigure
    <3>3. RunnersStarted'
      BY <3>1, <3>2
    <3>4. BoundAhead' /\ NoSilentEnd'
      BY <3>2
    <3>5. RunnerOutlivesWork'
      BY <3>1, <3>2
    <3>6. FlagHasRunner'
      BY <3>1, <3>2
    <3> QED
      BY <3>3, <3>4, <3>5, <3>6
  <2>5. ASSUME NEW c \in Callers, CallStop(c) PROVE LifeInv'
    BY <2>5 DEF CallStop
  <2>6. ASSUME NEW r \in Requests, HandleStop(r) PROVE LifeInv'
    BY <2>6 DEF HandleStop
  <2>7. ASSUME NEW e \in Tests, NewServer(e) PROVE LifeInv'
    BY <2>7 DEF NewServer
  <2>8. ASSUME NEW e \in Tests, ServerStart(e) PROVE LifeInv'
    BY <2>8 DEF ServerStart, Panic
  <2>9. ASSUME NEW e \in Tests, Spawn(e) PROVE LifeInv'
    BY <2>9 DEF Spawn
  <2>10. ASSUME NEW e \in Tests, StartFailed(e) PROVE LifeInv'
    BY <2>10 DEF StartFailed
  <2>11. ASSUME NEW e \in Tests, Finish(e) PROVE LifeInv'
    BY <2>11 DEF Finish
  <2>12. ASSUME NEW e \in Tests, CloseTestDone(e) PROVE LifeInv'
    BY <2>12 DEF CloseTestDone, Panic
  <2>13. ASSUME NEW e \in Tests, ServerBegin(e) PROVE LifeInv'
    BY <2>13 DEF ServerBegin, Panic
  <2>14. ASSUME NEW e \in Tests, ReporterTick(e) PROVE LifeInv'
    BY <2>14 DEF ReporterTick
  <2>15. ASSUME NEW e \in Tests, ConnError(e) PROVE LifeInv'
    BY <2>15, ConnErrorKeepsLife
  <2>16. ASSUME NEW e \in Tests, Accept(e) PROVE LifeInv'
    BY <2>16 DEF Accept
  <2>17. ASSUME NEW e \in Tests, HandlerCancelled(e) PROVE LifeInv'
    BY <2>17 DEF HandlerCancelled
  <2>18. ASSUME NEW e \in Tests, PeerGone(e) PROVE LifeInv'
    BY <2>18 DEF PeerGone
  <2>19. ASSUME NEW e \in Tests, ListenerWatch(e) PROVE LifeInv'
    BY <2>19 DEF ListenerWatch
  <2>20. ASSUME NEW e \in Tests, ServerExit(e) PROVE LifeInv'
    <3>1. \E x \in cancelled : x >= e
      BY <2>20 DEF ServerExit, CtxDone
    <3> QED
      BY <2>20, <3>1, WorkDoneKeepsLife DEF ServerExit
  <2>21. ASSUME NEW e \in Tests, TimerFires(e) PROVE LifeInv'
    BY <2>21 DEF TimerFires
  <2>22. ASSUME NEW e \in Tests, NEW k \in Watchers, WorkBegin(e, k) PROVE LifeInv'
    BY <2>22 DEF WorkBegin
  <2>23. ASSUME NEW e \in Tests, NEW k \in Watchers, WorkExit(e, k) PROVE LifeInv'
    <3>1. \E x \in cancelled : x >= e
      BY <2>23 DEF WorkExit, CtxDone
    <3> QED
      BY <2>23, <3>1, WorkDoneKeepsLife DEF WorkExit
  <2>24. ASSUME NEW a \in Actors, Cancel(a) PROVE LifeInv'
    BY <2>24 DEF Cancel
  <2>25. ASSUME NEW a \in Actors, Unmark(a) PROVE LifeInv'
    BY <2>25 DEF Unmark
  <2>26. ASSUME NEW a \in Actors, CheckServer(a) PROVE LifeInv'
    BY <2>26 DEF CheckServer
  <2>27. ASSUME NEW a \in Actors, StopServer(a) PROVE LifeInv'
    BY <2>27 DEF StopServer, CloseServer, Panic
  <2>28. ASSUME NEW a \in Actors, ClearServer(a) PROVE LifeInv'
    BY <2>28 DEF ClearServer
  <2>29. ASSUME NEW a \in Actors, Finalize(a) PROVE LifeInv'
    BY <2>29 DEF Finalize
  <2>30. ASSUME MainReturns PROVE LifeInv'
    BY <2>30 DEF MainReturns
  <2>31. ASSUME NEW e \in Tests, Handle(e) PROVE LifeInv'
    BY <2>31 DEF Handle
  <2>32. ASSUME ApiServerEnds PROVE LifeInv'
    BY <2>32, ApiServerEndsKeepsLife
  <2>33. ASSUME UNCHANGED vars PROVE LifeInv'
    BY <2>33 DEF vars
  <2> QED
    BY <2>1, <2>2, <2>3, <2>4, <2>5, <2>6, <2>7, <2>8, <2>9, <2>10, <2>11, <2>12, <2>13, <2>14, <2>15, <2>16, <2>17, <2>18, <2>19, <2>20, <2>21, <2>22, <2>23, <2>24, <2>25, <2>26, <2>27, <2>28, <2>29, <2>30, <2>31, <2>32, <2>33
    DEF Next, EnvironmentStep, RunnerStep, WorkStep, StartStep, StopStep
<1> QED
  BY <1>1, <1>2, TypeAndLock, PTL DEF Spec

-----------------------------------------------------------------------------
(* Every variable keeps its type, however many tests the tester runs. *)
THEOREM TypeCorrect == Spec => []TypeOK
BY TypeAndLock, PTL

(* nt.isRunning is set only while the runControlledTest of the latest      *)
(* accepted start has still to clear it: no start is refused on account of *)
(* a test whose runner is gone.                                            *)
THEOREM RunningFlagIsLive == Spec => []FlagHasRunner
BY LifeInvariant, PTL DEF LifeInv

(* runControlledTest goes past nt.Wait, and so closes testDone, only after *)
(* all the goroutines that its Start added to nt.wg have returned.         *)
THEOREM DoneAfterWork == Spec => []RunnerOutlivesWork
BY LifeInvariant, PTL DEF LifeInv

(* The server and the reporters of a test end only once a Stop has         *)
(* cancelled the context of that test or of a later one.                   *)
THEOREM EndNeedsStop == Spec => []NoSilentEnd
BY LifeInvariant, PTL DEF LifeInv

(* Who closed testDone has finished, and a second close has happened only  *)
(* with two runners.                                                       *)
ClosedByRunner ==
  /\ doneClosed => \E e \in Tests : runner[e] = "done"
  /\ process = "closedTwice" => epoch >= 2

(* It holds in every state. *)
LEMMA ClosedByRunnerInv == Spec => []ClosedByRunner
<1>1. Init => ClosedByRunner
  BY DEF Init, ClosedByRunner
<1>2. TypeOK /\ StartExclusive /\ RunnersStarted /\ ClosedByRunner /\ [Next]_vars
      => ClosedByRunner'
  <2> SUFFICES ASSUME TypeOK, StartExclusive, RunnersStarted, ClosedByRunner, [Next]_vars
               PROVE  ClosedByRunner'
    OBVIOUS
  <2>z. \A x, y \in Tests : x <= epoch /\ y <= epoch /\ x # y => epoch >= 2
    BY ConstantsOK DEF Tests, TypeOK, Epochs
  <2> USE ConstantFacts
      DEF TypeOK, StartExclusive, StartSteps, RunnerSteps, RunnersStarted, ClosedByRunner,
          At, RunnerAt, WorkAt, Goto, RunnerGoto, control, sockets, tests, actors
  <2>1. ASSUME NEW c \in Callers, StartWithConfig(c) PROVE ClosedByRunner'
    BY <2>1 DEF StartWithConfig
  <2>2. ASSUME NEW c \in Callers, PreviousWaited(c) PROVE ClosedByRunner'
    BY <2>2 DEF PreviousWaited
  <2>3. ASSUME NEW c \in Callers, CloseOld(c) PROVE ClosedByRunner'
    BY <2>3 DEF CloseOld, CloseServer, Panic
  <2>4. ASSUME NEW c \in Callers, Reconfigure(c) PROVE ClosedByRunner'
    <3>1. epoch + 1 \in Tests /\ runner[epoch + 1] = "none"
      BY <2>4, NextEpoch DEF Reconfigure
    <3>2. /\ \A f \in Tests : runner[f] = "done" => runner'[f] = "done"
          /\ process = "up" /\ process' = "up" /\ doneClosed' = doneClosed
      BY <2>4, <3>1 DEF Reconfigure
    <3> QED
      BY <3>2
  <2>5. ASSUME NEW c \in Callers, CallStop(c) PROVE ClosedByRunner'
    BY <2>5 DEF CallStop
  <2>6. ASSUME NEW r \in Requests, HandleStop(r) PROVE ClosedByRunner'
    BY <2>6 DEF HandleStop
  <2>7. ASSUME NEW e \in Tests, NewServer(e) PROVE ClosedByRunner'
    BY <2>7 DEF NewServer
  <2>8. ASSUME NEW e \in Tests, ServerStart(e) PROVE ClosedByRunner'
    BY <2>8 DEF ServerStart, Panic
  <2>9. ASSUME NEW e \in Tests, Spawn(e) PROVE ClosedByRunner'
    BY <2>9 DEF Spawn
  <2>10. ASSUME NEW e \in Tests, StartFailed(e) PROVE ClosedByRunner'
    BY <2>10 DEF StartFailed
  <2>11. ASSUME NEW e \in Tests, Finish(e) PROVE ClosedByRunner'
    BY <2>11 DEF Finish
  <2>12. ASSUME NEW e \in Tests, CloseTestDone(e) PROVE ClosedByRunner'
    <3>1. CASE doneClosed /\ Panic("closedTwice")
      <4>1. PICK f \in Tests : runner[f] = "done"
        BY <3>1
      <4>2. e # f /\ e <= epoch /\ f <= epoch
        BY <2>12, <4>1 DEF CloseTestDone
      <4>3. epoch' >= 2
        BY <2>z, <3>1, <4>2 DEF Panic
      <4> QED
        BY <3>1, <4>1, <4>3 DEF Panic
    <3>2. CASE ~doneClosed
      BY <2>12, <3>2 DEF CloseTestDone
    <3> QED
      BY <2>12, <3>1, <3>2 DEF CloseTestDone
  <2>13. ASSUME NEW e \in Tests, ServerBegin(e) PROVE ClosedByRunner'
    BY <2>13 DEF ServerBegin, Panic
  <2>14. ASSUME NEW e \in Tests, ReporterTick(e) PROVE ClosedByRunner'
    BY <2>14 DEF ReporterTick
  <2>15. ASSUME NEW e \in Tests, ConnError(e) PROVE ClosedByRunner'
    <3>1. \A f \in Tests : runner[f] = "done" => runner'[f] = "done"
      BY <2>15, WokenRunners DEF ConnError, WorkDone
    <3>2. process' = "up" /\ doneClosed' = doneClosed
      BY <2>15, WokenRunners DEF ConnError, WorkDone
    <3> QED
      BY <3>1, <3>2
  <2>16. ASSUME NEW e \in Tests, Accept(e) PROVE ClosedByRunner'
    BY <2>16 DEF Accept
  <2>17. ASSUME NEW e \in Tests, HandlerCancelled(e) PROVE ClosedByRunner'
    BY <2>17 DEF HandlerCancelled
  <2>18. ASSUME NEW e \in Tests, PeerGone(e) PROVE ClosedByRunner'
    BY <2>18 DEF PeerGone
  <2>19. ASSUME NEW e \in Tests, ListenerWatch(e) PROVE ClosedByRunner'
    BY <2>19 DEF ListenerWatch
  <2>20. ASSUME NEW e \in Tests, ServerExit(e) PROVE ClosedByRunner'
    <3>1. \A f \in Tests : runner[f] = "done" => runner'[f] = "done"
      BY <2>20, WokenRunners DEF ServerExit, WorkDone
    <3>2. process' = "up" /\ doneClosed' = doneClosed
      BY <2>20, WokenRunners DEF ServerExit, WorkDone
    <3> QED
      BY <3>1, <3>2
  <2>21. ASSUME NEW e \in Tests, TimerFires(e) PROVE ClosedByRunner'
    BY <2>21 DEF TimerFires
  <2>22. ASSUME NEW e \in Tests, NEW k \in Watchers, WorkBegin(e, k) PROVE ClosedByRunner'
    BY <2>22 DEF WorkBegin
  <2>23. ASSUME NEW e \in Tests, NEW k \in Watchers, WorkExit(e, k) PROVE ClosedByRunner'
    <3>1. \A f \in Tests : runner[f] = "done" => runner'[f] = "done"
      BY <2>23, WokenRunners DEF WorkExit, WorkDone
    <3>2. process' = "up" /\ doneClosed' = doneClosed
      BY <2>23, WokenRunners DEF WorkExit, WorkDone
    <3> QED
      BY <3>1, <3>2
  <2>24. ASSUME NEW a \in Actors, Cancel(a) PROVE ClosedByRunner'
    BY <2>24 DEF Cancel
  <2>25. ASSUME NEW a \in Actors, Unmark(a) PROVE ClosedByRunner'
    BY <2>25 DEF Unmark
  <2>26. ASSUME NEW a \in Actors, CheckServer(a) PROVE ClosedByRunner'
    BY <2>26 DEF CheckServer
  <2>27. ASSUME NEW a \in Actors, StopServer(a) PROVE ClosedByRunner'
    BY <2>27 DEF StopServer, CloseServer, Panic
  <2>28. ASSUME NEW a \in Actors, ClearServer(a) PROVE ClosedByRunner'
    BY <2>28 DEF ClearServer
  <2>29. ASSUME NEW a \in Actors, Finalize(a) PROVE ClosedByRunner'
    BY <2>29 DEF Finalize
  <2>30. ASSUME MainReturns PROVE ClosedByRunner'
    BY <2>30 DEF MainReturns
  <2>31. ASSUME NEW e \in Tests, Handle(e) PROVE ClosedByRunner'
    BY <2>31 DEF Handle
  <2>32. ASSUME ApiServerEnds PROVE ClosedByRunner'
    BY <2>32, WokenRunners DEF ApiServerEnds
  <2>33. ASSUME UNCHANGED vars PROVE ClosedByRunner'
    BY <2>33 DEF vars
  <2> QED
    BY <2>1, <2>2, <2>3, <2>4, <2>5, <2>6, <2>7, <2>8, <2>9, <2>10, <2>11, <2>12, <2>13, <2>14, <2>15, <2>16, <2>17, <2>18, <2>19, <2>20, <2>21, <2>22, <2>23, <2>24, <2>25, <2>26, <2>27, <2>28, <2>29, <2>30, <2>31, <2>32, <2>33
    DEF Next, EnvironmentStep, RunnerStep, WorkStep, StartStep, StopStep
<1>3. LifeInv => RunnersStarted
  BY DEF LifeInv
<1> QED
  BY <1>1, <1>2, <1>3, TypeAndLock, LifeInvariant, PTL DEF Spec

(* As long as a tester has accepted one test, testDone is not closed twice.*)
THEOREM OneTestClosesOnce == Spec => []SingleUseClosesOnce
<1>1. ClosedByRunner => SingleUseClosesOnce
  BY DEF ClosedByRunner, SingleUseClosesOnce
<1> QED
  BY <1>1, ClosedByRunnerInv, PTL

-----------------------------------------------------------------------------
(***************************************************************************)
(* A nil server needs a Stop. While no context was cancelled, the running  *)
(* flag excludes two live runners, so that only the one of the latest test *)
(* writes nt.networkServer, and only between its own steps.                *)
(***************************************************************************)
LiveSteps   == {"new", "listen", "spawn", "fail", "wait", "finish"}
AfterCancel == {"unmark", "checkServer", "stopServer", "drain"}

(* A live runner is that of the latest test, and the flag is up. *)
FlagOfLive ==
  \A e \in Tests : runner[e] \in LiveSteps => isRunning /\ e = epoch

(* The server is there where a step of a runner, or of a start, uses it. *)
ServerInPlace ==
  /\ \A e \in Tests : runner[e] = "listen" => networkServer # None
  /\ \A e \in Tests :
       runner[e] = "spawn" \/ (runner[e] = "wait" /\ work[e]["server"] = "spawned")
         => networkServer \in opened
  /\ \A a \in Actors : pc[a] = "closeOld" => networkServer # None

(* Who is past the cancellation has cancelled; a start has excluded the    *)
(* flag; without a cancellation the two above hold.                        *)
StopInv ==
  /\ \A a \in Actors : pc[a] \in AfterCancel => cancelled # {}
  /\ \A a \in Actors : pc[a] \in StartSteps => ~isRunning
  /\ cancelled = {} => FlagOfLive /\ ServerInPlace
  /\ NilServerNeedsStop

(* It survives a goroutine that ends, and so wakes a runner at most. *)
LEMMA EndKeepsStopInv ==
  ASSUME StopInv, UNCHANGED <<control, networkServer, opened, pc, process>>,
         \A f \in Tests : runner'[f] # runner[f] => runner[f] = "wait" /\ runner'[f] = "finish",
         \A f \in Tests : work'[f]["server"] = "spawned" => work[f]["server"] = "spawned"
  PROVE  StopInv'
<1>1. UNCHANGED <<cancelled, isRunning, epoch>>
  BY DEF control
<1>2. FlagOfLive => FlagOfLive'
  BY <1>1 DEF FlagOfLive, LiveSteps
<1>3. ServerInPlace => ServerInPlace'
  BY DEF ServerInPlace
<1>4. NilServerNeedsStop' = NilServerNeedsStop
  BY <1>1 DEF NilServerNeedsStop
<1> QED
  BY <1>1, <1>2, <1>3, <1>4 DEF StopInv

(* It holds in every state. *)
LEMMA StopInvariant == Spec => []StopInv
<1>1. Init => StopInv
  <2> SUFFICES ASSUME Init PROVE StopInv
    OBVIOUS
  <2>1. \A a \in Actors : pc[a] \in {"off", "idle"}
    BY DEF Init
  <2>2. (\A e \in Tests : runner[e] = "none") /\ process = "up"
    BY DEF Init
  <2> QED
    BY <2>1, <2>2 DEF StopInv, FlagOfLive, ServerInPlace, NilServerNeedsStop, LiveSteps,
                      AfterCancel, StartSteps
<1>2. TypeOK /\ StartExclusive /\ LifeInv /\ StopInv /\ [Next]_vars => StopInv'
  <2> SUFFICES ASSUME TypeOK, StartExclusive, LifeInv, StopInv, [Next]_vars PROVE StopInv'
    OBVIOUS
  <2> USE ConstantFacts
      DEF TypeOK, StartExclusive, StartSteps, RunnerSteps, WorkSteps, LifeInv, RunnersStarted,
          RunnerOutlivesWork, StopInv, FlagOfLive, ServerInPlace, NilServerNeedsStop, LiveSteps,
          AfterCancel, At, RunnerAt, WorkAt, Goto, RunnerGoto, control, sockets, tests, actors
  <2>1. ASSUME NEW c \in Callers, StartWithConfig(c) PROVE StopInv'
    BY <2>1 DEF StartWithConfig
  <2>2. ASSUME NEW c \in Callers, PreviousWaited(c) PROVE StopInv'
    BY <2>2 DEF PreviousWaited
  <2>3. ASSUME NEW c \in Callers, CloseOld(c) PROVE StopInv'
    BY <2>3 DEF CloseOld, CloseServer, Panic
  <2>4. ASSUME NEW c \in Callers, Reconfigure(c) PROVE StopInv'
    BY <2>4 DEF Reconfigure
  <2>5. ASSUME NEW c \in Callers, CallStop(c) PROVE StopInv'
    BY <2>5 DEF CallStop
  <2>6. ASSUME NEW r \in Requests, HandleStop(r) PROVE StopInv'
    BY <2>6 DEF HandleStop
  <2>7. ASSUME NEW e \in Tests, NewServer(e) PROVE StopInv'
    <3>1. /\ networkServer' = e /\ runner' = [runner EXCEPT ![e] = "listen"] /\ runner[e] = "new"
          /\ UNCHANGED <<control, opened, work, pc, process>>
      BY <2>7 DEF NewServer
    <3>2. cancelled = {} => \A f \in Tests \ {e} : runner[f] \notin LiveSteps
      BY <3>1
    <3>3. cancelled = {} => FlagOfLive'
      BY <3>1
    <3>4. e # None
      BY ConstantsOK DEF Tests, None
    <3>5. cancelled = {} => ServerInPlace'
      BY <3>1, <3>2, <3>4
    <3>6. \A a \in Actors : (pc[a] \in AfterCancel => cancelled # {}) /\ (pc[a] \in StartSteps => ~isRunning)
      OBVIOUS
    <3> QED
      BY <3>1, <3>3, <3>5, <3>6
  <2>8. ASSUME NEW e \in Tests, ServerStart(e) PROVE StopInv'
    BY <2>8 DEF ServerStart, Panic
  <2>9. ASSUME NEW e \in Tests, Spawn(e) PROVE StopInv'
    BY <2>9 DEF Spawn
  <2>10. ASSUME NEW e \in Tests, StartFailed(e) PROVE StopInv'
    BY <2>10 DEF StartFailed
  <2>11. ASSUME NEW e \in Tests, Finish(e) PROVE StopInv'
    BY <2>11 DEF Finish
  <2>12. ASSUME NEW e \in Tests, CloseTestDone(e) PROVE StopInv'
    BY <2>12 DEF CloseTestDone, Panic
  <2>13. ASSUME NEW e \in Tests, ServerBegin(e) PROVE StopInv'
    BY <2>13 DEF ServerBegin, Panic
  <2>14. ASSUME NEW e \in Tests, ReporterTick(e) PROVE StopInv'
    BY <2>14 DEF ReporterTick
  <2>15. ASSUME NEW e \in Tests, ConnError(e) PROVE StopInv'
    <3>1. "conn" \in Kinds /\ WorkDone(e, "conn")
      BY <2>15 DEF ConnError
    <3> QED
      BY <2>15, <3>1, WorkDoneFacts DEF ConnError
  <2>16. ASSUME NEW e \in Tests, Accept(e) PROVE StopInv'
    BY <2>16 DEF Accept
  <2>17. ASSUME NEW e \in Tests, HandlerCancelled(e) PROVE StopInv'
    BY <2>17 DEF HandlerCancelled
  <2>18. ASSUME NEW e \in Tests, PeerGone(e) PROVE StopInv'
    BY <2>18 DEF PeerGone
  <2>19. ASSUME NEW e \in Tests, ListenerWatch(e) PROVE StopInv'
    BY <2>19 DEF ListenerWatch
  <2>20. ASSUME NEW e \in Tests, ServerExit(e) PROVE StopInv'
    <3>1. "server" \in Kinds /\ WorkDone(e, "server")
      BY <2>20 DEF ServerExit
    <3> QED
      BY <2>20, <3>1, WorkDoneFacts DEF ServerExit
  <2>21. ASSUME NEW e \in Tests, TimerFires(e) PROVE StopInv'
    BY <2>21 DEF TimerFires
  <2>22. ASSUME NEW e \in Tests, NEW k \in Watchers, WorkBegin(e, k) PROVE StopInv'
    BY <2>22 DEF WorkBegin
  <2>23. ASSUME NEW e \in Tests, NEW k \in Watchers, WorkExit(e, k) PROVE StopInv'
    <3>1. k \in Kinds /\ WorkDone(e, k)
      BY <2>23 DEF WorkExit
    <3>2. UNCHANGED <<control, networkServer, opened, pc, process>>
      BY <2>23 DEF WorkExit
    <3>3. /\ \A f \in Tests : runner'[f] # runner[f] =>
               runner[f] = "wait" /\ runner'[f] = "finish"
          /\ \A f \in Tests : work'[f]["server"] = "spawned" => work[f]["server"] = "spawned"
      BY <3>1, WorkDoneFacts
    <3> QED
      BY ONLY StopInv, <3>2, <3>3, EndKeepsStopInv
  <2>24. ASSUME NEW a \in Actors, Cancel(a) PROVE StopInv'
    BY <2>24 DEF Cancel
  <2>25. ASSUME NEW a \in Actors, Unmark(a) PROVE StopInv'
    BY <2>25 DEF Unmark
  <2>26. ASSUME NEW a \in Actors, CheckServer(a) PROVE StopInv'
    BY <2>26 DEF CheckServer
  <2>27. ASSUME NEW a \in Actors, StopServer(a) PROVE StopInv'
    BY <2>27 DEF StopServer, CloseServer, Panic
  <2>28. ASSUME NEW a \in Actors, ClearServer(a) PROVE StopInv'
    <3>1. /\ pc[a] = "drain" /\ pc' = [pc EXCEPT ![a] = "finalize"]
          /\ UNCHANGED <<control, process>>
      BY <2>28 DEF ClearServer
    <3>2. cancelled # {} /\ cancelled' # {}
      BY <3>1
    <3>3. \A b \in Actors : pc'[b] \in StartSteps => pc[b] \in StartSteps
      BY <3>1
    <3>4. isRunning' = isRunning
      BY <3>1
    <3> QED
      BY <3>2, <3>3, <3>4
  <2>29. ASSUME NEW a \in Actors, Finalize(a) PROVE StopInv'
    BY <2>29 DEF Finalize, AfterStop
  <2>30. ASSUME MainReturns PROVE StopInv'
    BY <2>30 DEF MainReturns
  <2>31. ASSUME NEW e \in Tests, Handle(e) PROVE StopInv'
    BY <2>31 DEF Handle
  <2>32. ASSUME ApiServerEnds PROVE StopInv'
    BY <2>32, WokenRunners DEF ApiServerEnds
  <2>33. ASSUME UNCHANGED vars PROVE StopInv'
    BY <2>33 DEF vars
  <2> QED
    BY <2>1, <2>2, <2>3, <2>4, <2>5, <2>6, <2>7, <2>8, <2>9, <2>10, <2>11, <2>12, <2>13, <2>14, <2>15, <2>16, <2>17,
       <2>18, <2>19, <2>20, <2>21, <2>22, <2>23, <2>24, <2>25, <2>26, <2>27, <2>28, <2>29, <2>30, <2>31, <2>32, <2>33
    DEF Next, EnvironmentStep, RunnerStep, WorkStep, StartStep, StopStep
<1> QED
  BY <1>1, <1>2, TypeAndLock, LifeInvariant, PTL DEF Spec

(* The nil pointer panics of StartWithConfig, Start and the server         *)
(* goroutine need a Stop: starts alone, in any number and any order, never *)
(* use a server that is not there.                                         *)
THEOREM StartsKeepServer == Spec => []NilServerNeedsStop
BY StopInvariant, PTL DEF StopInv

-----------------------------------------------------------------------------
(***************************************************************************)
(* What the end of a single test means. The sockets and the contexts that  *)
(* are in use were made by accepted starts; a server goroutine outlives    *)
(* the handlers of the connections it has accepted.                        *)
(***************************************************************************)
OfStarted ==
  /\ networkServer <= epoch
  /\ \A s \in opened : s <= epoch
  /\ listening \subseteq opened
  /\ \A e \in Tests :
       /\ serves[e] <= epoch
       /\ work[e]["server"] = "running" => serves[e] # None
       /\ bound[e]["server"] <= epoch
       /\ runner[e] = "wait" => work[e]["server"] # "none"
       /\ e \in accepted \cup handlers => work[e]["server"] = "running"

(* It holds in every state. *)
LEMMA OfStartedInv == Spec => []OfStarted
<1>1. Init => OfStarted
  BY ConstantFacts DEF Init, OfStarted, None
<1>2. TypeOK /\ LifeInv /\ OfStarted /\ [Next]_vars => OfStarted'
  <2> SUFFICES ASSUME TypeOK, LifeInv, OfStarted, [Next]_vars PROVE OfStarted'
    OBVIOUS
  <2>a. "server" \notin Watchers
    BY ConstantsOK
  <2>b. \A e \in Tests : e # None
    BY ConstantsOK DEF Tests, None
  <2>c. epoch \in Nat /\ networkServer \in Nat
    BY ConstantFacts DEF TypeOK
  <2> USE <2>a, <2>b, <2>c, ConstantFacts
      DEF TypeOK, LifeInv, RunnersStarted, RunnerSteps, WorkSteps, OfStarted,
          At, RunnerAt, WorkAt, Goto, RunnerGoto, control, sockets, tests, actors
  <2>1. ASSUME NEW c \in Callers, StartWithConfig(c) PROVE OfStarted'
    BY <2>1 DEF StartWithConfig
  <2>2. ASSUME NEW c \in Callers, PreviousWaited(c) PROVE OfStarted'
    BY <2>2 DEF PreviousWaited
  <2>3. ASSUME NEW c \in Callers, CloseOld(c) PROVE OfStarted'
    <3>1. CASE Panic("nilServer")
      BY <3>1 DEF Panic
    <3>2. CASE CloseServer(c, "drainOld")
      <4>1. listening' \subseteq listening /\ UNCHANGED <<epoch, networkServer, opened, serves, accepted, handlers, work, bound, runner>>
        BY <2>3, <3>2 DEF CloseOld, CloseServer
      <4> QED
        BY <4>1
    <3> QED
      BY <2>3, <3>1, <3>2 DEF CloseOld
  <2>4. ASSUME NEW c \in Callers, Reconfigure(c) PROVE OfStarted'
    <3>1. /\ epoch' = epoch + 1 /\ networkServer' = None
          /\ runner' = [runner EXCEPT ![epoch + 1] = "new"]
          /\ UNCHANGED <<opened, listening, serves, accepted, handlers, work, bound>>
      BY <2>4 DEF Reconfigure
    <3>2. \A n \in Nat : n <= epoch => n <= epoch'
      BY <3>1
    <3>3. \A e \in Tests : runner'[e] = "wait" => runner[e] = "wait"
      BY <3>1
    <3>4. \A e \in Tests : serves[e] \in Nat /\ bound[e]["server"] \in Nat
      <4>1. \A e \in Tests : serves[e] \in Epochs
        OBVIOUS
      <4>2. \A e \in Tests : bound[e] \in [Kinds -> Epochs]
        OBVIOUS
      <4>3. \A e \in Tests : bound[e]["server"] \in Epochs
        BY <4>2
      <4> QED
        BY <4>1, <4>3
    <3> QED
      BY <3>1, <3>2, <3>3, <3>4 DEF None
  <2>5. ASSUME NEW c \in Callers, CallStop(c) PROVE OfStarted'
    BY <2>5 DEF CallStop
  <2>6. ASSUME NEW r \in Requests, HandleStop(r) PROVE OfStarted'
    BY <2>6 DEF HandleStop
  <2>7. ASSUME NEW e \in Tests, NewServer(e) PROVE OfStarted'
    <3>1. /\ networkServer' = e /\ runner' = [runner EXCEPT ![e] = "listen"] /\ runner[e] = "new"
          /\ UNCHANGED <<epoch, opened, listening, serves, accepted, handlers, work, bound>>
      BY <2>7 DEF NewServer
    <3>2. e <= epoch
      BY <3>1
    <3> QED
      BY <3>1, <3>2
  <2>8. ASSUME NEW e \in Tests, ServerStart(e) PROVE OfStarted'
    <3>1. CASE Panic("nilServer")
      BY <3>1 DEF Panic
    <3>2. CASE ~Panic("nilServer")
      <4>1. UNCHANGED <<epoch, networkServer, serves, accepted, handlers, work, bound>>
        BY <2>8, <3>2 DEF ServerStart
      <4>2. \/ listening' = {networkServer} /\ opened' = opened \cup {networkServer}
            \/ UNCHANGED <<listening, opened>>
        BY <2>8, <3>2 DEF ServerStart
      <4>3. \A f \in Tests : runner'[f] = "wait" => runner[f] = "wait"
        BY <2>8, <3>2 DEF ServerStart
      <4> QED
        BY <4>1, <4>2, <4>3
    <3> QED
      BY <3>1, <3>2
  <2>9. ASSUME NEW e \in Tests, Spawn(e) PROVE OfStarted'
    BY <2>9 DEF Spawn
  <2>10. ASSUME NEW e \in Tests, StartFailed(e) PROVE OfStarted'
    BY <2>10 DEF StartFailed
  <2>11. ASSUME NEW e \in Tests, Finish(e) PROVE OfStarted'
    BY <2>11 DEF Finish
  <2>12. ASSUME NEW e \in Tests, CloseTestDone(e) PROVE OfStarted'
    <3>1. /\ UNCHANGED <<epoch, networkServer, opened, listening, serves, accepted, handlers,
                       work, bound>>
          /\ \A f \in Tests : runner'[f] = "wait" => runner[f] = "wait"
      BY <2>12 DEF CloseTestDone, Panic
    <3> QED
      BY <3>1
  <2>13. ASSUME NEW e \in Tests, ServerBegin(e) PROVE OfStarted'
    <3>1. CASE Panic("nilServer")
      BY <3>1 DEF Panic
    <3>2. CASE ~Panic("nilServer")
      <4>1. /\ networkServer \in opened
            /\ serves' = [serves EXCEPT ![e] = networkServer]
            /\ bound' = [bound EXCEPT ![e]["server"] = epoch]
            /\ work' = [work EXCEPT ![e]["server"] = "running"]
            /\ UNCHANGED <<epoch, networkServer, opened, listening, accepted, handlers, runner>>
        BY <2>13, <3>2 DEF ServerBegin
      <4>2. networkServer # None
        BY <4>1
      <4> QED
        BY <4>1, <4>2
    <3> QED
      BY <3>1, <3>2
  <2>14. ASSUME NEW e \in Tests, ReporterTick(e) PROVE OfStarted'
    BY <2>14 DEF ReporterTick
  <2>15. ASSUME NEW e \in Tests, ConnError(e) PROVE OfStarted'
    <3>1. "conn" \in Kinds /\ WorkDone(e, "conn")
      BY <2>15 DEF ConnError
    <3> QED
      BY <2>15, <3>1, WorkDoneFacts DEF ConnError
  <2>16. ASSUME NEW e \in Tests, Accept(e) PROVE OfStarted'
    BY <2>16 DEF Accept
  <2>17. ASSUME NEW e \in Tests, HandlerCancelled(e) PROVE OfStarted'
    BY <2>17 DEF HandlerCancelled
  <2>18. ASSUME NEW e \in Tests, PeerGone(e) PROVE OfStarted'
    BY <2>18 DEF PeerGone
  <2>19. ASSUME NEW e \in Tests, ListenerWatch(e) PROVE OfStarted'
    BY <2>19 DEF ListenerWatch
  <2>20. ASSUME NEW e \in Tests, ServerExit(e) PROVE OfStarted'
    <3>1. "server" \in Kinds /\ WorkDone(e, "server")
      BY <2>20 DEF ServerExit
    <3>2. /\ e \notin accepted \cup handlers
          /\ serves' = [serves EXCEPT ![e] = None]
          /\ UNCHANGED <<epoch, networkServer, opened, listening, accepted, handlers>>
      BY <2>20 DEF ServerExit, NoHandlers
    <3>3. \A f \in Tests : runner'[f] = "wait" => runner[f] = "wait"
      BY <3>1, WorkDoneFacts
    <3>4. \A f \in Tests :
            /\ work'[f]["server"] = IF f = e THEN "exited" ELSE work[f]["server"]
            /\ bound'[f]["server"] = IF f = e THEN 0 ELSE bound[f]["server"]
      BY <3>1, WorkDoneFacts
    <3> QED
      BY <3>2, <3>3, <3>4 DEF None
  <2>21. ASSUME NEW e \in Tests, TimerFires(e) PROVE OfStarted'
    BY <2>21 DEF TimerFires
  <2>22. ASSUME NEW e \in Tests, NEW k \in Watchers, WorkBegin(e, k) PROVE OfStarted'
    <3>1. /\ k # "server" /\ UNCHANGED <<epoch, networkServer, opened, listening, serves, accepted,
                                       handlers, runner>>
          /\ bound' = [bound EXCEPT ![e][k] = epoch]
          /\ work' = [work EXCEPT ![e][k] = "running"]
      BY <2>22 DEF WorkBegin
    <3>2. \A f \in Tests : work'[f]["server"] = work[f]["server"] /\ bound'[f]["server"] = bound[f]["server"]
      BY <3>1
    <3> QED
      BY <3>1, <3>2
  <2>23. ASSUME NEW e \in Tests, NEW k \in Watchers, WorkExit(e, k) PROVE OfStarted'
    <3>1. k \in Kinds /\ WorkDone(e, k)
      BY <2>23 DEF WorkExit
    <3> QED
      BY <2>23, <3>1, WorkDoneFacts DEF WorkExit
  <2>24. ASSUME NEW a \in Actors, Cancel(a) PROVE OfStarted'
    BY <2>24 DEF Cancel
  <2>25. ASSUME NEW a \in Actors, Unmark(a) PROVE OfStarted'
    BY <2>25 DEF Unmark
  <2>26. ASSUME NEW a \in Actors, CheckServer(a) PROVE OfStarted'
    BY <2>26 DEF CheckServer
  <2>27. ASSUME NEW a \in Actors, StopServer(a) PROVE OfStarted'
    <3>1. CASE Panic("nilServer")
      BY <3>1 DEF Panic
    <3>2. CASE CloseServer(a, "drain")
      <4>1. listening' \subseteq listening /\ UNCHANGED <<epoch, networkServer, opened, serves, accepted, handlers, work, bound, runner>>
        BY <2>27, <3>2 DEF StopServer, CloseServer
      <4> QED
        BY <4>1
    <3> QED
      BY <2>27, <3>1, <3>2 DEF StopServer
  <2>28. ASSUME NEW a \in Actors, ClearServer(a) PROVE OfStarted'
    BY <2>28 DEF ClearServer
  <2>29. ASSUME NEW a \in Actors, Finalize(a) PROVE OfStarted'
    BY <2>29 DEF Finalize, AfterStop
  <2>30. ASSUME MainReturns PROVE OfStarted'
    BY <2>30 DEF MainReturns
  <2>31. ASSUME NEW e \in Tests, Handle(e) PROVE OfStarted'
    BY <2>31 DEF Handle
  <2>32. ASSUME ApiServerEnds PROVE OfStarted'
    BY <2>32, WokenRunners DEF ApiServerEnds
  <2>33. ASSUME UNCHANGED vars PROVE OfStarted'
    BY <2>33 DEF vars
  <2> QED
    BY <2>1, <2>2, <2>3, <2>4, <2>5, <2>6, <2>7, <2>8, <2>9, <2>10, <2>11, <2>12, <2>13, <2>14, <2>15, <2>16, <2>17,
       <2>18, <2>19, <2>20, <2>21, <2>22, <2>23, <2>24, <2>25, <2>26, <2>27, <2>28, <2>29, <2>30, <2>31, <2>32, <2>33
    DEF Next, EnvironmentStep, RunnerStep, WorkStep, StartStep, StopStep
<1> QED
  BY <1>1, <1>2, TypeAndLock, LifeInvariant, PTL DEF Spec

(* The only test of a tester: its port is closed before its server starts, *)
(* and again when its server has exited, which takes a Stop.               *)
OneTest ==
  epoch = 1 =>
    /\ runner[1] \in {"new", "listen", "fail"} => listening = {}
    /\ work[1]["server"] = "exited" => listening = {} /\ 1 \in cancelled
    /\ runner[1] \in {"finish", "close", "done"} =>
         work[1]["server"] = "exited" \/ (lastError = 1 /\ listening = {})

(* A goroutine that ends keeps that, when the server ends as it must; the  *)
(* runner it wakes finds the server exited.                                *)
LEMMA WorkDoneKeepsOneTest ==
  ASSUME TypeOK, OfStarted, OneTest, NEW e \in Tests, NEW k \in Kinds,
         work[e][k] = "running", WorkDone(e, k),
         epoch = 1 /\ k = "server" => listening = {} /\ 1 \in cancelled,
         UNCHANGED <<epoch, cancelled, lastError, listening>>
  PROVE  OneTest'
<1> DEFINE w == [work EXCEPT ![e][k] = "exited"]
<1>1. 1 \in Tests /\ "server" \in Kinds
  BY ConstantsOK, ConstantFacts DEF Tests
<1>2. /\ work' = w
      /\ work'[1]["server"] = work[1]["server"] \/ (k = "server" /\ work'[1]["server"] = "exited")
  BY <1>1 DEF WorkDone, TypeOK
<1>3. \/ runner'[1] = runner[1]
      \/ runner[1] = "wait" /\ runner'[1] = "finish" /\ Drained(work', apiServer)
  BY <1>1, WokenRunners DEF WorkDone
<1>4. Drained(work', apiServer) => work'[1]["server"] \notin {"spawned", "running"}
  BY <1>1 DEF Drained, Counted
<1>5. runner[1] = "wait" => work'[1]["server"] # "none"
  BY <1>1, <1>2 DEF OfStarted
<1>6. work'[1]["server"] \in WorkSteps
  BY <1>1, <1>2 DEF TypeOK, WorkSteps
<1>7. runner'[1] # runner[1] => work'[1]["server"] = "exited" /\ runner'[1] = "finish"
  BY <1>3, <1>4, <1>5, <1>6 DEF WorkSteps
<1>8. epoch = 1 /\ work'[1]["server"] = "exited" => listening = {} /\ 1 \in cancelled
  BY <1>2 DEF OneTest
<1>9. work[1]["server"] = "exited" => work'[1]["server"] = "exited"
  BY <1>2
<1> QED
  BY <1>7, <1>8, <1>9 DEF OneTest

(* When the API server ends, the runner it kept waiting finds the server   *)
(* of the test exited.                                                     *)
LEMMA ApiServerEndsKeepsOneTest ==
  ASSUME TypeOK, OfStarted, OneTest, ApiServerEnds
  PROVE  OneTest'
<1>1. 1 \in Tests /\ "server" \in Kinds
  BY ConstantsOK, ConstantFacts DEF Tests
<1>2. runner'[1] # runner[1] =>
        runner[1] = "wait" /\ runner'[1] = "finish" /\ Drained(work, "ended")
  BY <1>1, WokenRunners DEF ApiServerEnds
<1>3. UNCHANGED <<epoch, cancelled, lastError, listening, work>>
  BY DEF ApiServerEnds, control, sockets
<1>4. runner'[1] # runner[1] => work[1]["server"] = "exited"
  <2>1. work[1]["server"] \in WorkSteps
    BY <1>1 DEF TypeOK
  <2>2. runner[1] = "wait" => work[1]["server"] # "none"
    BY <1>1 DEF OfStarted
  <2>3. Drained(work, "ended") => work[1]["server"] \notin {"spawned", "running"}
    BY <1>1 DEF Drained, Counted
  <2> QED
    BY <1>2, <2>1, <2>2, <2>3 DEF WorkSteps
<1> QED
  BY <1>2, <1>3, <1>4 DEF OneTest

(* A server that is closed listens no more, and nothing else is said of it. *)
LEMMA ClosingKeepsOneTest ==
  ASSUME OneTest, NEW a, NEW next, CloseServer(a, next) \/ Panic("nilServer")
  PROVE  OneTest'
<1>1. UNCHANGED <<epoch, runner, work, cancelled, lastError>> /\ listening' \subseteq listening
  BY DEF CloseServer, Panic, control, sockets, tests
<1> QED
  BY <1>1 DEF OneTest

(* It holds in every state. *)
LEMMA OneTestInv == Spec => []OneTest
<1>1. Init => OneTest
  BY DEF Init, OneTest
<1>2. TypeOK /\ StartExclusive /\ LifeInv /\ OfStarted /\ OneTest /\ [Next]_vars => OneTest'
  <2> SUFFICES ASSUME TypeOK, StartExclusive, LifeInv, OfStarted, OneTest, [Next]_vars
               PROVE  OneTest'
    OBVIOUS
  <2>a. 1 \in Tests /\ \A e \in Tests : e > 0
    BY ConstantsOK DEF Tests
  <2>b. \A e \in Tests : epoch = 1 /\ runner[e] # "none" => e = 1
    BY <2>a, ConstantFacts DEF LifeInv, RunnersStarted, TypeOK, Tests
  <2> USE <2>a, <2>b, ConstantFacts
      DEF TypeOK, RunnerSteps, WorkSteps, LifeInv, RunnersStarted, BoundAhead,
          RunnerOutlivesWork, OfStarted, OneTest,
          At, RunnerAt, WorkAt, Goto, RunnerGoto, control, sockets, tests, actors
  <2>1. ASSUME NEW c \in Callers, StartWithConfig(c) PROVE OneTest'
    BY <2>1 DEF StartWithConfig
  <2>2. ASSUME NEW c \in Callers, PreviousWaited(c) PROVE OneTest'
    BY <2>2 DEF PreviousWaited
  <2>3. ASSUME NEW c \in Callers, CloseOld(c) PROVE OneTest'
    BY ONLY <2>3, OneTest, ClosingKeepsOneTest DEF CloseOld
  <2>4. ASSUME NEW c \in Callers, Reconfigure(c) PROVE OneTest'
    BY <2>4 DEF Reconfigure
  <2>5. ASSUME NEW c \in Callers, CallStop(c) PROVE OneTest'
    BY <2>5 DEF CallStop
  <2>6. ASSUME NEW r \in Requests, HandleStop(r) PROVE OneTest'
    BY <2>6 DEF HandleStop
  <2>7. ASSUME NEW e \in Tests, NewServer(e) PROVE OneTest'
    BY <2>7 DEF NewServer
  <2>8. ASSUME NEW e \in Tests, ServerStart(e) PROVE OneTest'
    <3>1. CASE Panic("nilServer")
      BY <3>1 DEF Panic
    <3>2. CASE ~Panic("nilServer")
      <4>1. runner[e] = "listen" /\ UNCHANGED <<epoch, cancelled, lastError, work>>
        BY <2>8, <3>2 DEF ServerStart
      <4>2. \/ runner' = [runner EXCEPT ![e] = "spawn"]
            \/ runner' = [runner EXCEPT ![e] = "fail"] /\ UNCHANGED listening
        BY <2>8, <3>2 DEF ServerStart
      <4>3. epoch = 1 => e = 1
        BY <4>1
      <4>4. epoch = 1 => work[1]["server"] \in WorkSteps /\ work[1]["server"] = "none"
        BY <4>1, <4>3
      <4>5. epoch = 1 => runner'[1] = "spawn" \/ (runner'[1] = "fail" /\ listening' = {})
        <5>1. CASE runner' = [runner EXCEPT ![e] = "spawn"]
          BY <4>3, <5>1
        <5>2. CASE runner' = [runner EXCEPT ![e] = "fail"] /\ listening' = listening
          <6>1. epoch = 1 => runner[1] = "listen" /\ listening = {}
            BY <4>1, <4>3
          <6> QED
            BY <4>3, <5>2, <6>1
        <5> QED
          BY <4>2, <5>1, <5>2
      <4> QED
        BY <4>1, <4>4, <4>5
    <3> QED
      BY <3>1, <3>2
  <2>9. ASSUME NEW e \in Tests, Spawn(e) PROVE OneTest'
    BY <2>9 DEF Spawn
  <2>10. ASSUME NEW e \in Tests, StartFailed(e) PROVE OneTest'
    BY <2>10 DEF StartFailed
  <2>11. ASSUME NEW e \in Tests, Finish(e) PROVE OneTest'
    BY <2>11 DEF Finish
  <2>12. ASSUME NEW e \in Tests, CloseTestDone(e) PROVE OneTest'
    <3>1. /\ runner[e] = "close" /\ UNCHANGED <<epoch, cancelled, lastError, work, listening>>
          /\ runner' = runner \/ runner' = [runner EXCEPT ![e] = "done"]
      BY <2>12 DEF CloseTestDone, Panic
    <3> QED
      BY <3>1
  <2>13. ASSUME NEW e \in Tests, ServerBegin(e) PROVE OneTest'
    BY <2>13 DEF ServerBegin, Panic
  <2>14. ASSUME NEW e \in Tests, ReporterTick(e) PROVE OneTest'
    BY <2>14 DEF ReporterTick
  <2>15. ASSUME NEW e \in Tests, ConnError(e) PROVE OneTest'
    BY <2>15, WorkDoneKeepsOneTest DEF ConnError, Kinds
  <2>16. ASSUME NEW e \in Tests, Accept(e) PROVE OneTest'
    BY <2>16 DEF Accept
  <2>17. ASSUME NEW e \in Tests, HandlerCancelled(e) PROVE OneTest'
    BY <2>17 DEF HandlerCancelled
  <2>18. ASSUME NEW e \in Tests, PeerGone(e) PROVE OneTest'
    BY <2>18 DEF PeerGone
  <2>19. ASSUME NEW e \in Tests, ListenerWatch(e) PROVE OneTest'
    BY <2>19 DEF ListenerWatch
  <2>20. ASSUME NEW e \in Tests, ServerExit(e) PROVE OneTest'
    <3>1. epoch = 1 => e = 1
      <4>1. work[e]["server"] = "running"
        BY <2>20 DEF ServerExit
      <4>2. runner[e] # "none"
        BY <4>1
      <4> QED
        BY <4>2
    <3>2. epoch = 1 => bound[e]["server"] = 1 /\ serves[e] = 1
      <4>1. e \in Nat /\ e >= 1
        OBVIOUS
      <4>2. bound[e]["server"] \in Nat
        <5>1. bound[e] \in [Kinds -> Epochs]
          OBVIOUS
        <5> QED
          BY <5>1
      <4>3. bound[e]["server"] >= e /\ bound[e]["server"] <= epoch
        BY <2>20 DEF ServerExit
      <4>4. serves[e] \in Nat /\ serves[e] # 0 /\ serves[e] <= epoch
        BY <2>20 DEF ServerExit
      <4> QED
        BY <4>1, <4>2, <4>3, <4>4
    <3>3. epoch = 1 => listening \subseteq {1}
      OBVIOUS
    <3>4. epoch = 1 => listening = {} /\ 1 \in cancelled
      BY <2>20, <3>2, <3>3 DEF ServerExit, CtxDone
    <3>5. WorkDone(e, "server") /\ work[e]["server"] = "running"
          /\ UNCHANGED <<epoch, cancelled, lastError, listening>>
      BY <2>20 DEF ServerExit
    <3> QED
      BY <3>1, <3>4, <3>5, WorkDoneKeepsOneTest
  <2>21. ASSUME NEW e \in Tests, TimerFires(e) PROVE OneTest'
    BY <2>21 DEF TimerFires
  <2>22. ASSUME NEW e \in Tests, NEW k \in Watchers, WorkBegin(e, k) PROVE OneTest'
    BY <2>22 DEF WorkBegin
  <2>23. ASSUME NEW e \in Tests, NEW k \in Watchers, WorkExit(e, k) PROVE OneTest'
    <3>1. k # "server"
      BY ConstantsOK
    <3> QED
      BY <2>23, <3>1, WorkDoneKeepsOneTest DEF WorkExit
  <2>24. ASSUME NEW a \in Actors, Cancel(a) PROVE OneTest'
    BY <2>24 DEF Cancel
  <2>25. ASSUME NEW a \in Actors, Unmark(a) PROVE OneTest'
    BY <2>25 DEF Unmark
  <2>26. ASSUME NEW a \in Actors, CheckServer(a) PROVE OneTest'
    BY <2>26 DEF CheckServer
  <2>27. ASSUME NEW a \in Actors, StopServer(a) PROVE OneTest'
    BY ONLY <2>27, OneTest, ClosingKeepsOneTest DEF StopServer
  <2>28. ASSUME NEW a \in Actors, ClearServer(a) PROVE OneTest'
    BY <2>28 DEF ClearServer
  <2>29. ASSUME NEW a \in Actors, Finalize(a) PROVE OneTest'
    BY <2>29 DEF Finalize, AfterStop
  <2>30. ASSUME MainReturns PROVE OneTest'
    BY <2>30 DEF MainReturns
  <2>31. ASSUME NEW e \in Tests, Handle(e) PROVE OneTest'
    BY <2>31 DEF Handle
  <2>32. ASSUME ApiServerEnds PROVE OneTest'
    BY <2>32, ApiServerEndsKeepsOneTest
  <2>33. ASSUME UNCHANGED vars PROVE OneTest'
    BY <2>33 DEF vars
  <2> QED
    BY <2>1, <2>2, <2>3, <2>4, <2>5, <2>6, <2>7, <2>8, <2>9, <2>10, <2>11, <2>12, <2>13, <2>14, <2>15, <2>16, <2>17,
       <2>18, <2>19, <2>20, <2>21, <2>22, <2>23, <2>24, <2>25, <2>26, <2>27, <2>28, <2>29, <2>30, <2>31, <2>32, <2>33
    DEF Next, EnvironmentStep, RunnerStep, WorkStep, StartStep, StopStep
<1> QED
  BY <1>1, <1>2, TypeAndLock, LifeInvariant, OfStartedInv, PTL DEF Spec

(* When testDone of the only test is closed, the test is over: its server  *)
(* never started and the error says so, or a Stop cancelled it, its port   *)
(* is free again, no connection it accepted has a handler left and the     *)
(* running flag is clear.                                                  *)
THEOREM DoneIsOver == Spec => []DoneMeansOver
<1>1. TypeOK /\ LifeInv /\ ClosedByRunner /\ OfStarted /\ OneTest => DoneMeansOver
  <2> SUFFICES ASSUME TypeOK, LifeInv, ClosedByRunner, OfStarted, OneTest, doneClosed, epoch = 1
               PROVE  /\ listening = {} /\ accepted = {} /\ handlers = {}
                      /\ ~isRunning
                      /\ lastError = 1 \/ 1 \in cancelled
    BY DEF DoneMeansOver
  <2>1. PICK e \in Tests : runner[e] = "done"
    BY DEF ClosedByRunner
  <2>2. e = 1
    BY <2>1, ConstantsOK DEF LifeInv, RunnersStarted, Tests
  <2>3. ~isRunning
    BY <2>1, <2>2 DEF LifeInv, FlagHasRunner
  <2>4. ASSUME NEW f \in Tests PROVE f \notin accepted \cup handlers
    <3>1. CASE f = 1
      <4>1. work[f]["server"] \in {"none", "exited"}
        BY <2>1, <2>2, <3>1, ConstantFacts DEF LifeInv, RunnerOutlivesWork
      <4> QED
        BY <4>1 DEF OfStarted
    <3>2. CASE f # 1
      <4>1. runner[f] = "none"
        BY <3>2, ConstantsOK DEF LifeInv, RunnersStarted, Tests
      <4>2. work[f]["server"] = "none"
        BY <4>1, ConstantFacts DEF LifeInv, RunnersStarted
      <4> QED
        BY <4>2 DEF OfStarted
    <3> QED
      BY <3>1, <3>2
  <2>5. accepted = {} /\ handlers = {}
    BY <2>4 DEF TypeOK
  <2>6. listening = {} /\ (lastError = 1 \/ 1 \in cancelled)
    BY <2>1, <2>2 DEF OneTest
  <2> QED
    BY <2>3, <2>5, <2>6
<1> QED
  BY <1>1, TypeAndLock, LifeInvariant, ClosedByRunnerInv, OfStartedInv, OneTestInv, PTL
=============================================================================
