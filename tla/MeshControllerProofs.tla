------------------------ MODULE MeshControllerProofs ------------------------
(***************************************************************************)
(* For any number of hosts, found in any state, whatever fails: a command  *)
(* on a host finds what the commands before it have made, a test starts    *)
(* only when every host has an agent, and a phase that succeeded on a host *)
(* has had its effect there. Within a phase every step is a step of        *)
(* ParallelMap, and the statistics displayed meanwhile add up.             *)
(*                                                                         *)
(* The invariant says, for the host of each callback, what the commands it *)
(* has run have established (DeployStep, UninstallStep) and what its       *)
(* success means (Done). A service that dies undoes none of it but the     *)
(* running agent.                                                          *)
(***************************************************************************)
EXTENDS MeshController, MeshStatsProofs, TLAPS

(* An agent answers on the host. *)
Ready(n) == Agent(host[n]) \in {"current", "foreign"}

(* What the commands run so far have made of the host. *)
DeployStep(n) ==
  pc = "deploy" /\ state[n] = "running" =>
    /\ step[n] >= 7  => host[n].service = "none"
    /\ step[n] >= 12 => host[n].binary \in {"copied", "ready"}
    /\ step[n] >= 13 => host[n].binary = "ready"
    /\ step[n] >= 14 => host[n].unit
    /\ step[n] >= 15 => host[n].loaded

(* What the commands of an uninstallation have removed so far. *)
UninstallStep(n) ==
  pc = "uninstall" /\ state[n] = "running" =>
    /\ step[n] <= 7
    /\ step[n] >= 5 => host[n].service = "none"
    /\ step[n] >= 6 => ~host[n].unit
    /\ step[n] >= 7 => host[n].binary = "absent"

(* Nothing of the installation is left. *)
Clean(n) ==
  /\ host[n].service = "none" /\ host[n].binary = "absent"
  /\ ~host[n].unit /\ ~host[n].loaded

(* What it means that the callback returned nil. *)
Done(n) ==
  state[n] = "settled" /\ err[n] = "ok" =>
    /\ pc = "deploy" /\ crashes = 0 => Ready(n)
    /\ pc = "uninstall" => Clean(n)
    /\ pc = "stop" => host[n].test = "idle"

(* A callback that was not taken has run nothing. *)
Fresh(n) == state[n] = "pending" => step[n] = 0

(* A phase that returned has a result for every host. *)
AllSettled == returned => \A n \in Nodes : state[n] = "settled"

(* A command that has ended began no new phase. *)
EndsOnce == ending # "none" => pc = "ended"

(* The inductive invariant. *)
MeshInv ==
  /\ TypeOK /\ AllSettled /\ EndsOnce
  /\ \A n \in Nodes : Fresh(n) /\ DeployStep(n) /\ UninstallStep(n) /\ Done(n)
  /\ StartNeedsAllDeployed /\ StopReachesAll /\ UninstallLeavesNothing

-----------------------------------------------------------------------------
(* The commands, one by one.                                               *)

(* The commands of cleanupNode, in their order. *)
LEMMA CleanupIs ==
  /\ Cleanup[1] = "stop" /\ Cleanup[2] = "disable" /\ Cleanup[3] = "reset-failed"
  /\ Cleanup[4] = "kill" /\ Cleanup[5] = "force-kill" /\ Cleanup[6] = "remove-unit"
  /\ Cleanup[7] = "remove-dir" /\ Cleanup[8] = "reload"
BY DEF Cleanup

(* The commands of deployToNodeWithStart, in their order. *)
LEMMA DeploymentIs ==
  /\ Deployment[1] = "connect"
  /\ Deployment[2] = "stop" /\ Deployment[3] = "disable" /\ Deployment[4] = "reset-failed"
  /\ Deployment[5] = "kill" /\ Deployment[6] = "force-kill" /\ Deployment[7] = "remove-unit"
  /\ Deployment[8] = "remove-dir" /\ Deployment[9] = "reload"
  /\ Deployment[10] = "mkdir" /\ Deployment[11] = "copy-binary" /\ Deployment[12] = "chmod"
  /\ Deployment[13] = "copy-unit" /\ Deployment[14] = "reload" /\ Deployment[15] = "start"
BY CleanupIs DEF Deployment, Installation

(* A process that is killed takes its test along, and nothing else. *)
LEMMA KilledIs ==
  ASSUME NEW h \in Host
  PROVE  /\ Killed(h) \in Host
         /\ Killed(h).service = "none"
         /\ Killed(h).foreign = h.foreign /\ Killed(h).binary = h.binary
         /\ Killed(h).unit = h.unit /\ Killed(h).loaded = h.loaded
         /\ h.test = "idle" => Killed(h).test = "idle"
BY DEF Killed, Host

(* What each command does to a host, and what it leaves alone. *)
LEMMA CommandIs ==
  ASSUME NEW h \in Host, NEW c, NEW g \in Effects(c, h)
  PROVE  /\ g \in Host
         /\ h.service = "none" /\ c # "start" => g.service = "none"
         /\ c = "force-kill" => g.service = "none"
         /\ c = "copy-binary" => g.binary = "copied"
         /\ c = "chmod" /\ h.binary \in {"copied", "ready"} => g.binary = "ready"
         /\ c = "remove-dir" => g.binary = "absent"
         /\ c \in {"copy-unit", "reload", "start"} => g.binary = h.binary
         /\ c = "copy-unit" => g.unit
         /\ c = "remove-unit" => ~g.unit
         /\ c \in {"remove-dir", "reload", "start"} => g.unit = h.unit
         /\ c = "reload" => g.loaded = h.unit
         /\ c = "start" /\ h.service = "none" /\ h.binary = "ready" => g.service = "current"
<1>1. CASE c \in {"stop", "kill", "force-kill"}
  <2>1. g \in {h, Killed(h)} /\ (c = "force-kill" => g = Killed(h))
    BY <1>1 DEF Effects, Ended
  <2> QED BY <1>1, <2>1, KilledIs
<1>2. CASE c \in {"remove-unit", "remove-dir", "reload", "mkdir"}
  <2>1. CASE c = "remove-unit"
    BY <2>1 DEF Effects, Host
  <2>2. CASE c = "remove-dir"
    BY <2>2 DEF Effects, Host
  <2>3. CASE c = "reload"
    BY <2>3 DEF Effects, Host
  <2>4. CASE c = "mkdir"
    BY <2>4 DEF Effects, Host
  <2> QED BY <1>2, <2>1, <2>2, <2>3, <2>4
<1>3. CASE c \in {"copy-binary", "chmod", "copy-unit"}
  <2>1. CASE c = "copy-binary"
    BY <2>1 DEF Effects, Host
  <2>2. CASE c = "chmod"
    BY <2>2 DEF Effects, Host
  <2>3. CASE c = "copy-unit"
    BY <2>3 DEF Effects, Host
  <2> QED BY <1>3, <2>1, <2>2, <2>3
<1>4. CASE c = "start"
  BY <1>4 DEF Effects, Host
<1>5. CASE c \notin {"stop", "kill", "force-kill", "remove-unit", "remove-dir", "reload",
                     "mkdir", "copy-binary", "chmod", "copy-unit", "start"}
  <2>1. g = h
    BY <1>5 DEF Effects
  <2> QED BY <1>5, <2>1
<1> QED BY <1>1, <1>2, <1>3, <1>4, <1>5

(* A command that fails has done its work or nothing. *)
LEMMA OutcomeIs ==
  ASSUME NEW h \in Host, NEW c, NEW o \in Outcomes(c, h)
  PROVE  /\ o.ok \in BOOLEAN
         /\ o.host \in Effects(c, h) \/ (o.host = h /\ ~o.ok)
         /\ o.host \in Host
<1>1. o \in [host : Effects(c, h), ok : {TRUE, FALSE}] \/ o = [host |-> h, ok |-> FALSE]
  BY DEF Outcomes
<1>2. o.ok \in BOOLEAN /\ (o.host \in Effects(c, h) \/ (o.host = h /\ ~o.ok))
  <2>1. CASE o = [host |-> h, ok |-> FALSE]
    BY <2>1
  <2>2. ASSUME NEW E, o \in [host : E, ok : {TRUE, FALSE}]
        PROVE  o.host \in E /\ o.ok \in BOOLEAN
    BY <2>2
  <2> QED BY <1>1, <2>1, <2>2
<1> QED BY <1>2, CommandIs

(* The answers to a start and to a stop. *)
LEMMA RequestIs ==
  ASSUME NEW h \in Host, NEW o \in StartOutcomes(h) \cup StopOutcomes(h)
  PROVE  /\ o.ok \in BOOLEAN /\ o.host \in Host
         /\ Agent(o.host) = Agent(h)
         /\ o \in StopOutcomes(h) /\ o.ok => o.host.test = "idle"
<1>1. ASSUME NEW d \in Host, o \in Requested(h, d)
      PROVE  o.ok \in BOOLEAN /\ o.host \in {h, d} /\ (o.ok => o.host = d)
  <2>1. \/ o = [host |-> d, ok |-> TRUE] \/ o = [host |-> d, ok |-> FALSE]
        \/ o = [host |-> h, ok |-> FALSE]
    BY <1>1 DEF Requested
  <2>2. CASE o = [host |-> d, ok |-> TRUE]
    BY <2>2
  <2>3. CASE o = [host |-> d, ok |-> FALSE]
    BY <2>3
  <2>4. CASE o = [host |-> h, ok |-> FALSE]
    BY <2>4
  <2> QED BY <2>1, <2>2, <2>3, <2>4
<1>2. ASSUME o \in Refused(h)
      PROVE  o.ok = FALSE /\ o.host = h
  BY <1>2 DEF Refused
<1> DEFINE at(t) == [h EXCEPT !.test = t]
<1>3. ASSUME NEW t \in {"idle", "running"}
      PROVE  at(t) \in Host /\ Agent(at(t)) = Agent(h) /\ at(t).test = t
  BY DEF Agent, Host
<1>4. CASE o \in StartOutcomes(h) \ StopOutcomes(h)
  <2>1. o \in Requested(h, at("running")) \/ o \in Refused(h)
    BY <1>4 DEF StartOutcomes
  <2> HIDE DEF at
  <2> QED BY <1>1, <1>2, <1>3, <1>4, <2>1
<1>5. CASE o \in StopOutcomes(h)
  <2>1. o \in Requested(h, at("idle")) \/ o \in Refused(h)
    BY <1>5 DEF StopOutcomes
  <2> HIDE DEF at
  <2> QED BY <1>1, <1>2, <1>3, <2>1
<1> QED BY <1>4, <1>5

-----------------------------------------------------------------------------
(* The invariant.                                                          *)

(* The initial states satisfy it. *)
LEMMA InitMesh == Init => MeshInv
<1> SUFFICES ASSUME Init PROVE MeshInv
  OBVIOUS
<1>1. TypeOK
  <2>1. host \in [Nodes -> Host]
    BY MeshAssumption DEF Init
  <2>2. step \in [Nodes -> 0..15] /\ state \in [Nodes -> {"pending", "running", "settled"}]
        /\ err \in [Nodes -> Failures \cup {"ok"}]
    BY DEF Init
  <2> QED BY <2>1, <2>2 DEF Init, TypeOK
<1>2. AllSettled /\ EndsOnce /\ StartNeedsAllDeployed /\ StopReachesAll /\ UninstallLeavesNothing
  BY DEF Init, AllSettled, EndsOnce, StartNeedsAllDeployed, Testing, StopReachesAll,
         UninstallLeavesNothing
<1>3. \A n \in Nodes : Fresh(n) /\ DeployStep(n) /\ UninstallStep(n) /\ Done(n)
  BY DEF Init, Fresh, DeployStep, UninstallStep, Done
<1> QED BY <1>1, <1>2, <1>3 DEF MeshInv

(* A new phase starts with nothing known of its hosts. *)
LEMMA PhaseBegins ==
  ASSUME MeshInv, Enter(pc'), pc' \in {"deploy", "start", "wait", "stop", "uninstall"},
         interrupt' \in BOOLEAN, pc # "ended",
         StartNeedsAllDeployed'
  PROVE  MeshInv'
<1> USE DEF MeshInv, Enter, NewPool
<1>1. TypeOK'
  <2>1. step' \in [Nodes -> 0..15] /\ state' \in [Nodes -> {"pending", "running", "settled"}]
        /\ err' \in [Nodes -> Failures \cup {"ok"}]
    OBVIOUS
  <2>2. cancelled' \in BOOLEAN /\ returned' \in BOOLEAN
    OBVIOUS
  <2> QED BY <2>1, <2>2 DEF TypeOK
<1>2. AllSettled' /\ EndsOnce'
  BY DEF AllSettled, EndsOnce
<1>3. \A n \in Nodes : (Fresh(n) /\ DeployStep(n) /\ UninstallStep(n) /\ Done(n))'
  BY DEF Fresh, DeployStep, UninstallStep, Done
<1>4. ending' = "none"
  BY DEF EndsOnce, TypeOK
<1>5. StopReachesAll' /\ UninstallLeavesNothing'
  BY <1>4 DEF StopReachesAll, UninstallLeavesNothing
<1> QED BY <1>1, <1>2, <1>3, <1>5

(* A command that ends says of its last phase only what the hosts show. *)
LEMMA CommandEnded ==
  ASSUME MeshInv, NEW why \in {"deploy failed", "start failed", "interrupted", "stopped",
                               "uninstalled", "uninstall failed"},
         EndCommand(why), interrupt' \in BOOLEAN,
         why = "stopped" => pc = "stop" /\ returned,
         why = "uninstalled" => pc = "uninstall" /\ returned /\ AllSucceeded
  PROVE  MeshInv'
<1> USE DEF MeshInv, EndCommand, pool
<1>1. TypeOK'
  BY DEF TypeOK
<1>2. AllSettled' /\ EndsOnce'
  BY DEF AllSettled, EndsOnce
<1>3. \A n \in Nodes : (Fresh(n) /\ DeployStep(n) /\ UninstallStep(n) /\ Done(n))'
  BY DEF Fresh, DeployStep, UninstallStep, Done
<1>4. StartNeedsAllDeployed'
  BY DEF StartNeedsAllDeployed, Testing
<1>5. StopReachesAll'
  BY DEF StopReachesAll, Done, AllSettled, TypeOK
<1>6. UninstallLeavesNothing'
  BY DEF UninstallLeavesNothing, Done, AllSettled, AllSucceeded, Clean
<1> QED BY <1>1, <1>2, <1>3, <1>4, <1>5, <1>6

(* The steps of the command. *)
LEMMA CommandKeeps ==
  ASSUME MeshInv,
         Begin \/ Deployed \/ DeployInterrupted \/ Started \/ WaitOver \/ Stopped \/ Uninstalled
  PROVE  MeshInv'
<1> USE DEF MeshInv
<1>0. interrupt \in BOOLEAN
  BY DEF TypeOK
<1>1. CASE Begin
  <2>1. pc' = FirstPhase /\ FirstPhase \in {"deploy", "start", "uninstall"}
    BY <1>1 DEF Begin, Enter, FirstPhase
  <2>2. StartNeedsAllDeployed'
    BY <1>1, <2>1 DEF Begin, Enter, FirstPhase, StartNeedsAllDeployed, Testing
  <2> QED BY <1>0, <1>1, <2>1, <2>2, PhaseBegins DEF Begin
<1>2. CASE Deployed
  <2>1. CASE AllSucceeded /\ Enter("start")
    <3>1. pc' = "start" /\ UNCHANGED <<command, deploys, crashes, host>>
      BY <2>1 DEF Enter
    <3>2. crashes = 0 => \A n \in Nodes : Ready(n)
      BY <1>2, <2>1 DEF Deployed, AllSettled, AllSucceeded, Done
    <3>3. StartNeedsAllDeployed'
      BY <3>1, <3>2 DEF StartNeedsAllDeployed, Ready
    <3> QED BY <1>0, <1>2, <2>1, <3>1, <3>3, PhaseBegins DEF Deployed
  <2>2. CASE EndCommand("deploy failed")
    BY <1>0, <1>2, <2>2, CommandEnded DEF Deployed
  <2> QED BY <1>2, <2>1, <2>2 DEF Deployed
<1>3. CASE DeployInterrupted
  BY <1>3, CommandEnded DEF DeployInterrupted
<1>4. CASE Started
  <2>1. CASE Enter("wait")
    <3>1. pc' = "wait" /\ UNCHANGED <<command, deploys, crashes, host>>
      BY <2>1 DEF Enter
    <3>2. StartNeedsAllDeployed'
      BY <1>4, <3>1 DEF Started, StartNeedsAllDeployed, Testing
    <3> QED BY <1>0, <1>4, <2>1, <3>1, <3>2, PhaseBegins DEF Started
  <2>2. CASE EndCommand("start failed")
    BY <1>0, <1>4, <2>2, CommandEnded DEF Started
  <2> QED BY <1>4, <2>1, <2>2 DEF Started
<1>5. CASE WaitOver
  <2>1. pc' = "stop" /\ UNCHANGED <<command, deploys, crashes, host>>
    BY <1>5 DEF WaitOver, Enter
  <2>2. StartNeedsAllDeployed'
    BY <1>5, <2>1 DEF WaitOver, StartNeedsAllDeployed, Testing
  <2>3. interrupt' \in BOOLEAN
    BY <1>0, <1>5 DEF WaitOver
  <2> QED BY <1>5, <2>1, <2>2, <2>3, PhaseBegins DEF WaitOver
<1>6. CASE Stopped
  BY <1>0, <1>6, CommandEnded DEF Stopped
<1>7. CASE Uninstalled
  BY <1>0, <1>7, CommandEnded DEF Uninstalled
<1> QED BY <1>1, <1>2, <1>3, <1>4, <1>5, <1>6, <1>7

-----------------------------------------------------------------------------
(* The steps at one host.                                                  *)

(* A callback's step disturbs nothing but what is known of its own host.   *)
LEMMA OneHost ==
  ASSUME MeshInv, NEW n \in Nodes, pc # "ended", UNCHANGED <<control, crashes>>,
         \A k \in Nodes \ {n} : /\ host'[k] = host[k] /\ state'[k] = state[k]
                                /\ err'[k] = err[k] /\ step'[k] = step[k],
         Testing => Agent(host[n])' = Agent(host[n]),
         TypeOK', AllSettled', Fresh(n)', DeployStep(n)', UninstallStep(n)', Done(n)'
  PROVE  MeshInv'
<1> USE DEF MeshInv, control
<1>1. ASSUME NEW k \in Nodes PROVE (Fresh(k) /\ DeployStep(k) /\ UninstallStep(k) /\ Done(k))'
  <2>1. CASE k = n
    BY <2>1
  <2>2. CASE k # n
    <3>1. host'[k] = host[k] /\ state'[k] = state[k] /\ err'[k] = err[k] /\ step'[k] = step[k]
      BY <2>2
    <3>2. Fresh(k)' /\ DeployStep(k)' /\ UninstallStep(k)'
      BY <3>1 DEF Fresh, DeployStep, UninstallStep
    <3>3. Done(k)'
      BY <3>1 DEF Done, Clean, Ready, Agent
    <3> QED BY <3>2, <3>3
  <2> QED BY <2>1, <2>2
<1>2. EndsOnce' /\ ending' = "none"
  BY DEF EndsOnce
<1>3. StartNeedsAllDeployed'
  BY DEF StartNeedsAllDeployed, Testing, Agent
<1>4. StopReachesAll' /\ UninstallLeavesNothing'
  BY <1>2 DEF StopReachesAll, UninstallLeavesNothing
<1> QED BY <1>1, <1>2, <1>3, <1>4

(* A callback that is taken knows nothing yet; one that is not has failed. *)
LEMMA TakeKeeps ==
  ASSUME MeshInv, NEW n \in Nodes, Take(n)
  PROVE  MeshInv'
<1>1. pc # "ended" /\ UNCHANGED <<control, crashes>> /\ UNCHANGED <<host, step, returned>>
  BY DEF Take, InPhase, Phase!Begin, Phase!Skip, Phase!Settle
<1>2. state \in [Nodes -> {"pending", "running", "settled"}] /\ err \in [Nodes -> Failures \cup {"ok"}]
      /\ state[n] = "pending" /\ cancelled' = cancelled
  BY DEF MeshInv, TypeOK, Take, Phase!Begin, Phase!Skip, Phase!Settle
<1>3. \/ state' = [state EXCEPT ![n] = "running"] /\ err' = err
      \/ state' = [state EXCEPT ![n] = "settled"] /\ err' = [err EXCEPT ![n] = "timeout"]
  BY DEF Take, Phase!Begin, Phase!Skip, Phase!Settle
<1>4. AllSettled'
  BY <1>1, <1>2 DEF MeshInv, AllSettled
<1>5. TypeOK'
  <2>1. TypeOK /\ "timeout" \in Failures
    BY DEF MeshInv, Failures
  <2>2. /\ state' \in [Nodes -> {"pending", "running", "settled"}]
        /\ err' \in [Nodes -> Failures \cup {"ok"}]
    BY <1>2, <1>3, <2>1
  <2> QED BY <1>1, <1>2, <2>1, <2>2 DEF TypeOK, control
<1>6. Fresh(n)' /\ DeployStep(n)' /\ UninstallStep(n)' /\ Done(n)'
  <2>1. step'[n] = 0 /\ state'[n] # "pending"
    BY <1>1, <1>2, <1>3 DEF MeshInv, Fresh
  <2>2. state'[n] = "settled" => err'[n] = "timeout"
    BY <1>2, <1>3
  <2> QED BY <1>1, <2>1, <2>2 DEF Fresh, DeployStep, UninstallStep, Done
<1>7. \A k \in Nodes \ {n} : /\ host'[k] = host[k] /\ state'[k] = state[k]
                             /\ err'[k] = err[k] /\ step'[k] = step[k]
  BY <1>1, <1>2, <1>3
<1> QED BY <1>1, <1>4, <1>5, <1>6, <1>7, OneHost

(* The health check either spares the host or starts its deployment. *)
LEMMA CheckKeeps ==
  ASSUME MeshInv, NEW n \in Nodes, CheckAgent(n)
  PROVE  MeshInv'
<1> USE DEF CheckAgent
<1>1. pc = "deploy" /\ state[n] = "running" /\ step[n] = 0
      /\ UNCHANGED <<control, crashes>> /\ UNCHANGED host
  OBVIOUS
<1>2. state \in [Nodes -> {"pending", "running", "settled"}] /\ err \in [Nodes -> Failures \cup {"ok"}]
      /\ step \in [Nodes -> 0..15]
  BY DEF MeshInv, TypeOK
<1>3. pc' = "deploy" /\ UNCHANGED <<command, deploys, pc, ending, interrupt>>
  BY <1>1 DEF control
<1>4. AllSettled' /\ ~returned
  BY <1>1 DEF MeshInv, AllSettled, Settle, Phase!Settle, pool
<1>5. CASE Settle(n, TRUE) /\ UNCHANGED step /\ Agent(host[n]) = "current"
  <2>1. state' = [state EXCEPT ![n] = "settled"] /\ err' = [err EXCEPT ![n] = "ok"]
        /\ UNCHANGED <<cancelled, returned>>
    BY <1>5 DEF Settle, Phase!Settle
  <2>2. TypeOK'
    BY <1>1, <1>2, <1>3, <1>5, <2>1 DEF MeshInv, TypeOK, Failures
  <2>3. state'[n] = "settled"
    BY <1>2, <2>1
  <2>4. Fresh(n)' /\ DeployStep(n)' /\ UninstallStep(n)'
    BY <1>3, <2>3 DEF Fresh, DeployStep, UninstallStep
  <2>5. Done(n)'
    BY <1>1, <1>3, <1>5 DEF Done, Ready, Agent
  <2>6. \A k \in Nodes \ {n} : /\ host'[k] = host[k] /\ state'[k] = state[k]
                               /\ err'[k] = err[k] /\ step'[k] = step[k]
    BY <1>1, <1>2, <1>5, <2>1
  <2> QED BY <1>1, <1>4, <2>2, <2>4, <2>5, <2>6, OneHost DEF Testing
<1>6. CASE step' = [step EXCEPT ![n] = 1] /\ UNCHANGED pool
  <2>1. UNCHANGED <<cancelled, state, err, returned>>
    BY <1>6 DEF pool
  <2>2. TypeOK'
    <3>1. step' \in [Nodes -> 0..15]
      BY <1>2, <1>6
    <3> QED BY <1>1, <1>3, <2>1, <3>1 DEF MeshInv, TypeOK
  <2>3. step'[n] = 1
    BY <1>2, <1>6
  <2>4. Fresh(n)' /\ DeployStep(n)' /\ UninstallStep(n)' /\ Done(n)'
    BY <1>1, <1>3, <2>1, <2>3 DEF Fresh, DeployStep, UninstallStep, Done
  <2>5. \A k \in Nodes \ {n} : /\ host'[k] = host[k] /\ state'[k] = state[k]
                               /\ err'[k] = err[k] /\ step'[k] = step[k]
    BY <1>1, <1>2, <1>6, <2>1
  <2> QED BY <1>1, <1>4, <2>2, <2>4, <2>5, OneHost DEF Testing
<1>7. \/ Settle(n, TRUE) /\ UNCHANGED step /\ Agent(host[n]) = "current"
      \/ step' = [step EXCEPT ![n] = 1] /\ UNCHANGED pool
  BY DEF Health
<1> QED BY <1>5, <1>6, <1>7

(* A start or a stop is requested; a stop that succeeds leaves no test.    *)
LEMMA RequestKeeps ==
  ASSUME MeshInv, NEW n \in Nodes, StartTest(n) \/ StopTest(n)
  PROVE  MeshInv'
<1>1. pc \in {"start", "stop"} /\ state[n] = "running" /\ host[n] \in Host
      /\ UNCHANGED <<control, crashes>> /\ UNCHANGED step
  BY DEF MeshInv, TypeOK, StartTest, StopTest, Request
<1>2. PICK o \in StartOutcomes(host[n]) \cup StopOutcomes(host[n]) :
        /\ host' = [host EXCEPT ![n] = o.host] /\ Settle(n, o.ok)
        /\ pc = "stop" => o \in StopOutcomes(host[n])
  BY DEF StartTest, StopTest, Request
<1>3. o.ok \in BOOLEAN /\ o.host \in Host /\ Agent(o.host) = Agent(host[n])
      /\ (pc = "stop" /\ o.ok => o.host.test = "idle")
  BY <1>1, <1>2, RequestIs
<1>4. state' = [state EXCEPT ![n] = "settled"]
      /\ err' = [err EXCEPT ![n] = IF o.ok THEN "ok" ELSE "failed"]
      /\ UNCHANGED <<cancelled, returned>>
  BY <1>2 DEF Settle, Phase!Settle
<1>5. host \in [Nodes -> Host] /\ state \in [Nodes -> {"pending", "running", "settled"}]
      /\ err \in [Nodes -> Failures \cup {"ok"}]
  BY DEF MeshInv, TypeOK
<1>6. UNCHANGED <<command, deploys, pc, ending, interrupt>>
  BY <1>1 DEF control
<1>7. AllSettled'
  BY <1>1, <1>4 DEF MeshInv, AllSettled
<1>8. TypeOK'
  <2>1. host' \in [Nodes -> Host]
    BY <1>2, <1>3, <1>5
  <2>2. state' \in [Nodes -> {"pending", "running", "settled"}] /\ err' \in [Nodes -> Failures \cup {"ok"}]
    BY <1>4, <1>5 DEF Failures
  <2> QED BY <1>1, <1>4, <1>6, <2>1, <2>2 DEF MeshInv, TypeOK
<1>9. host'[n] = o.host /\ state'[n] = "settled" /\ err'[n] = IF o.ok THEN "ok" ELSE "failed"
  BY <1>2, <1>4, <1>5
<1>10. Fresh(n)' /\ DeployStep(n)' /\ UninstallStep(n)' /\ Done(n)'
  BY <1>1, <1>3, <1>6, <1>9 DEF Fresh, DeployStep, UninstallStep, Done
<1>11. \A k \in Nodes \ {n} : /\ host'[k] = host[k] /\ state'[k] = state[k]
                              /\ err'[k] = err[k] /\ step'[k] = step[k]
  BY <1>1, <1>2, <1>4, <1>5
<1>12. Agent(host[n])' = Agent(host[n])
  BY <1>3, <1>9 DEF Agent
<1> QED BY <1>1, <1>7, <1>8, <1>10, <1>11, <1>12, OneHost

(* The command of each step of the deployment, and what it establishes     *)
(* given what those before it did.                                         *)
LEMMA DeployCommand ==
  ASSUME MeshInv, NEW n \in Nodes, pc = "deploy", state[n] = "running", step[n] > 0,
         NEW o \in Outcomes(Current(n), host[n]), o.ok
  PROVE  /\ step[n] + 1 >= 7  => o.host.service = "none" \/ step[n] = 15
         /\ step[n] + 1 >= 12 => o.host.binary \in {"copied", "ready"}
         /\ step[n] + 1 >= 13 => o.host.binary = "ready"
         /\ step[n] + 1 >= 14 => o.host.unit
         /\ step[n] + 1 >= 15 => o.host.loaded \/ step[n] = 15
         /\ step[n] = 15 => o.host.service = "current"
         /\ IsLast(n) <=> step[n] = 15
<1>1. host[n] \in Host /\ step[n] \in 1..15 /\ Current(n) = Deployment[step[n]]
  <2>1. host \in [Nodes -> Host] /\ step \in [Nodes -> 0..15]
    BY DEF MeshInv, TypeOK
  <2>2. Current(n) = Deployment[step[n]]
    BY DEF Current, Commands
  <2> QED BY <2>1, <2>2
<1>2. o.host \in Effects(Current(n), host[n])
  BY <1>1, OutcomeIs
<1>3. DeployStep(n)
  BY DEF MeshInv
<1> DEFINE c == Current(n)
<1>4. c = Deployment[step[n]]
  BY <1>1
<1>5. /\ step[n] = 6  => c = "force-kill"
      /\ step[n] >= 7 /\ step[n] # 15 => c # "start"
      /\ step[n] = 11 => c = "copy-binary"
      /\ step[n] = 12 => c = "chmod"
      /\ step[n] = 13 => c = "copy-unit"
      /\ step[n] = 14 => c = "reload"
      /\ step[n] = 15 <=> c = "start"
  <2> HIDE DEF c
  <2> QED BY <1>1, <1>4, DeploymentIs
<1>6. IsLast(n) <=> c = "start"
  BY DEF IsLast
<1> DEFINE h == host[n]
           g == o.host
<1>7. /\ h.service = "none" /\ c # "start" => g.service = "none"
      /\ c = "force-kill" => g.service = "none"
      /\ c = "copy-binary" => g.binary = "copied"
      /\ c = "chmod" /\ h.binary \in {"copied", "ready"} => g.binary = "ready"
      /\ c \in {"copy-unit", "reload", "start"} => g.binary = h.binary
      /\ c = "copy-unit" => g.unit
      /\ c \in {"remove-dir", "reload", "start"} => g.unit = h.unit
      /\ c = "reload" => g.loaded = h.unit
      /\ c = "start" /\ h.service = "none" /\ h.binary = "ready" => g.service = "current"
  BY <1>1, <1>2, CommandIs
<1>8. /\ step[n] >= 7  => h.service = "none"
      /\ step[n] >= 12 => h.binary \in {"copied", "ready"}
      /\ step[n] >= 13 => h.binary = "ready"
      /\ step[n] >= 14 => h.unit
      /\ step[n] >= 15 => h.loaded
  BY <1>3 DEF DeployStep
<1> HIDE DEF c, g, h
<1>9. /\ step[n] + 1 >= 7  => g.service = "none" \/ step[n] = 15
      /\ step[n] + 1 >= 12 => g.binary \in {"copied", "ready"}
      /\ step[n] + 1 >= 13 => g.binary = "ready"
      /\ step[n] + 1 >= 14 => g.unit
      /\ step[n] + 1 >= 15 => g.loaded \/ step[n] = 15
      /\ step[n] = 15 => g.service = "current"
  BY <1>1, <1>5, <1>7, <1>8
<1> QED BY <1>1, <1>5, <1>6, <1>9 DEF g, c

(* The same for the commands of an uninstallation. *)
LEMMA UninstallCommand ==
  ASSUME MeshInv, NEW n \in Nodes, pc = "uninstall", state[n] = "running",
         NEW o \in Outcomes(Current(n), host[n]), o.ok
  PROVE  /\ step[n] + 1 >= 5 => o.host.service = "none"
         /\ step[n] + 1 >= 6 => ~o.host.unit
         /\ step[n] + 1 >= 7 => o.host.binary = "absent"
         /\ step[n] = 7 => ~o.host.loaded
         /\ IsLast(n) <=> step[n] = 7
<1>1. host[n] \in Host /\ step[n] \in 0..7 /\ Current(n) = Cleanup[step[n] + 1]
  <2>1. host \in [Nodes -> Host] /\ step \in [Nodes -> 0..15]
    BY DEF MeshInv, TypeOK
  <2>2. step[n] <= 7
    BY DEF MeshInv, UninstallStep
  <2>3. Current(n) = Cleanup[step[n] + 1]
    BY DEF Current, Commands
  <2> QED BY <2>1, <2>2, <2>3
<1>2. o.host \in Effects(Current(n), host[n])
  BY <1>1, OutcomeIs
<1>3. UninstallStep(n)
  BY DEF MeshInv
<1> DEFINE c == Current(n)
<1>4. c = Cleanup[step[n] + 1]
  BY <1>1
<1>5. /\ step[n] = 4 => c = "force-kill"
      /\ step[n] = 5 => c = "remove-unit"
      /\ step[n] = 6 => c = "remove-dir"
      /\ step[n] = 7 <=> c = "reload"
      /\ c # "start"
  <2> HIDE DEF c
  <2> QED BY <1>1, <1>4, CleanupIs
<1>6. IsLast(n) <=> c = "reload"
  BY DEF IsLast
<1> DEFINE h == host[n]
           g == o.host
<1>7. /\ h.service = "none" /\ c # "start" => g.service = "none"
      /\ c = "force-kill" => g.service = "none"
      /\ c = "remove-dir" => g.binary = "absent"
      /\ c = "reload" => g.binary = h.binary
      /\ c = "remove-unit" => ~g.unit
      /\ c \in {"remove-dir", "reload"} => g.unit = h.unit
      /\ c = "reload" => g.loaded = h.unit
  BY <1>1, <1>2, CommandIs
<1>8. /\ step[n] >= 5 => h.service = "none"
      /\ step[n] >= 6 => ~h.unit
      /\ step[n] >= 7 => h.binary = "absent"
  BY <1>3 DEF UninstallStep
<1> HIDE DEF c, g, h
<1>9. /\ step[n] + 1 >= 5 => g.service = "none"
      /\ step[n] + 1 >= 6 => ~g.unit
      /\ step[n] + 1 >= 7 => g.binary = "absent"
      /\ step[n] = 7 => ~g.loaded
  BY <1>1, <1>5, <1>7, <1>8
<1> QED BY <1>1, <1>5, <1>6, <1>9 DEF g, c

(* A command runs: the next is due, or the callback returns.               *)
LEMMA RunKeeps ==
  ASSUME MeshInv, NEW n \in Nodes, RunCommand(n)
  PROVE  MeshInv'
<1>1. /\ pc \in {"deploy", "uninstall"} /\ state[n] = "running"
      /\ pc = "deploy" => step[n] > 0
      /\ UNCHANGED <<control, crashes>>
  BY DEF RunCommand, AtCommand
<1>2. PICK o \in Outcomes(Current(n), host[n]) :
        /\ host' = [host EXCEPT ![n] = o.host]
        /\ \/ o.ok /\ ~IsLast(n) /\ step' = [step EXCEPT ![n] = @ + 1] /\ UNCHANGED pool
           \/ (o.ok => IsLast(n)) /\ Settle(n, o.ok) /\ UNCHANGED step
  BY DEF RunCommand
<1>3. /\ host \in [Nodes -> Host] /\ state \in [Nodes -> {"pending", "running", "settled"}]
      /\ err \in [Nodes -> Failures \cup {"ok"}] /\ step \in [Nodes -> 0..15]
  BY DEF MeshInv, TypeOK
<1>4. UNCHANGED <<command, deploys, pc, ending, interrupt>>
  BY <1>1 DEF control
<1>5. o.ok \in BOOLEAN /\ o.host \in Host
  BY <1>3, OutcomeIs
<1>6. host'[n] = o.host /\ host' \in [Nodes -> Host]
  BY <1>2, <1>3, <1>5
<1>7. CASE o.ok /\ ~IsLast(n) /\ step' = [step EXCEPT ![n] = @ + 1] /\ UNCHANGED pool
  <2>1. UNCHANGED <<cancelled, state, err, returned>>
    BY <1>7 DEF pool
  <2>2. /\ pc = "deploy" => step[n] # 15
        /\ pc = "uninstall" => step[n] # 7 /\ step[n] <= 7
    BY <1>1, <1>7, DeployCommand, UninstallCommand DEF MeshInv, UninstallStep
  <2>3. step'[n] = step[n] + 1 /\ step' \in [Nodes -> 0..15]
    BY <1>1, <1>3, <1>7, <2>2
  <2>4. TypeOK' /\ AllSettled'
    BY <1>1, <1>4, <1>6, <2>1, <2>3 DEF MeshInv, TypeOK, AllSettled
  <2>5. DeployStep(n)'
    BY <1>1, <1>2, <1>4, <1>6, <1>7, <2>1, <2>2, <2>3, DeployCommand DEF DeployStep
  <2>6. UninstallStep(n)'
    <3>1. CASE pc = "uninstall"
      <4>1. step[n] \in 0..6
        BY <1>3, <2>2, <3>1
      <4> QED BY <1>1, <1>2, <1>4, <1>6, <1>7, <2>3, <3>1, <4>1, UninstallCommand DEF UninstallStep
    <3> QED BY <1>4, <3>1 DEF UninstallStep
  <2>7. Fresh(n)' /\ Done(n)'
    BY <1>1, <2>1 DEF Fresh, Done
  <2>8. \A k \in Nodes \ {n} : /\ host'[k] = host[k] /\ state'[k] = state[k]
                               /\ err'[k] = err[k] /\ step'[k] = step[k]
    BY <1>2, <1>3, <1>7, <2>1
  <2> QED BY <1>1, <2>4, <2>5, <2>6, <2>7, <2>8, OneHost DEF Testing
<1>8. CASE (o.ok => IsLast(n)) /\ Settle(n, o.ok) /\ UNCHANGED step
  <2>1. state' = [state EXCEPT ![n] = "settled"]
        /\ err' = [err EXCEPT ![n] = IF o.ok THEN "ok" ELSE "failed"]
        /\ UNCHANGED <<cancelled, returned>>
    BY <1>8 DEF Settle, Phase!Settle
  <2>2. state' \in [Nodes -> {"pending", "running", "settled"}] /\ err' \in [Nodes -> Failures \cup {"ok"}]
    BY <1>3, <2>1 DEF Failures
  <2>3. state'[n] = "settled" /\ err'[n] = IF o.ok THEN "ok" ELSE "failed"
    BY <1>3, <2>1
  <2>4. TypeOK' /\ AllSettled'
    <3>1. TypeOK'
      BY <1>1, <1>3, <1>4, <1>6, <1>8, <2>1, <2>2 DEF MeshInv, TypeOK
    <3>2. AllSettled'
      BY <1>1, <2>1 DEF MeshInv, AllSettled
    <3> QED BY <3>1, <3>2
  <2>5. Fresh(n)' /\ DeployStep(n)' /\ UninstallStep(n)'
    BY <2>3 DEF Fresh, DeployStep, UninstallStep
  <2>6. pc = "deploy" /\ o.ok => o.host.service = "current"
    BY <1>1, <1>2, <1>8, DeployCommand
  <2>7. pc = "uninstall" /\ o.ok => /\ o.host.service = "none" /\ o.host.binary = "absent"
                                    /\ ~o.host.unit /\ ~o.host.loaded
    BY <1>1, <1>2, <1>8, UninstallCommand
  <2>8. Done(n)'
    BY <1>1, <1>4, <1>5, <1>6, <2>3, <2>6, <2>7 DEF Done, Ready, Clean, Agent
  <2>9. \A k \in Nodes \ {n} : /\ host'[k] = host[k] /\ state'[k] = state[k]
                               /\ err'[k] = err[k] /\ step'[k] = step[k]
    BY <1>2, <1>3, <1>8, <2>1
  <2> QED BY <1>1, <2>4, <2>5, <2>8, <2>9, OneHost DEF Testing
<1> QED BY <1>2, <1>7, <1>8

(* A step of the hosts alone is well typed if the hosts are. *)
LEMMA HostsMayChange ==
  ASSUME TypeOK, host' \in [Nodes -> Host], crashes' \in Nat,
         UNCHANGED <<command, deploys, pc, ending, interrupt, step>>,
         UNCHANGED <<cancelled, state, err, returned>>
  PROVE  TypeOK'
BY DEF TypeOK

(* A test that ends, or a service that dies, undoes only what the          *)
(* invariant does not say of it.                                           *)
LEMMA HostKeeps ==
  ASSUME MeshInv, NEW n \in Nodes, TestEnds(n) \/ ServiceDies(n)
  PROVE  MeshInv'
<1>1. UNCHANGED <<command, deploys, pc, ending, interrupt>> /\ UNCHANGED step
      /\ UNCHANGED <<cancelled, state, err, returned>>
  BY DEF TestEnds, ServiceDies, control, pool
<1>2. host \in [Nodes -> Host] /\ crashes \in Nat
  BY DEF MeshInv, TypeOK
<1>3. PICK h \in Host : /\ host' = [host EXCEPT ![n] = h]
                        /\ h.service = host[n].service \/ h.service = "none"
                        /\ h.binary = host[n].binary /\ h.unit = host[n].unit
                        /\ h.loaded = host[n].loaded
                        /\ host[n].test = "idle" => h.test = "idle"
                        /\ crashes' = crashes => Agent(h) = Agent(host[n])
  <2>1. CASE TestEnds(n)
    <3> DEFINE h == [host[n] EXCEPT !.test = "idle"]
    <3>1. host' = [host EXCEPT ![n] = h]
      BY <2>1 DEF TestEnds
    <3>2. h \in Host /\ h.service = host[n].service /\ h.binary = host[n].binary
          /\ h.unit = host[n].unit /\ h.loaded = host[n].loaded /\ h.foreign = host[n].foreign
          /\ h.test = "idle"
      BY <1>2 DEF Host
    <3> HIDE DEF h
    <3> QED BY <3>1, <3>2 DEF Agent
  <2>2. CASE ServiceDies(n)
    <3>1. host[n] \in Host /\ crashes' # crashes
      BY <1>2, <2>2 DEF ServiceDies
    <3> QED BY <2>2, <3>1, KilledIs DEF ServiceDies
  <2> QED BY <2>1, <2>2
<1>4. crashes' \in Nat /\ (crashes' = 0 => crashes = 0 /\ crashes' = crashes)
  BY <1>2 DEF TestEnds, ServiceDies
<1>5. host' \in [Nodes -> Host] /\ host'[n] = h /\ \A k \in Nodes \ {n} : host'[k] = host[k]
  BY <1>2, <1>3
<1>6. TypeOK' /\ AllSettled' /\ EndsOnce'
  <2>1. TypeOK'
    <3>1. TypeOK
      BY DEF MeshInv
    <3>2. host' \in [Nodes -> Host] /\ crashes' \in Nat
      BY <1>4, <1>5
    <3> QED BY <1>1, <3>1, <3>2, HostsMayChange
  <2>2. AllSettled' /\ EndsOnce'
    BY <1>1 DEF MeshInv, AllSettled, EndsOnce
  <2> QED BY <2>1, <2>2
<1>7. ASSUME NEW k \in Nodes
      PROVE  /\ host'[k].service = host[k].service \/ host'[k].service = "none"
             /\ host'[k].binary = host[k].binary /\ host'[k].unit = host[k].unit
             /\ host'[k].loaded = host[k].loaded
             /\ host[k].test = "idle" => host'[k].test = "idle"
             /\ crashes' = crashes => Agent(host'[k]) = Agent(host[k])
  BY <1>3, <1>5
<1>8. ASSUME NEW k \in Nodes
      PROVE  (Fresh(k) /\ DeployStep(k) /\ UninstallStep(k) /\ Done(k))'
  <2>1. Fresh(k) /\ DeployStep(k) /\ UninstallStep(k) /\ Done(k)
    BY DEF MeshInv
  <2>2. Fresh(k)' /\ DeployStep(k)' /\ UninstallStep(k)'
    BY <1>1, <1>7, <2>1 DEF Fresh, DeployStep, UninstallStep
  <2>3. Ready(k) /\ crashes' = crashes => Ready(k)'
    BY <1>7 DEF Ready
  <2>4. Done(k)'
    BY <1>1, <1>4, <1>7, <2>1, <2>3 DEF Done, Clean
  <2> QED BY <2>2, <2>4
<1>9. StartNeedsAllDeployed'
  BY <1>1, <1>4, <1>7 DEF MeshInv, StartNeedsAllDeployed, Testing
<1>10. StopReachesAll'
  <2>1. ASSUME NEW k \in Nodes, host'[k].test = "running" PROVE host[k].test = "running"
    BY <1>2, <1>7, <2>1 DEF Host
  <2> QED BY <1>1, <2>1 DEF MeshInv, StopReachesAll
<1>11. UninstallLeavesNothing'
  BY <1>1, <1>7 DEF MeshInv, UninstallLeavesNothing
<1> QED BY <1>6, <1>8, <1>9, <1>10, <1>11 DEF MeshInv

(* A pool that returns, a phase's timeout, a signal: no host is touched.   *)
LEMMA PoolKeeps ==
  ASSUME MeshInv, PhaseReturns \/ PhaseTimesOut \/ Signal \/ UNCHANGED vars
  PROVE  MeshInv'
<1>1. UNCHANGED <<command, deploys, pc, ending>> /\ UNCHANGED <<crashes, host, step>>
      /\ UNCHANGED <<state, err>> /\ interrupt' \in BOOLEAN
      /\ cancelled' \in BOOLEAN /\ returned' \in BOOLEAN
  BY DEF MeshInv, TypeOK, PhaseReturns, PhaseTimesOut, Signal, vars, control, pool, Phase!Return,
         Phase!Cancel
<1>2. AllSettled'
  BY <1>1 DEF MeshInv, AllSettled, PhaseReturns, PhaseTimesOut, Signal, vars, pool, Phase!Return,
              Phase!Cancel
<1>3. TypeOK' /\ EndsOnce'
  BY <1>1 DEF MeshInv, TypeOK, EndsOnce
<1>4. \A n \in Nodes : (Fresh(n) /\ DeployStep(n) /\ UninstallStep(n) /\ Done(n))'
  BY <1>1 DEF MeshInv, Fresh, DeployStep, UninstallStep, Done, Ready, Clean, Agent
<1>5. StartNeedsAllDeployed' /\ StopReachesAll' /\ UninstallLeavesNothing'
  BY <1>1 DEF MeshInv, StartNeedsAllDeployed, Testing, Agent, StopReachesAll, UninstallLeavesNothing
<1> QED BY <1>2, <1>3, <1>4, <1>5 DEF MeshInv

(* The invariant holds in every state. *)
LEMMA MeshInvariant == Spec => []MeshInv
<1>1. Init => MeshInv
  BY InitMesh
<1>2. MeshInv /\ [Next]_vars => MeshInv'
  <2> SUFFICES ASSUME MeshInv, [Next]_vars PROVE MeshInv'
    OBVIOUS
  <2>1. CASE Controller
    BY <2>1, CommandKeeps, PoolKeeps DEF Controller
  <2>2. CASE Signal \/ PhaseTimesOut \/ UNCHANGED vars
    BY <2>2, PoolKeeps
  <2>3. ASSUME NEW n \in Nodes, Callback(n) \/ TestEnds(n) \/ ServiceDies(n) PROVE MeshInv'
    BY <2>3, TakeKeeps, CheckKeeps, RunKeeps, RequestKeeps, HostKeeps DEF Callback
  <2> QED BY <2>1, <2>2, <2>3 DEF Next
<1> QED BY <1>1, <1>2, PTL DEF Spec

-----------------------------------------------------------------------------
(* Every state of the controller and its hosts is well typed.              *)
THEOREM TypeCorrect == Spec => []TypeOK
BY MeshInvariant, PTL DEF MeshInv

(* Tests start only when each host has an agent: Deploy's success means    *)
(* that, for any number of hosts found in any state.                       *)
THEOREM TestsNeedAgents == Spec => []StartNeedsAllDeployed
BY MeshInvariant, PTL DEF MeshInv

(* Each command of a deployment or an uninstallation finds what it needs,  *)
(* though services may die and answers be lost at any point.               *)
THEOREM CommandsInOrder == Spec => []CommandsFindTheirInputs
<1>1. MeshInv => CommandsFindTheirInputs
  <2> SUFFICES ASSUME MeshInv, NEW n \in Nodes, AtCommand(n)
               PROVE  /\ Current(n) = "remove-dir" => host[n].service = "none"
                      /\ Current(n) = "start" =>
                           /\ host[n].service = "none" /\ host[n].binary = "ready"
                           /\ host[n].unit /\ host[n].loaded
    BY DEF CommandsFindTheirInputs
  <2>1. step[n] \in 0..15 /\ DeployStep(n) /\ UninstallStep(n)
    BY DEF MeshInv, TypeOK
  <2>2. CASE pc = "uninstall"
    <3>1. Current(n) = Cleanup[step[n] + 1] /\ step[n] \in 0..7
      BY <2>1, <2>2 DEF AtCommand, UninstallStep, Current, Commands
    <3>2. Current(n) # "start" /\ (Current(n) = "remove-dir" => step[n] >= 5)
      BY <3>1, CleanupIs
    <3> QED BY <2>1, <2>2, <3>2 DEF AtCommand, UninstallStep
  <2>3. CASE pc = "deploy" /\ step[n] > 0
    <3>1. Current(n) = Deployment[step[n]] /\ step[n] \in 1..15
      BY <2>1, <2>3 DEF Current, Commands
    <3>2. /\ Current(n) = "start" => step[n] >= 15
          /\ Current(n) = "remove-dir" => step[n] >= 7
      BY <3>1, DeploymentIs
    <3> QED BY <2>1, <2>3, <3>2 DEF AtCommand, DeployStep
  <2> QED BY <2>2, <2>3 DEF AtCommand
<1> QED BY <1>1, MeshInvariant, PTL

(* A controller that stops the tests leaves one running only where the     *)
(* stop did not succeed.                                                   *)
THEOREM StoppedMeansStopped == Spec => []StopReachesAll
BY MeshInvariant, PTL DEF MeshInv

(* An uninstallation that reports success left nothing on any host.        *)
THEOREM UninstalledMeansGone == Spec => []UninstallLeavesNothing
BY MeshInvariant, PTL DEF MeshInv

-----------------------------------------------------------------------------
(* The phases.                                                             *)

(* A phase begins with a pool as the worker pool makes it, after the phase *)
(* before it returned; the wait has no pool of its own.                    *)
NewPhase ==
  /\ pc' # pc
  /\ InPhase => returned
  /\ (Phase!Init)'

(* The callbacks and what the controller does between them keep to the     *)
(* pool: within a phase the controller sees the runs of ParallelMap, which *)
(* PoolImplementsMap says are those of the code's pool, and no result      *)
(* changes after a phase has returned.                                     *)
PoolKept ==
  /\ Phase!Next \/ UNCHANGED pool \/ NewPhase
  /\ returned /\ ~NewPhase => UNCHANGED <<state, err, returned>>

(* Every step of the controller, of a callback or of a host keeps to the   *)
(* pool that its phase was given.                                          *)
THEOREM PhasesArePools == Spec => [][PoolKept]_<<pc, pool>>
<1>1. MeshInv /\ [Next]_vars => [PoolKept]_<<pc, pool>>
  <2> SUFFICES ASSUME MeshInv, Next, ~UNCHANGED <<pc, pool>> PROVE PoolKept
    BY DEF vars, control
  <2>1. ASSUME returned, Phase!Next PROVE UNCHANGED <<state, err, returned>>
    <3>1. \A n \in Nodes : state[n] = "settled"
      BY <2>1 DEF MeshInv, AllSettled
    <3>2. Phase!Cancel
      BY <2>1, <3>1 DEF Phase!Next, Phase!Begin, Phase!Finish, Phase!Skip, Phase!Return
    <3> QED BY <3>2 DEF Phase!Cancel
  <2>2. ASSUME Phase!Next PROVE PoolKept
    BY <2>1, <2>2 DEF PoolKept
  <2>3. ASSUME UNCHANGED pool PROVE PoolKept
    BY <2>3 DEF PoolKept, pool
  <2>4. ASSUME NEW phase, Enter(phase), pc # phase, InPhase => returned PROVE PoolKept
    BY <2>4 DEF Enter, NewPool, PoolKept, NewPhase, Phase!Init
  <2>5. CASE Controller
    <3>1. CASE Begin
      BY <3>1, <2>4 DEF Begin, FirstPhase, InPhase
    <3>2. CASE Deployed
      BY <3>2, <2>3, <2>4 DEF Deployed, EndCommand
    <3>3. CASE Started
      BY <3>3, <2>3, <2>4 DEF Started, EndCommand
    <3>4. CASE WaitOver
      BY <3>4, <2>4 DEF WaitOver, InPhase
    <3>5. CASE DeployInterrupted \/ Stopped \/ Uninstalled
      BY <3>5, <2>3 DEF DeployInterrupted, Stopped, Uninstalled, EndCommand
    <3>6. CASE PhaseReturns
      BY <3>6, <2>2 DEF PhaseReturns, Phase!Next
    <3> QED BY <2>5, <3>1, <3>2, <3>3, <3>4, <3>5, <3>6 DEF Controller
  <2>6. CASE Signal \/ PhaseTimesOut
    BY <2>6, <2>2, <2>3 DEF Signal, PhaseTimesOut, Phase!Next
  <2>7. ASSUME NEW n \in Nodes, NEW ok, state[n] = "running", Settle(n, ok) PROVE PoolKept
    BY <2>7, <2>2 DEF Settle, Phase!Next, Phase!Finish
  <2>8. ASSUME NEW n \in Nodes, Callback(n) \/ TestEnds(n) \/ ServiceDies(n) PROVE PoolKept
    <3>1. CASE Take(n)
      BY <3>1, <2>2 DEF Take, Phase!Next
    <3>2. CASE CheckAgent(n)
      BY <3>2, <2>3, <2>7 DEF CheckAgent
    <3>3. CASE RunCommand(n)
      BY <3>3, <2>3, <2>7 DEF RunCommand, AtCommand
    <3>4. CASE StartTest(n) \/ StopTest(n)
      BY <3>4, <2>7 DEF StartTest, StopTest, Request
    <3>5. CASE TestEnds(n) \/ ServiceDies(n)
      BY <3>5, <2>3 DEF TestEnds, ServiceDies
    <3> QED BY <2>8, <3>1, <3>2, <3>3, <3>4, <3>5 DEF Callback
  <2> QED BY <2>5, <2>6, <2>8 DEF Next
<1> QED BY <1>1, MeshInvariant, PTL DEF Spec

-----------------------------------------------------------------------------
(* What is displayed.                                                      *)

(* Whenever the controller waits, what GetStats makes of the reports is    *)
(* what AggregatesAddUp says, for any servers and reports: each active     *)
(* server counts once with its last report, counts, totals, averages and   *)
(* extremes are those of the servers that measured the metric, the total   *)
(* of the reconnections to targets is divided by the servers, and          *)
(* TotalReconnects stays 0.                                                *)
THEOREM ShownStatsAddUp == Spec => []StatsAddUp
<1>1. StatsAddUp
  BY AggregatesHold DEF StatsAddUp
<1> QED BY <1>1, PTL

(* Whenever the controller waits, the lists it sorts are ranked.           *)
THEOREM ListsShownRanked == Spec => []DisplayIsRanked
<1>1. DisplayIsRanked
  BY ListsHold DEF DisplayIsRanked
<1> QED BY <1>1, PTL
=============================================================================
