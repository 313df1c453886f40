--------------------------- MODULE MeshController ---------------------------
(***************************************************************************)
(* The mesh controller (pkg/mesh/controller.go) and the hosts it controls: *)
(* `gosmesh mesh' deploys to all hosts, starts a test on all, waits for    *)
(* the duration or a signal, and stops all; `gosmesh uninstall' cleans all *)
(* up. Each phase maps its callback over the hosts with the worker pool,   *)
(* here by what the pool promises (ParallelMap), while commands and        *)
(* requests fail, agents die, tests end by their own timers and the user   *)
(* interrupts. Reports do not change what the controller does: MeshStats   *)
(* has them.                                                               *)
(***************************************************************************)
EXTENDS MeshNode, MeshStats

CONSTANTS
  Nodes,         \* config.Targets
  InitialHosts,  \* how a host may be found
  MaxCrashes     \* bound: agents that die

ASSUME MeshAssumption == InitialHosts \subseteq Host /\ MaxCrashes \in Nat

Failures == {"failed", "timeout"}

VARIABLES
  command,    \* which command runs: "mesh" or "uninstall"
  deploys,    \* config.DeploySystemDService
  pc,         \* the phase of the command
  ending,     \* why it ended
  interrupt,  \* a signal is in signalChan, which holds one
  crashes,
  host,       \* the hosts
  step,       \* how many commands the host's callback has run, 0 for the health check
  cancelled, state, err, returned   \* the phase's pool, as in ParallelMap

pool == <<cancelled, state, err, returned>>
control == <<command, deploys, pc, ending, interrupt>>
vars == <<control, crashes, host, step, pool>>

Phase == INSTANCE ParallelMap
           WITH Objects <- Nodes, Errors <- {"failed"}, Nil <- "ok", CtxErr <- "timeout"

TypeOK ==
  /\ command \in {"mesh", "uninstall"}
  /\ deploys \in BOOLEAN /\ interrupt \in BOOLEAN
  /\ pc \in {"begin", "deploy", "start", "wait", "stop", "uninstall", "ended"}
  /\ ending \in {"none", "deploy failed", "start failed", "interrupted", "stopped",
                 "uninstalled", "uninstall failed"}
  /\ crashes \in Nat
  /\ host \in [Nodes -> Host]
  /\ step \in [Nodes -> 0..15]
  /\ cancelled \in BOOLEAN /\ returned \in BOOLEAN
  /\ state \in [Nodes -> {"pending", "running", "settled"}]
  /\ err \in [Nodes -> Failures \cup {"ok"}]

NewPool ==
  /\ cancelled' = FALSE /\ returned' = FALSE
  /\ state' = [n \in Nodes |-> "pending"]
  /\ err' = [n \in Nodes |-> "ok"]
  /\ step' = [n \in Nodes |-> 0]

(* The uninstall command always has the services for its own. *)
Init ==
  /\ command \in {"mesh", "uninstall"}
  /\ deploys \in BOOLEAN /\ (command = "uninstall" => deploys)
  /\ pc = "begin" /\ ending = "none" /\ interrupt = FALSE /\ crashes = 0
  /\ host \in [Nodes -> InitialHosts]
  /\ step = [n \in Nodes |-> 0]
  /\ cancelled = FALSE /\ returned = FALSE
  /\ state = [n \in Nodes |-> "pending"]
  /\ err = [n \in Nodes |-> "ok"]

-----------------------------------------------------------------------------
(* The command.                                                            *)

(* A phase begins: a new context with its timeout, and a new pool. *)
Enter(phase) ==
  /\ pc' = phase
  /\ NewPool
  /\ UNCHANGED <<command, deploys, ending, crashes, host>>

(* Run returns, cleanup closes the API server, and the process exits. *)
EndCommand(why) ==
  /\ pc' = "ended"
  /\ ending' = why
  /\ UNCHANGED <<command, deploys, crashes, host, step, pool>>

AllSucceeded == \A n \in Nodes : err[n] = "ok"

FirstPhase == IF command = "uninstall" THEN "uninstall"
              ELSE IF deploys THEN "deploy" ELSE "start"

Begin == pc = "begin" /\ Enter(FirstPhase) /\ UNCHANGED interrupt

(* Mutant of Deployed: the hosts that were deployed to go on without the rest. *)
DeployedSome ==
  /\ pc = "deploy" /\ returned
  /\ \/ (\E n \in Nodes : err[n] = "ok") /\ Enter("start")
     \/ (\A n \in Nodes : err[n] # "ok") /\ EndCommand("deploy failed")
  /\ UNCHANGED interrupt

(* Deploy has returned, and its result is received before any signal. *)
Deployed ==
  /\ pc = "deploy" /\ returned
  /\ \/ AllSucceeded /\ Enter("start")
     \/ ~AllSucceeded /\ EndCommand("deploy failed")
  /\ UNCHANGED interrupt

(* A signal ends the wait for Deploy, whose goroutine dies with the process. *)
DeployInterrupted ==
  /\ pc = "deploy"
  /\ interrupt
  /\ interrupt' = FALSE
  /\ EndCommand("interrupted")

(* Mutant of Started: a failed start waits for the hosts that did start.   *)
StartedOnlyByAll ==
  /\ pc = "start" /\ returned
  /\ AllSucceeded /\ Enter("wait")
  /\ UNCHANGED interrupt

(* Start does not look at signals; one that fails leaves what it started. *)
Started ==
  /\ pc = "start" /\ returned
  /\ \/ AllSucceeded /\ Enter("wait")
     \/ ~AllSucceeded /\ EndCommand("start failed")
  /\ UNCHANGED interrupt

(* Wait: the duration timer fires, or a signal is there. *)
WaitOver ==
  /\ pc = "wait"
  /\ \/ interrupt /\ interrupt' = FALSE
     \/ UNCHANGED interrupt
  /\ Enter("stop")

(* stopAllTests counts the failures and goes on. *)
Stopped == pc = "stop" /\ returned /\ EndCommand("stopped") /\ UNCHANGED interrupt

Uninstalled ==
  /\ pc = "uninstall" /\ returned
  /\ EndCommand(IF AllSucceeded THEN "uninstalled" ELSE "uninstall failed")
  /\ UNCHANGED interrupt

(* A signal arrives; the channel keeps one, and the uninstall command      *)
(* never reads it.                                                         *)
Signal ==
  /\ ~interrupt /\ pc # "ended"
  /\ interrupt' = TRUE
  /\ UNCHANGED <<command, deploys, pc, ending, crashes, host, step, pool>>

-----------------------------------------------------------------------------
(* The callbacks, one host each.                                           *)

Commands == IF pc = "uninstall" THEN Cleanup ELSE Deployment

InPhase == pc \in {"deploy", "start", "stop", "uninstall"}

(* A worker takes the host, or finds that the phase's time is over. *)
Take(n) ==
  /\ InPhase
  /\ Phase!Begin(n) \/ Phase!Skip(n)
  /\ UNCHANGED <<control, crashes, host, step>>

(* Mutant of Settle: the exit status is passed on as it is. *)
SettleWithStatus(n, ok) == Phase!Settle(n, IF ok THEN "ok" ELSE "exit status 255")

(* The callback returns. *)
Settle(n, ok) == Phase!Settle(n, IF ok THEN "ok" ELSE "failed")

(* checkAgentHealth, before anything else is done to the host. *)
CheckAgent(n) ==
  /\ pc = "deploy" /\ state[n] = "running" /\ step[n] = 0
  /\ \E healthy \in Health(host[n]) :
       \/ healthy /\ Settle(n, TRUE) /\ UNCHANGED step
       \/ ~healthy /\ step' = [step EXCEPT ![n] = 1] /\ UNCHANGED pool
  /\ UNCHANGED <<control, crashes, host>>

(* The command that the host's callback runs next. *)
Current(n) == Commands[IF pc = "uninstall" THEN step[n] + 1 ELSE step[n]]
AtCommand(n) ==
  /\ state[n] = "running"
  /\ pc = "uninstall" \/ (pc = "deploy" /\ step[n] > 0)
IsLast(n) == Current(n) = IF pc = "uninstall" THEN "reload" ELSE "start"

(* Mutant of RunCommand: a command that fails is passed over. *)
RunCommandAnyway(n) ==
  /\ AtCommand(n)
  /\ \E o \in Outcomes(Current(n), host[n]) :
       /\ host' = [host EXCEPT ![n] = o.host]
       /\ \/ ~IsLast(n) /\ step' = [step EXCEPT ![n] = @ + 1] /\ UNCHANGED pool
          \/ IsLast(n) /\ Settle(n, TRUE) /\ UNCHANGED step
  /\ UNCHANGED <<control, crashes>>

(* One command runs; the first that fails ends the callback. Uninstall     *)
(* hands its context to the commands, which then fail when it is done.     *)
RunCommand(n) ==
  /\ AtCommand(n)
  /\ \E o \in Outcomes(Current(n), host[n]) :
       /\ o.ok => ~(pc = "uninstall" /\ cancelled)
       /\ host' = [host EXCEPT ![n] = o.host]
       /\ \/ o.ok /\ ~IsLast(n) /\ step' = [step EXCEPT ![n] = @ + 1] /\ UNCHANGED pool
          \/ (o.ok => IsLast(n)) /\ Settle(n, o.ok) /\ UNCHANGED step
  /\ UNCHANGED <<control, crashes>>

Request(n, outcomes) ==
  /\ state[n] = "running"
  /\ \E o \in outcomes :
       host' = [host EXCEPT ![n] = o.host] /\ Settle(n, o.ok)
  /\ UNCHANGED <<control, crashes, step>>

StartTest(n) == pc = "start" /\ Request(n, StartOutcomes(host[n]))
StopTest(n)  == pc = "stop" /\ Request(n, StopOutcomes(host[n]))

PhaseReturns ==
  /\ InPhase
  /\ Phase!Return
  /\ UNCHANGED <<control, crashes, host, step>>

PhaseTimesOut ==
  /\ InPhase /\ ~returned
  /\ Phase!Cancel
  /\ UNCHANGED <<control, crashes, host, step>>

-----------------------------------------------------------------------------
(* The hosts by themselves.                                                *)

(* The test's own duration is over. *)
TestEnds(n) ==
  /\ host[n].test = "running"
  /\ host' = [host EXCEPT ![n].test = "idle"]
  /\ UNCHANGED <<control, crashes, step, pool>>

(* The service dies, and is not restarted. *)
ServiceDies(n) ==
  /\ crashes < MaxCrashes
  /\ host[n].service # "none"
  /\ crashes' = crashes + 1
  /\ host' = [host EXCEPT ![n] = Killed(@)]
  /\ UNCHANGED <<control, step, pool>>

Controller ==
  \/ Begin \/ Deployed \/ DeployInterrupted \/ Started \/ WaitOver \/ Stopped \/ Uninstalled
  \/ PhaseReturns

Callback(n) == Take(n) \/ CheckAgent(n) \/ RunCommand(n) \/ StartTest(n) \/ StopTest(n)

Next ==
  \/ Controller \/ Signal \/ PhaseTimesOut
  \/ \E n \in Nodes : Callback(n) \/ TestEnds(n) \/ ServiceDies(n)

Spec == Init /\ [][Next]_vars

(* The HTTP requests have a timeout of five seconds, and the commands of   *)
(* cleanupNode a context, which ends them. Exec and SCP have none: a shell *)
(* command or a copy that does not come back is waited for, and neither    *)
(* the five minutes of Deploy nor anything else ends it.                   *)
HasContext(n) == pc = "uninstall" \/ step[n] \in 2..9

(* The controller runs, the duration is finite, and a callback goes on     *)
(* where its call has a timeout.                                           *)
Fairness ==
  /\ WF_vars(Controller)
  /\ \A n \in Nodes :
       /\ WF_vars(Take(n) \/ CheckAgent(n) \/ StartTest(n) \/ StopTest(n))
       /\ WF_vars(RunCommand(n) /\ HasContext(n))

FairSpec == Spec /\ Fairness

-----------------------------------------------------------------------------
(* Properties.                                                             *)

Testing == command = "mesh" /\ pc \in {"start", "wait", "stop"}

(* A test is started only when Deploy succeeded on every host: whatever    *)
(* was found there and whichever command's answer was lost, each host has  *)
(* an agent of the controller's version by then, unless an agent that the  *)
(* controller did not install holds the port, or one has died since.       *)
StartNeedsAllDeployed ==
  Testing /\ deploys /\ crashes = 0 => \A n \in Nodes : Agent(host[n]) \in {"current", "foreign"}

(* The commands find what they need: nothing runs from the directory when  *)
(* it is removed or when the service is started, and the service that      *)
(* systemd starts is the one just copied.                                  *)
CommandsFindTheirInputs ==
  \A n \in Nodes : AtCommand(n) =>
    /\ Current(n) = "remove-dir" => host[n].service = "none"
    /\ Current(n) = "start" =>
         host[n].service = "none" /\ host[n].binary = "ready" /\ host[n].unit /\ host[n].loaded

(* A test that runs when the controller has ended by itself was left by    *)
(* a start that failed, or its stop did not succeed.                       *)
StopReachesAll ==
  ending = "stopped" => \A n \in Nodes : host[n].test = "running" => err[n] # "ok"

(* Uninstall reports success only if nothing is left of the installation.  *)
UninstallLeavesNothing ==
  ending = "uninstalled" =>
    \A n \in Nodes : /\ host[n].service = "none" /\ host[n].binary = "absent"
                     /\ ~host[n].unit /\ ~host[n].loaded

(* While the controller waits it displays statistics: whatever was         *)
(* reported, they are what AggregatesAddUp says of the reports.         *)
StatsAddUp == pc = "wait" => AggregatesAddUp

(* The lists it displays hold the entries that their order asks for.       *)
DisplayIsRanked == pc = "wait" => ListsAreRanked

(* The callback of n waits for a command that nothing but the host ends.   *)
Hanging(n) == AtCommand(n) /\ ~HasContext(n)

(* The command ends, whatever fails, but for one case: a deployment whose  *)
(* command hangs on some host, for ever, with no signal to end the wait.   *)
CommandEnds ==
  \/ <>(pc = "ended")
  \/ <>[](pc = "deploy" /\ ~interrupt /\ \E n \in Nodes : Hanging(n))
=============================================================================
