------------------------------ MODULE MeshNode ------------------------------
(***************************************************************************)
(* A host of the mesh as the controller finds and changes it: the commands *)
(* that cleanupNode and deployToNodeWithStart (pkg/mesh/controller.go) run *)
(* on it over SSH (pkg/mesh/ssh.go), in their order, with what each does   *)
(* to the host, and the HTTP requests that the agent on it answers.        *)
(*                                                                         *)
(* A host is a record:                                                     *)
(*   service  the process that runs from GoSmeshRemotePath, by its version *)
(*   foreign  an agent of another version, run from elsewhere, holds the   *)
(*            API port                                                     *)
(*   binary   the state of GoSmeshRemotePath                               *)
(*   unit     the service file exists                                      *)
(*   loaded   systemd has loaded it                                        *)
(*   test     what the agent is doing                                      *)
(***************************************************************************)
EXTENDS Naturals, Sequences

Host == [service : {"none", "old", "current"}, foreign : BOOLEAN,
         binary : {"absent", "empty", "old", "copied", "ready"},
         unit : BOOLEAN, loaded : BOOLEAN, test : {"idle", "running"}]

(* Who answers on the API port: a second process cannot bind it. *)
Agent(h) == IF h.foreign THEN "foreign" ELSE h.service

(* The process run from the remote path ends, and its test with it. *)
Killed(h) ==
  [h EXCEPT !.service = "none", !.test = IF h.foreign THEN @ ELSE "idle"]

-----------------------------------------------------------------------------
(* The commands.                                                           *)

(* cleanupNode, when the services are ours to manage. *)
Cleanup == <<"stop", "disable", "reset-failed", "kill", "force-kill",
             "remove-unit", "remove-dir", "reload">>

(* What deployToNodeWithStart does to a node that was cleaned up. *)
Installation == <<"mkdir", "copy-binary", "chmod", "copy-unit", "reload", "start">>

(* deployToNodeWithStart, when the agent does not answer as it should. *)
Deployment ==
  [i \in 1..15 |-> IF i = 1 THEN "connect"
                  ELSE IF i <= 9 THEN Cleanup[i - 1] ELSE Installation[i - 9]]

(* What the remote shell needs for the command to exit with 0. The cleanup *)
(* commands end in `|| true', or remove by force.                          *)
Needs(c, h) ==
  CASE c = "copy-binary" -> h.binary # "absent"
    [] c = "chmod"       -> h.binary \in {"copied", "ready", "old"}
    [] c = "start"       -> h.loaded
    [] OTHER             -> TRUE

(* Mutant of Ended: `kill -9' is as patient as `kill'. *)
EndedWhenAsked(c, h) == {h, Killed(h)}

(* `systemctl stop' and `kill' may leave the process, `kill -9' does not. *)
Ended(c, h) == IF c = "force-kill" THEN {Killed(h)} ELSE {h, Killed(h)}

(* The hosts a successful command may leave. `systemctl start' has done    *)
(* its part when the process is forked: what runs is what was copied, if   *)
(* it can be executed.                                                     *)
Effects(c, h) ==
  CASE c \in {"stop", "kill", "force-kill"} -> Ended(c, h)
    [] c = "remove-unit" -> {[h EXCEPT !.unit = FALSE]}
    [] c = "remove-dir"  -> {[h EXCEPT !.binary = "absent"]}
    [] c = "reload"      -> {[h EXCEPT !.loaded = h.unit]}
    [] c = "mkdir"       -> {[h EXCEPT !.binary = IF @ = "absent" THEN "empty" ELSE @]}
    [] c = "copy-binary" -> {[h EXCEPT !.binary = "copied"]}
    [] c = "chmod"       -> {[h EXCEPT !.binary = IF @ = "copied" THEN "ready" ELSE @]}
    [] c = "copy-unit"   -> {[h EXCEPT !.unit = TRUE]}
    [] c = "start"       -> {[h EXCEPT !.service =
                               IF @ = "none" /\ h.binary = "ready" THEN "current" ELSE @]}
    [] OTHER             -> {h}

(* Exec, ExecWithContext and SCP: the command succeeds; or it fails, with  *)
(* its work undone or, when it was the answer that was lost, done.         *)
Outcomes(c, h) ==
  (IF Needs(c, h) THEN [host : Effects(c, h), ok : {TRUE, FALSE}] ELSE {})
    \cup {[host |-> h, ok |-> FALSE]}

-----------------------------------------------------------------------------
(* The agent's HTTP interface, as the controller uses it: a request is     *)
(* answered, or times out before or after it took effect.                  *)

(* checkAgentHealth: only an answer with the controller's own version      *)
(* hash spares the deployment.                                             *)
Health(h) == IF Agent(h) = "current" THEN {TRUE, FALSE} ELSE {FALSE}

Requested(h, done) ==
  {[host |-> done, ok |-> TRUE], [host |-> done, ok |-> FALSE], [host |-> h, ok |-> FALSE]}

Refused(h) == {[host |-> h, ok |-> FALSE]}

(* POST /api/start: an agent that runs a test answers 409. *)
StartOutcomes(h) ==
  IF Agent(h) # "none" /\ h.test = "idle"
  THEN Requested(h, [h EXCEPT !.test = "running"]) ELSE Refused(h)

(* Mutant of StopOutcomes: any answer counts as success. *)
StopOutcomesAnyAnswer(h) ==
  IF Agent(h) # "none"
  THEN Requested(h, [h EXCEPT !.test = "idle"]) \cup {[host |-> h, ok |-> TRUE]}
  ELSE Refused(h)

(* POST /api/stop: an agent that runs no test answers 400. *)
StopOutcomes(h) ==
  IF Agent(h) # "none" /\ h.test = "running"
  THEN Requested(h, [h EXCEPT !.test = "idle"]) ELSE Refused(h)
=============================================================================
