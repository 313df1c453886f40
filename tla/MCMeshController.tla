-------------------------- MODULE MCMeshController --------------------------
EXTENDS MeshController

Blank == [service |-> "none", foreign |-> FALSE, binary |-> "absent",
          unit |-> FALSE, loaded |-> FALSE, test |-> "idle"]

(* Untouched; up to date, perhaps still at a test; installed by an earlier *)
(* version; left by a deployment that failed before the reload; and with   *)
(* an agent started by hand.                                               *)
MCInitialHosts ==
  {Blank,
   [Blank EXCEPT !.service = "current", !.binary = "ready", !.unit = TRUE, !.loaded = TRUE],
   [Blank EXCEPT !.service = "current", !.binary = "ready", !.unit = TRUE, !.loaded = TRUE,
                 !.test = "running"],
   [Blank EXCEPT !.service = "old", !.binary = "old", !.unit = TRUE, !.loaded = TRUE],
   [Blank EXCEPT !.binary = "ready", !.unit = TRUE],
   [Blank EXCEPT !.foreign = TRUE]}

Report(t, l, j, r, c, targets) ==
  [throughput |-> t, loss |-> l, jitter |-> j, rtt |-> r, reconnects |-> c, targets |-> targets]

(* Unbeaten is 3 here. *)
MCReports == {Report(0, -1, -1, -1, 0, <<>>), Report(4, -1, 2, -1, 4, <<4>>),
              Report(2, 1, 0, 1, 1, <<0, 1>>), Report(3, 3, 1, 4, 2, <<1, 1>>)}
=============================================================================
