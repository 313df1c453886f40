----------------------------- MODULE MeshStats -----------------------------
(***************************************************************************)
(* The statistics that the controller makes of the hosts' reports          *)
(* (pkg/mesh/stats.go): the reports it keeps, their aggregation by         *)
(* GetStats, and the ranked lists that displayStats prints. Go ranges over *)
(* a map in any order: an aggregation takes that order as an argument.     *)
(*                                                                         *)
(* A report is a record of the metrics, integers where -1 means not        *)
(* measured, and of the reconnections to each target; times are in units   *)
(* of 30 s.                                                                *)
(***************************************************************************)
EXTENDS Integers, SequencesExt

CONSTANTS
  Servers,   \* bound: the IPs that report
  Reports,   \* bound: the reports they post
  Unbeaten   \* the minimum of nothing: 999999 in the code

(* A host always measures its throughput and its reconnections. *)
ASSUME ReportAssumption ==
  /\ Unbeaten \in Nat
  /\ \A r \in Reports : /\ r.throughput \in Nat /\ r.reconnects \in Nat
                        /\ r.loss \in Int /\ r.jitter \in Int /\ r.rtt \in Int

Metrics == {"throughput", "loss", "jitter", "rtt", "reconnects"}

(* Loss, and RTT with jitter, are skipped when they were not measured. *)
Measured(report, m) ==
  CASE m = "loss"             -> report.loss >= 0
    [] m \in {"jitter", "rtt"} -> report.jitter >= 0 /\ report.rtt >= 0
    [] OTHER                  -> TRUE

-----------------------------------------------------------------------------
(* What the controller keeps: the last report of each IP, and its time.    *)

(* Mutant of Posted: an IP that is known keeps its time. *)
PostedOnce(stats, ip, report, now) ==
  [s \in DOMAIN stats \cup {ip} |->
     IF s # ip THEN stats[s]
     ELSE [report |-> report, updatedAt |-> IF ip \in DOMAIN stats THEN stats[ip].updatedAt ELSE now]]

(* handleWorkerStats, updateStats: a report replaces the earlier one. *)
Posted(stats, ip, report, now) ==
  [s \in DOMAIN stats \cup {ip} |->
     IF s # ip THEN stats[s] ELSE [report |-> report, updatedAt |-> now]]

(* The servers whose report is not stale. *)
Active(stats, now) == {s \in DOMAIN stats : now - stats[s].updatedAt <= 1}

-----------------------------------------------------------------------------
(* GetStats.                                                               *)

Nobody == "nobody"

(* The variables before the loop. TotalReconnects is a field of MeshStats  *)
(* that GetStats does not assign.                                          *)
Nothing ==
  [active      |-> 0,
   count       |-> [m \in Metrics |-> 0],
   total       |-> [m \in Metrics |-> 0],
   targets     |-> <<>>,
   targetTotal |-> 0,
   reconnects  |-> 0,
   lowest      |-> [m \in Metrics |-> [value |-> Unbeaten, server |-> Nobody]],
   highest     |-> [m \in Metrics |-> [value |-> 0, server |-> Nobody]]]

(* What is returned when no server is active. *)
NoStats == [Nothing EXCEPT !.lowest = [m \in Metrics |-> [value |-> 0, server |-> Nobody]]]

(* Throughput takes the first server's value, the others start from the    *)
(* sentinel.                                                               *)
Lower(best, v, s, first) ==
  IF first \/ v < best.value THEN [value |-> v, server |-> s] ELSE best

Higher(best, v, s) ==
  IF v > best.value THEN [value |-> v, server |-> s] ELSE best

(* The reconnections to each target, whoever reported them. *)
AddTargets(targets, report) ==
  [t \in DOMAIN targets \cup DOMAIN report.targets |->
     (IF t \in DOMAIN targets THEN targets[t] ELSE 0)
       + (IF t \in DOMAIN report.targets THEN report.targets[t] ELSE 0)]

(* One active server is added. *)
AddServer(acc, s, report) ==
  LET counted(m) == Measured(report, m) IN
  [active      |-> acc.active + 1,
   count       |-> [m \in Metrics |-> IF counted(m) THEN acc.count[m] + 1 ELSE acc.count[m]],
   total       |-> [m \in Metrics |-> IF counted(m) THEN acc.total[m] + report[m] ELSE acc.total[m]],
   targets     |-> AddTargets(acc.targets, report),
   targetTotal |-> acc.targetTotal + SumFunction(report.targets),
   reconnects  |-> acc.reconnects,
   lowest      |-> [m \in Metrics |->
                  IF counted(m)
                  THEN Lower(acc.lowest[m], report[m], s, m = "throughput" /\ acc.active = 0)
                  ELSE acc.lowest[m]],
   highest     |-> [m \in Metrics |->
                  IF counted(m) THEN Higher(acc.highest[m], report[m], s) ELSE acc.highest[m]]]

(* order: the active servers, as the loop met them. *)
GetStats(stats, order) ==
  IF order = <<>> THEN NoStats
  ELSE FoldLeft(LAMBDA acc, s : AddServer(acc, s, stats[s].report), Nothing, order)

(* The averages: what is divided by what. That of the reconnections to the *)
(* targets is divided by the servers as well, and not by the targets, of   *)
(* which there may be more or fewer.                                       *)
Average(result, m) ==
  CASE m = "targets" -> [sum |-> result.targetTotal, over |-> result.active]
    [] m \in {"throughput", "reconnects"} -> [sum |-> result.total[m], over |-> result.active]
    [] m = "loss" -> [sum |-> result.total[m], over |-> result.count[m]]
    [] m \in {"jitter", "rtt"} -> [sum |-> result.total[m], over |-> result.count["rtt"]]

(* The metrics of which displayStats shows the average, the best and the   *)
(* worst: it looks at the totals, and for the jitter at that of the RTT.   *)
Displayed(result) ==
  {m \in Metrics : /\ result.active > 0
                   /\ \/ m = "throughput"
                      \/ result.total[IF m = "jitter" THEN "rtt" ELSE m] > 0}

-----------------------------------------------------------------------------
(* The ranked lists.                                                       *)

Swap(seq, i, j) == [seq EXCEPT ![i] = seq[j], ![j] = seq[i]]

(* Mutant of Before: the condition of a bubble sort, on neighbours only. *)
BeforeNeighbour(seq, i, j, ascending) ==
  /\ j = i + 1
  /\ IF ascending THEN seq[j].value < seq[i].value ELSE seq[j].value > seq[i].value

(* stats[j] has to come before stats[i]. *)
Before(seq, i, j, ascending) ==
  IF ascending THEN seq[j].value < seq[i].value ELSE seq[j].value > seq[i].value

(* The inner loop: stats[i] is compared with each stats[j] after it. *)
Pass(entries, i, ascending) ==
  FoldLeft(LAMBDA seq, j : IF Before(seq, i, j, ascending) THEN Swap(seq, i, j) ELSE seq,
           entries, [k \in 1..(Len(entries) - i) |-> i + k])

(* The exchange sort that all the sort functions are. *)
Sorted(entries, ascending) ==
  FoldLeftDomain(LAMBDA seq, i : Pass(seq, i, ascending), entries, entries)

(* SortServerStats: 0 asks for all. *)
Ranked(entries, ascending, topN) ==
  LET sorted == Sorted(entries, ascending)
      kept == IF topN > 0 /\ topN < Len(sorted) THEN topN ELSE Len(sorted)
  IN [i \in 1..kept |-> sorted[i]]

(* SortSourceReconnectStats, SortTargetReconnectStats: the map's entries,  *)
(* in the order in which the loop met them.                                *)
RankedReconnects(counts, order, ascending, topN) ==
  Ranked([i \in 1..Len(order) |-> [ip |-> order[i], value |-> counts[order[i]]]], ascending, topN)

-----------------------------------------------------------------------------
(* Properties, over bounded inputs.                                        *)

(* What the controller keeps after these posts, made one unit apart. *)
Kept(posts) ==
  FoldLeft(LAMBDA stats, k : Posted(stats, posts[k].ip, posts[k].report, k),
           <<>>, [k \in 1..Len(posts) |-> k])

LastPost(posts, s) ==
  LET mine == {k \in 1..Len(posts) : posts[k].ip = s}
  IN CHOOSE k \in mine : \A l \in mine : l <= k

(* Whatever was posted and in whichever order the map is traversed:        *)
(*   - the active servers are those that posted in the last 30 s, each     *)
(*     counted with its last report;                                       *)
(*   - every average is over the servers that measured the metric, and     *)
(*     lies between the lowest and the highest;                            *)
(*   - these two are some server's, but for a highest of 0 and a lowest of *)
(*     999999 or more, which have no server and may then be shown without  *)
(*     a name, and what is shown was measured by somebody;                 *)
(*   - a target's reconnections are the sum of what was reported of it;    *)
(*     their total is that of all reports, and their average is one per    *)
(*     active server, although it is displayed as one "per target";        *)
(*   - TotalReconnects, by which MESH_SDK.md tells users to look for       *)
(*     reconnections, is 0.                                                *)
AggregatesAddUp ==
  \A posts \in [1..3 -> [ip : Servers, report : Reports]] :
    LET stats == Kept(posts)
        recent == {s \in Servers : \E k \in 2..3 : posts[k].ip = s}
        last(s) == posts[LastPost(posts, s)].report
    IN /\ Active(stats, 3) = recent
       /\ \A order \in SetToSeqs(recent) :
            LET result == GetStats(stats, order) IN
            /\ result.active = Len(order)
            /\ result.reconnects = 0
            /\ Average(result, "targets") =
                 [sum  |-> FoldLeft(LAMBDA sum, s : sum + SumFunction(last(s).targets), 0, order),
                  over |-> Len(order)]
            /\ \A m \in Displayed(result) : result.count[m] > 0
            /\ \A t \in DOMAIN result.targets :
                 result.targets[t] =
                   FoldLeft(LAMBDA sum, s : sum + (IF t \in DOMAIN last(s).targets
                                                   THEN last(s).targets[t] ELSE 0), 0, order)
            /\ \A m \in Metrics :
                 LET counted == {s \in recent : Measured(last(s), m)}
                     average == Average(result, m)
                     low == result.lowest[m]  high == result.highest[m]
                 IN /\ average.over = Len(SetToSeq(counted))
                    /\ counted # {} =>
                         /\ low.value * average.over <= average.sum
                         /\ average.sum <= high.value * average.over
                    /\ \A s \in counted : low.value <= last(s)[m] /\ last(s)[m] <= high.value
                    /\ \/ low.server \in counted /\ last(low.server)[m] = low.value
                       \/ m # "throughput" /\ \A s \in counted : last(s)[m] >= Unbeaten
                    /\ \/ high.server \in counted /\ last(high.server)[m] = high.value
                       \/ \A s \in counted : last(s)[m] = 0

(* A ranked list holds the right entries: it is ordered, no entry occurs   *)
(* twice, and none that was cut off should have come before one that was   *)
(* kept.                                                                   *)
ListsAreRanked ==
  \A n \in 0..4 : \A values \in [1..n -> 0..2] : \A ascending \in BOOLEAN, topN \in 0..3 :
    LET list == RankedReconnects(values, [i \in 1..n |-> i], ascending, topN)
        notAfter(v, w) == IF ascending THEN v <= w ELSE v >= w
        kept == {list[i].ip : i \in 1..Len(list)}
    IN /\ Len(list) = IF topN \in 1..n THEN topN ELSE n
       /\ \A i \in 1..Len(list) : list[i].ip \in 1..n /\ list[i].value = values[list[i].ip]
       /\ \A i, j \in 1..Len(list) :
            i < j => list[i].ip # list[j].ip /\ notAfter(list[i].value, list[j].value)
       /\ \A i \in kept, j \in (1..n) \ kept : notAfter(values[i], values[j])
=============================================================================
