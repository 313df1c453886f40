-------------------------- MODULE MeshStatsProofs --------------------------
(***************************************************************************)
(* For any number of servers, reports and entries: what GetStats computes  *)
(* of the reports, and that the exchange sort ranks. Both are loops over   *)
(* data: a property of a loop is proved by induction over the number of    *)
(* its iterations, with sets of numbers for predicates, as in LeastNatural *)
(* and InductionUpTo.                                                      *)
(***************************************************************************)
EXTENDS MeshStats, FiniteSetTheorems, WellFoundedInduction, TLAPS

(* Every nonempty set of naturals has a least element. *)
LEMMA LeastNatural ==
  ASSUME NEW T \in SUBSET Nat, T # {}
  PROVE  \E x \in T : \A y \in T : x <= y
<1> DEFINE R == {p \in Nat \X Nat : p[1] < p[2]}
<1>1. IsWellFoundedOn(R, Nat)
  BY NatLessThanWellFounded DEF OpToRel
<1>2. PICK x \in T : \A y \in T : ~ (<<y, x>> \in R)
  <2> HIDE DEF R
  <2> QED BY <1>1, WFMin
<1>3. \A y \in T : x <= y
  <2> TAKE y \in T
  <2>1. <<y, x>> \notin R
    BY <1>2
  <2>2. ~(y < x)
    BY <2>1
  <2> QED BY <2>2
<1> QED BY <1>3

(* Induction over the naturals up to n, for a set of them. *)
LEMMA InductionUpTo ==
  ASSUME NEW n \in Nat, NEW S, 0 \in S, \A k \in 1..n : k - 1 \in S => k \in S
  PROVE  0..n \subseteq S
<1> SUFFICES ASSUME (0..n) \ S # {} PROVE FALSE
  OBVIOUS
<1>1. PICK x \in (0..n) \ S : \A y \in (0..n) \ S : x <= y
  <2> (0..n) \ S \in SUBSET Nat
    OBVIOUS
  <2> QED BY LeastNatural
<1>2. x \in 1..n /\ x - 1 \in 0..n
  BY <1>1
<1> QED BY <1>1, <1>2

-----------------------------------------------------------------------------
(* Folds.                                                                  *)

(* The bodies of the loops: one iteration on acc, for the k-th time; x and *)
(* y are what the loop reads.                                              *)
Iterate(loop, x, y, acc, k) ==
  CASE loop = "add servers" -> AddServer(acc, y[k], x[y[k]].report)
    [] loop = "add numbers" -> acc + x[k]
    [] loop = "post"        -> Posted(acc, x[k].ip, x[k].report, k)
    [] loop = "pass"        -> IF Before(acc, x, x + k, y) THEN Swap(acc, x, x + k) ELSE acc
    [] loop = "sort"        -> Pass(acc, k, y)

(* iter[1..k] is what n iterations have made of base after the k-th. *)
IsFold(iter, loop, x, y, base, n) ==
  iter = [s \in SUBSET (1..n) |->
            IF s = {} THEN base ELSE Iterate(loop, x, y, iter[s \ {Max(s)}], Max(s))]

(* The last index of those up to k is k. *)
LEMMA MaxIsLast ==
  ASSUME NEW k \in Nat, NEW s \in SUBSET (1..k), k \in s
  PROVE  Max(s) = k
<1>1. k \in s /\ \A y \in s : k >= y
  OBVIOUS
<1>2. \A x \in s : (\A y \in s : x >= y) => x = k
  OBVIOUS
<1> QED BY <1>1, <1>2, Zenon DEF Max

(* Such an iter exists. *)
LEMMA FoldExists ==
  ASSUME NEW loop, NEW x, NEW y, NEW base, NEW n \in Nat
  PROVE  \E iter : IsFold(iter, loop, x, y, base, n)
<1> DEFINE S == {m \in Nat : \E iter : IsFold(iter, loop, x, y, base, m)}
<1>1. 0 \in S
  <2>1. SUBSET (1..0) = {{}}
    OBVIOUS
  <2>2. IsFold([s \in SUBSET (1..0) |-> base], loop, x, y, base, 0)
    BY <2>1 DEF IsFold
  <2> QED BY <2>2
<1>2. ASSUME NEW m \in 1..n, m - 1 \in S PROVE m \in S
  <2>1. m \in Nat /\ m - 1 \in Nat /\ (1..m) \ {m} = 1..(m - 1)
    OBVIOUS
  <2>2. PICK old : IsFold(old, loop, x, y, base, m - 1)
    BY <1>2
  <2> DEFINE iter == [s \in SUBSET (1..m) |->
                        IF m \in s THEN Iterate(loop, x, y, old[s \ {m}], m) ELSE old[s]]
  <2>3. ASSUME NEW s \in SUBSET (1..m)
        PROVE  iter[s] = IF s = {} THEN base ELSE Iterate(loop, x, y, iter[s \ {Max(s)}], Max(s))
    <3>1. CASE m \in s
      <4>1. Max(s) = m
        BY <2>1, <3>1, MaxIsLast
      <4>2. s \ {m} \in SUBSET (1..m) /\ m \notin s \ {m}
        OBVIOUS
      <4>3. iter[s \ {m}] = old[s \ {m}] /\ iter[s] = Iterate(loop, x, y, old[s \ {m}], m)
        BY <3>1, <4>2
      <4> HIDE DEF iter
      <4> QED BY <3>1, <4>1, <4>3
    <3>2. CASE m \notin s
      <4>1. s \in SUBSET (1..(m - 1))
        BY <2>1, <3>2
      <4>2. old[s] = IF s = {} THEN base ELSE Iterate(loop, x, y, old[s \ {Max(s)}], Max(s))
        BY <2>2, <4>1 DEF IsFold
      <4>3. iter[s] = old[s]
        BY <3>2
      <4>4. iter[s \ {Max(s)}] = old[s \ {Max(s)}]
        BY <3>2
      <4> HIDE DEF iter
      <4> QED BY <4>2, <4>3, <4>4
    <3> QED BY <3>1, <3>2
  <2>4. iter = [s \in SUBSET (1..m) |-> iter[s]]
    OBVIOUS
  <2> HIDE DEF iter
  <2>5. IsFold(iter, loop, x, y, base, m)
    BY <2>3, <2>4 DEF IsFold
  <2> QED BY <2>1, <2>5
<1> HIDE DEF S
<1>3. n \in S
  BY <1>1, <1>2, InductionUpTo
<1> QED BY <1>3 DEF S

(* The last of some indexes is one of them. *)
LEMMA MaxIsOne ==
  ASSUME NEW n \in Nat, NEW s \in SUBSET (1..n), s # {}
  PROVE  Max(s) \in s
<1> DEFINE T == {n - k : k \in s}
<1>1. T \in SUBSET Nat /\ T # {}
  <2>1. \A k \in s : n - k \in Nat
    OBVIOUS
  <2>2. PICK k \in s : TRUE
    OBVIOUS
  <2>3. n - k \in T
    OBVIOUS
  <2> QED BY <2>1, <2>3
<1>2. PICK t \in T : \A y \in T : t <= y
  BY <1>1, LeastNatural
<1>3. PICK x \in s : t = n - x
  OBVIOUS
<1>4. \A y \in s : x >= y
  <2> TAKE y \in s
  <2>1. n - y \in T
    OBVIOUS
  <2>2. n - x <= n - y
    BY <1>2, <1>3, <2>1
  <2>3. x \in 1..n /\ y \in 1..n
    OBVIOUS
  <2> QED BY <2>2, <2>3
<1> QED BY <1>4 DEF Max

(* It steps from each index to the next. *)
LEMMA FoldSteps ==
  ASSUME NEW loop, NEW x, NEW y, NEW base, NEW n \in Nat, NEW iter,
         IsFold(iter, loop, x, y, base, n)
  PROVE  /\ iter[1..0] = base
         /\ \A k \in 1..n : iter[1..k] = Iterate(loop, x, y, iter[1..(k - 1)], k)
<1>1. iter[1..0] = base
  <2>1. 1..0 = {} /\ {} \in SUBSET (1..n)
    OBVIOUS
  <2> QED BY <2>1 DEF IsFold
<1>2. ASSUME NEW k \in 1..n PROVE iter[1..k] = Iterate(loop, x, y, iter[1..(k - 1)], k)
  <2>1. k \in Nat /\ 1..k \in SUBSET (1..n) /\ k \in 1..k /\ 1..k # {} /\ (1..k) \ {k} = 1..(k - 1)
    OBVIOUS
  <2>2. Max(1..k) = k
    BY <2>1, MaxIsLast
  <2> QED BY <2>1, <2>2 DEF IsFold
<1> QED BY <1>1, <1>2

(* acc runs through the n iterations of a loop, from base to result. *)
RunsTo(acc, loop, x, y, base, n, result) ==
  /\ acc[0] = base
  /\ \A k \in 1..n : acc[k] = Iterate(loop, x, y, acc[k - 1], k)
  /\ acc[n] = result

(* What a fold chooses runs through the loop. *)
LEMMA FoldRuns ==
  ASSUME NEW loop, NEW x, NEW y, NEW base, NEW n \in Nat, NEW iter,
         IsFold(iter, loop, x, y, base, n)
  PROVE  \E acc : RunsTo(acc, loop, x, y, base, n, iter[1..n])
<1> DEFINE acc == [k \in 0..n |-> iter[1..k]]
<1>1. n \in 0..n /\ 0 \in 0..n /\ \A k \in 1..n : k \in 0..n /\ k - 1 \in 0..n
  OBVIOUS
<1>2. acc[0] = base
  <2>1. acc[0] = iter[1..0]
    BY <1>1
  <2>2. iter[1..0] = base
    BY FoldSteps
  <2> QED BY <2>1, <2>2
<1>4. ASSUME NEW k \in 1..n PROVE acc[k] = Iterate(loop, x, y, acc[k - 1], k)
  <2>1. acc[k] = iter[1..k] /\ acc[k - 1] = iter[1..(k - 1)]
    BY <1>1
  <2>2. iter[1..k] = Iterate(loop, x, y, iter[1..(k - 1)], k)
    BY FoldSteps
  <2> QED BY <2>1, <2>2
<1>3. acc[n] = iter[1..n]
  BY <1>1
<1> HIDE DEF acc
<1> QED BY <1>2, <1>3, <1>4 DEF RunsTo

(* GetStats adds the servers one by one. *)
LEMMA GetStatsRuns ==
  ASSUME NEW stats, NEW n \in Nat \ {0}, NEW order, DOMAIN order = 1..n
  PROVE  \E acc : RunsTo(acc, "add servers", stats, order, Nothing, n, GetStats(stats, order))
<1> DEFINE Loop(iter) ==
             iter = [s \in SUBSET (1..n) |->
                       IF s = {} THEN Nothing
                       ELSE AddServer(iter[s \ {Max(s)}], order[Max(s)],
                                      stats[order[Max(s)]].report)]
<1>0. order # <<>>
  <2>1. DOMAIN <<>> = {} /\ 1 \in 1..n
    OBVIOUS
  <2> QED BY <2>1
<1>1. GetStats(stats, order) = (CHOOSE iter : Loop(iter))[1..n]
  BY <1>0 DEF GetStats, FoldLeft, MapThenFoldSet
<1>2. \A iter : IsFold(iter, "add servers", stats, order, Nothing, n) <=> Loop(iter)
  BY DEF IsFold, Iterate
<1> HIDE DEF Loop
<1>3. Loop(CHOOSE iter : Loop(iter))
  BY <1>2, FoldExists
<1>4. PICK iter : /\ IsFold(iter, "add servers", stats, order, Nothing, n)
                 /\ GetStats(stats, order) = iter[1..n]
  BY <1>1, <1>2, <1>3
<1>5. n \in Nat
  OBVIOUS
<1>6. \E acc : RunsTo(acc, "add servers", stats, order, Nothing, n, iter[1..n])
  BY <1>4, <1>5, FoldRuns
<1> QED BY <1>4, <1>6

(* The controller takes the posts one by one. *)
LEMMA KeptRuns ==
  ASSUME NEW posts, NEW n \in Nat, Len(posts) = n
  PROVE  \E acc : RunsTo(acc, "post", posts, {}, <<>>, n, Kept(posts))
<1> DEFINE Given(iter) ==
             iter = [s \in SUBSET (1..n) |->
                       IF s = {} THEN <<>>
                       ELSE Posted(iter[s \ {Max(s)}], posts[[k \in 1..n |-> k][Max(s)]].ip,
                                   posts[[k \in 1..n |-> k][Max(s)]].report,
                                   [k \in 1..n |-> k][Max(s)])]
<1>1. Kept(posts) = (CHOOSE iter : Given(iter))[1..n]
  BY DEF Kept, FoldLeft, MapThenFoldSet
<1>2. \A s \in SUBSET (1..n) : s # {} => [k \in 1..n |-> k][Max(s)] = Max(s)
  BY MaxIsOne
<1>3. ASSUME NEW iter PROVE IsFold(iter, "post", posts, {}, <<>>, n) <=> Given(iter)
  BY <1>2 DEF IsFold, Iterate
<1> HIDE DEF Given
<1>4. Given(CHOOSE iter : Given(iter))
  BY <1>3, FoldExists
<1> QED BY <1>1, <1>3, <1>4, FoldRuns

-----------------------------------------------------------------------------
(* GetStats.                                                               *)

(* order lists n servers that have reported, each once. *)
IsOrder(stats, order, n) ==
  /\ order \in [1..n -> DOMAIN stats]
  /\ \A i, j \in 1..n : i # j => order[i] # order[j]
  /\ \A i \in 1..n : stats[order[i]].report \in Reports

(* Those of the first k servers of the order that have measured m. *)
Counted(stats, order, k, m) ==
  {s \in {order[i] : i \in 1..k} : Measured(stats[s].report, m)}

(* What the loop keeps of the metric m after k servers: the count, the     *)
(* average between the lowest and the highest, and where these come from.  *)
MetricAdded(acc, stats, order, k, m) ==
  LET counted == Counted(stats, order, k, m)
      low == acc.lowest[m]  high == acc.highest[m]
      value(s) == stats[s].report[m]
  IN /\ IsFiniteSet(counted) /\ acc.count[m] = Cardinality(counted)
     /\ acc.total[m] \in Int /\ low.value \in Int /\ high.value \in Int
     /\ acc.count[m] = 0 => acc.total[m] = 0
     /\ low.value * acc.count[m] <= acc.total[m] /\ acc.total[m] <= high.value * acc.count[m]
     /\ \A s \in counted : low.value <= value(s) /\ value(s) <= high.value
     /\ \/ low.server \in counted /\ value(low.server) = low.value
        \/ /\ m # "throughput" \/ k = 0
           /\ low.value = Unbeaten /\ \A s \in counted : value(s) >= Unbeaten
     /\ \/ high.server \in counted /\ value(high.server) = high.value
        \/ high.value = 0 /\ \A s \in counted : value(s) = 0

(* What is measured is a natural number. *)
LEMMA MeasuredIsNat ==
  ASSUME NEW r \in Reports, NEW m \in Metrics, Measured(r, m)
  PROVE  r[m] \in Nat
<1> USE ReportAssumption DEF Measured, Metrics
<1>1. CASE m = "throughput"
  BY <1>1
<1>2. CASE m = "reconnects"
  BY <1>2
<1>3. CASE m = "loss"
  BY <1>3
<1>4. CASE m = "jitter"
  BY <1>4
<1>5. CASE m = "rtt"
  BY <1>5
<1> QED BY <1>1, <1>2, <1>3, <1>4, <1>5

(* One more number between two bounds. *)
LEMMA BoundsHold ==
  ASSUME NEW low \in Int, NEW high \in Int, NEW c \in Nat, NEW total \in Int,
         low * c <= total, total <= high * c,
         NEW l \in Int, NEW h \in Int, NEW v \in Int, l <= low \/ c = 0, l <= v, high <= h, v <= h
  PROVE  l * (c + 1) <= total + v /\ total + v <= h * (c + 1)
<1>1. l * c <= low * c /\ high * c <= h * c
  OBVIOUS
<1>2. l * (c + 1) = l * c + l /\ h * (c + 1) = h * c + h
  OBVIOUS
<1>3. l * c \in Int /\ low * c \in Int /\ high * c \in Int /\ h * c \in Int
  OBVIOUS
<1> QED BY <1>1, <1>2, <1>3

(* One more server keeps what the loop keeps of each metric. *)
LEMMA ServerAdded ==
  ASSUME NEW stats, NEW n \in Nat, NEW order, IsOrder(stats, order, n),
         NEW k \in 1..n, NEW acc, acc.active = k - 1,
         NEW m \in Metrics, MetricAdded(acc, stats, order, k - 1, m)
  PROVE  MetricAdded(AddServer(acc, order[k], stats[order[k]].report), stats, order, k, m)
<1> DEFINE s       == order[k]
           r       == stats[s].report
           v       == r[m]
           new     == AddServer(acc, s, r)
           before  == Counted(stats, order, k - 1, m)
           counted == Counted(stats, order, k, m)
           low     == acc.lowest[m]
           high    == acc.highest[m]
           first   == m = "throughput" /\ acc.active = 0
<1>1. s \notin before /\ r \in Reports
  BY DEF IsOrder, Counted
<1>2. /\ new.count[m]   = IF Measured(r, m) THEN acc.count[m] + 1 ELSE acc.count[m]
      /\ new.total[m]   = IF Measured(r, m) THEN acc.total[m] + v ELSE acc.total[m]
      /\ new.lowest[m]  = IF Measured(r, m) THEN Lower(low, v, s, first) ELSE low
      /\ new.highest[m] = IF Measured(r, m) THEN Higher(high, v, s) ELSE high
  BY DEF AddServer
<1>3. counted = IF Measured(r, m) THEN before \cup {s} ELSE before
  BY DEF Counted
<1>4. CASE ~Measured(r, m)
  <2>1. m # "throughput"
    BY <1>4 DEF Measured
  <2> HIDE DEF new, counted, before
  <2> QED BY <1>2, <1>3, <1>4, <2>1 DEF MetricAdded, before, counted, new
<1>5. CASE Measured(r, m)
  <2> DEFINE l == new.lowest[m]
             h == new.highest[m]
  <2>1. v \in Nat
    BY <1>1, <1>5, MeasuredIsNat
  <2>2. /\ IsFiniteSet(before) /\ acc.count[m] = Cardinality(before)
        /\ acc.total[m] \in Int /\ low.value \in Int /\ high.value \in Int
        /\ acc.count[m] = 0 => acc.total[m] = 0
        /\ low.value * acc.count[m] <= acc.total[m] /\ acc.total[m] <= high.value * acc.count[m]
        /\ \A t \in before : low.value <= stats[t].report[m] /\ stats[t].report[m] <= high.value
        /\ \/ low.server \in before /\ stats[low.server].report[m] = low.value
           \/ /\ m # "throughput" \/ k - 1 = 0
              /\ low.value = Unbeaten /\ \A t \in before : stats[t].report[m] >= Unbeaten
        /\ \/ high.server \in before /\ stats[high.server].report[m] = high.value
           \/ high.value = 0 /\ \A t \in before : stats[t].report[m] = 0
    BY DEF MetricAdded
  <2>3. acc.count[m] \in Nat
    BY <2>2, FS_CardinalityType
  <2>4. /\ IsFiniteSet(counted) /\ new.count[m] = Cardinality(counted)
        /\ new.count[m] = acc.count[m] + 1 /\ new.total[m] = acc.total[m] + v
    <3> HIDE DEF new, counted, before, v
    <3>1. counted = before \cup {s}
      BY <1>3, <1>5
    <3>2. new.count[m] = acc.count[m] + 1 /\ new.total[m] = acc.total[m] + v
      BY <1>2, <1>5
    <3>3. IsFiniteSet(before \cup {s}) /\ Cardinality(before \cup {s}) = Cardinality(before) + 1
      <4> HIDE DEF s
      <4> QED BY <1>1, <2>2, FS_AddElement
    <3> HIDE DEF s
    <3> QED BY <2>2, <3>1, <3>2, <3>3
  <2>17. \A t \in before : stats[t].report[m] \in Nat
    <3>1. \A t \in before : stats[t].report \in Reports /\ Measured(stats[t].report, m)
      BY DEF IsOrder, Counted
    <3> QED BY <3>1, MeasuredIsNat
  <2>5. first => before = {} /\ acc.count[m] = 0
    <3>1. first => before = {}
      BY DEF Counted
    <3> QED BY <2>2, <3>1, FS_EmptySet
  <2>6. l = Lower(low, v, s, first) /\ h = Higher(high, v, s)
    BY <1>2, <1>5
  <2>7. k - 1 = 0 /\ m = "throughput" => first
    OBVIOUS
  <2>8. counted = before \cup {s} /\ stats[s].report[m] = v
    BY <1>3, <1>5
  <2>9. Unbeaten \in Nat
    BY ReportAssumption
  <2> HIDE DEF new, counted, before, l, h, s, v, r, low, high, first
  <2>10. l.value \in Int /\ h.value \in Int /\ l.value <= v /\ v <= h.value /\ high.value <= h.value
    BY <2>1, <2>2, <2>6 DEF Lower, Higher
  <2>11. l.value <= low.value \/ first
    BY <2>1, <2>2, <2>6 DEF Lower
  <2>12. /\ l.value * (acc.count[m] + 1) <= acc.total[m] + v
         /\ acc.total[m] + v <= h.value * (acc.count[m] + 1)
    BY <2>1, <2>2, <2>3, <2>5, <2>10, <2>11, BoundsHold
  <2>13. \A t \in counted : l.value <= stats[t].report[m] /\ stats[t].report[m] <= h.value
    <3> TAKE t \in counted
    <3>1. CASE t = s
      BY <2>8, <2>10, <3>1
    <3>2. CASE t \in before
      BY <2>2, <2>5, <2>10, <2>11, <2>17, <3>2
    <3> QED BY <2>8, <3>1, <3>2
  <2>14. \/ l.server \in counted /\ stats[l.server].report[m] = l.value
         \/ /\ m # "throughput"
            /\ l.value = Unbeaten /\ \A t \in counted : stats[t].report[m] >= Unbeaten
    <3>1. CASE first \/ v < low.value
      BY <2>6, <2>8, <3>1 DEF Lower
    <3>2. CASE ~(first \/ v < low.value)
      BY <2>1, <2>2, <2>6, <2>7, <2>8, <2>9, <3>2 DEF Lower
    <3> QED BY <3>1, <3>2
  <2>15. \/ h.server \in counted /\ stats[h.server].report[m] = h.value
         \/ h.value = 0 /\ \A t \in counted : stats[t].report[m] = 0
    <3>1. CASE v > high.value
      BY <2>6, <2>8, <3>1 DEF Higher
    <3>2. CASE ~(v > high.value)
      BY <2>1, <2>2, <2>6, <2>8, <3>2 DEF Higher
    <3> QED BY <3>1, <3>2
  <2>16. new.total[m] \in Int /\ new.count[m] # 0
    BY <2>1, <2>2, <2>3, <2>4
  <2> QED BY <2>4, <2>10, <2>12, <2>13, <2>14, <2>15, <2>16 DEF MetricAdded, counted, l, h, new, s, r, v
<1> QED BY <1>4, <1>5

(* After all the servers of the order, one or more: the count, total,      *)
(* lowest and highest of each metric are those of the servers that         *)
(* measured it, and TotalReconnects is still 0.                            *)
THEOREM GetStatsAddsUp ==
  ASSUME NEW stats, NEW n \in Nat \ {0}, NEW order, IsOrder(stats, order, n)
  PROVE  /\ GetStats(stats, order).active = n
         /\ GetStats(stats, order).reconnects = 0
         /\ \A m \in Metrics : MetricAdded(GetStats(stats, order), stats, order, n, m)
<1>1. DOMAIN order = 1..n
  BY DEF IsOrder
<1>2. PICK acc : RunsTo(acc, "add servers", stats, order, Nothing, n, GetStats(stats, order))
  BY <1>1, GetStatsRuns
<1> DEFINE S == {k \in 0..n : /\ acc[k].active = k
                              /\ acc[k].reconnects = 0
                              /\ \A m \in Metrics : MetricAdded(acc[k], stats, order, k, m)}
<1>3. 0 \in S
  <2>1. acc[0] = Nothing /\ Nothing.active = 0 /\ Nothing.reconnects = 0
    BY <1>2 DEF RunsTo, Nothing
  <2>2. ASSUME NEW m \in Metrics PROVE MetricAdded(Nothing, stats, order, 0, m)
    <3>1. Counted(stats, order, 0, m) = {}
      BY DEF Counted
    <3>2. /\ Nothing.count[m] = 0 /\ Nothing.total[m] = 0
          /\ Nothing.lowest[m].value = Unbeaten /\ Nothing.highest[m].value = 0
      BY DEF Nothing
    <3>3. Unbeaten * 0 = 0 /\ 0 * 0 = 0 /\ Unbeaten \in Int
      BY ReportAssumption
    <3>4. /\ Nothing.lowest[m].value * Nothing.count[m] <= Nothing.total[m]
          /\ Nothing.total[m] <= Nothing.highest[m].value * Nothing.count[m]
      BY <3>2, <3>3
    <3>5. IsFiniteSet({}) /\ Cardinality({}) = 0
      BY FS_EmptySet
    <3>6. /\ Nothing.total[m] \in Int /\ Nothing.lowest[m].value \in Int
          /\ Nothing.highest[m].value \in Int
      BY <3>2, <3>3
    <3> HIDE DEF Nothing
    <3> QED BY <3>1, <3>2, <3>4, <3>5, <3>6, Zenon DEF MetricAdded
  <2> QED BY <2>1, <2>2
<1>4. ASSUME NEW k \in 1..n, k - 1 \in S PROVE k \in S
  <2> DEFINE s == order[k]
             r == stats[s].report
  <2>1. acc[k] = AddServer(acc[k - 1], s, r)
    BY <1>2 DEF RunsTo, Iterate
  <2>2. acc[k - 1].active = k - 1
    BY <1>4
  <2>3. acc[k].active = k /\ acc[k].reconnects = 0
    <3>1. /\ AddServer(acc[k - 1], s, r).active = acc[k - 1].active + 1
          /\ AddServer(acc[k - 1], s, r).reconnects = acc[k - 1].reconnects
      BY DEF AddServer
    <3> QED BY <1>4, <2>1, <2>2, <3>1
  <2>4. \A m \in Metrics : MetricAdded(acc[k], stats, order, k, m)
    BY <1>4, <2>1, <2>2, ServerAdded
  <2> QED BY <2>3, <2>4
<1> HIDE DEF S
<1>5. n \in S
  BY <1>3, <1>4, InductionUpTo
<1>6. acc[n] = GetStats(stats, order)
  BY <1>2 DEF RunsTo
<1> QED BY <1>5, <1>6 DEF S

(* What a report adds to the reconnections to t. *)
Addend(report, t) == IF t \in DOMAIN report.targets THEN report.targets[t] ELSE 0

(* acc adds the servers of the order; sums adds their reconnections to t. *)
AddsServers(acc, stats, order, n) ==
  /\ acc[0] = Nothing
  /\ \A k \in 1..n : acc[k] = AddServer(acc[k - 1], order[k], stats[order[k]].report)

(* The running sums of the reconnections to a target. *)
AddsTarget(sums, stats, order, n, t) ==
  /\ sums[0] = 0
  /\ \A k \in 1..n : sums[k] = sums[k - 1] + Addend(stats[order[k]].report, t)

(* The reconnections to a target are the sum over the servers. *)
LEMMA TargetsAddUp ==
  ASSUME NEW stats, NEW n \in Nat, NEW order, NEW t, NEW acc, NEW sums,
         AddsServers(acc, stats, order, n), AddsTarget(sums, stats, order, n, t)
  PROVE  t \in DOMAIN acc[n].targets => acc[n].targets[t] = sums[n]
<1> DEFINE Same(targets, k) == /\ t \in DOMAIN targets => targets[t] = sums[k]
                               /\ t \notin DOMAIN targets => sums[k] = 0
           S == {k \in 0..n : Same(acc[k].targets, k)}
<1>1. 0 \in S
  <2>1. acc[0] = Nothing /\ Nothing.targets = <<>> /\ sums[0] = 0
    BY DEF Nothing, AddsServers, AddsTarget
  <2>2. DOMAIN <<>> = {}
    OBVIOUS
  <2>3. Same(acc[0].targets, 0)
    BY <2>1, <2>2
  <2> QED BY <2>3
<1>2. ASSUME NEW k \in 1..n, k - 1 \in S PROVE k \in S
  <2> DEFINE s == order[k]
             r == stats[s].report
             old == acc[k - 1].targets
             new == acc[k].targets
  <2>1. acc[k] = AddServer(acc[k - 1], s, r)
    BY DEF AddsServers
  <2>2. new = AddTargets(old, r)
    <3>1. AddServer(acc[k - 1], s, r).targets = AddTargets(old, r)
      BY DEF AddServer
    <3> QED BY <2>1, <3>1
  <2>3. Same(old, k - 1)
    BY <1>2
  <2>4. sums[k] = sums[k - 1] + Addend(r, t)
    BY DEF AddsTarget
  <2> HIDE DEF old, new, r
  <2>5. DOMAIN new = DOMAIN old \cup DOMAIN r.targets
    BY <2>2 DEF AddTargets
  <2>6. t \in DOMAIN new => new[t] = (IF t \in DOMAIN old THEN old[t] ELSE 0) + Addend(r, t)
    BY <2>2 DEF AddTargets, Addend
  <2>7. Same(new, k)
    <3>1. CASE t \in DOMAIN new
      BY <2>3, <2>4, <2>6, <3>1
    <3>2. CASE t \notin DOMAIN new
      <4>1. Addend(r, t) = 0 /\ sums[k - 1] = 0
        BY <2>3, <2>5, <3>2 DEF Addend
      <4>2. sums[k] = 0 + 0
        BY <2>4, <4>1
      <4> QED BY <3>2, <4>2
    <3> QED BY <3>1, <3>2
  <2>8. k \in 0..n
    OBVIOUS
  <2>9. Same(acc[k].targets, k)
    BY <2>7 DEF new
  <2> HIDE DEF Same
  <2> QED BY <2>8, <2>9
<1> HIDE DEF S, Same
<1>3. n \in S
  BY <1>1, <1>2, InductionUpTo
<1> QED BY <1>3 DEF S, Same

-----------------------------------------------------------------------------
(* What the controller keeps.                                              *)

(* After k posts: the last report of each server that has posted, and when *)
(* it was posted.                                                          *)
LastKept(stats, posts, k) ==
  /\ DOMAIN stats = {posts[j].ip : j \in 1..k}
  /\ \A s \in DOMAIN stats : \E j \in 1..k :
       /\ posts[j].ip = s
       /\ stats[s].report = posts[j].report /\ stats[s].updatedAt = j
       /\ \A l \in 1..k : posts[l].ip = s => l <= j

(* One more post keeps that. *)
LEMMA PostKept ==
  ASSUME NEW stats, NEW posts, NEW k \in Nat, k # 0, LastKept(stats, posts, k - 1)
  PROVE  LastKept(Posted(stats, posts[k].ip, posts[k].report, k), posts, k)
<1> DEFINE ip == posts[k].ip
           new == Posted(stats, ip, posts[k].report, k)
<1>1. k - 1 \in Nat /\ 1..k = (1..(k - 1)) \cup {k}
  OBVIOUS
<1>2. /\ DOMAIN new = DOMAIN stats \cup {ip}
      /\ \A s \in DOMAIN stats : s # ip => new[s] = stats[s]
      /\ new[ip].report = posts[k].report /\ new[ip].updatedAt = k
  BY DEF Posted
<1> HIDE DEF new
<1>3. DOMAIN new = {posts[j].ip : j \in 1..k}
  BY <1>1, <1>2 DEF LastKept
<1>4. ASSUME NEW s \in DOMAIN new
      PROVE  \E j \in 1..k : /\ posts[j].ip = s
                             /\ new[s].report = posts[j].report /\ new[s].updatedAt = j
                             /\ \A l \in 1..k : posts[l].ip = s => l <= j
  <2>1. CASE s = ip
    <3>1. k \in 1..k /\ \A l \in 1..k : l <= k
      OBVIOUS
    <3> QED BY <1>2, <2>1, <3>1
  <2>2. CASE s # ip
    <3>1. s \in DOMAIN stats
      BY <1>2, <2>2
    <3>2. PICK j \in 1..(k - 1) :
            /\ posts[j].ip = s
            /\ stats[s].report = posts[j].report /\ stats[s].updatedAt = j
            /\ \A l \in 1..(k - 1) : posts[l].ip = s => l <= j
      BY <3>1 DEF LastKept
    <3>3. new[s] = stats[s]
      BY <1>2, <2>2, <3>1
    <3>4. \A l \in 1..k : posts[l].ip = s => l <= j
      BY <1>1, <2>2, <3>2
    <3> QED BY <1>1, <3>2, <3>3, <3>4
  <2> QED BY <2>1, <2>2
<1> QED BY <1>3, <1>4 DEF LastKept, new

(* Whatever was posted, the controller keeps each server's last report and *)
(* its time.                                                               *)
THEOREM KeptIsLast ==
  ASSUME NEW posts, NEW n \in Nat, Len(posts) = n
  PROVE  LastKept(Kept(posts), posts, n)
<1>1. PICK acc : RunsTo(acc, "post", posts, {}, <<>>, n, Kept(posts))
  BY KeptRuns
<1> DEFINE S == {k \in 0..n : LastKept(acc[k], posts, k)}
<1>2. 0 \in S
  <2>1. acc[0] = <<>> /\ DOMAIN <<>> = {} /\ {posts[j].ip : j \in 1..0} = {}
    BY <1>1 DEF RunsTo
  <2> QED BY <2>1 DEF LastKept
<1>3. ASSUME NEW k \in 1..n, k - 1 \in S PROVE k \in S
  <2>1. acc[k] = Posted(acc[k - 1], posts[k].ip, posts[k].report, k)
    BY <1>1 DEF RunsTo, Iterate
  <2>2. k \in Nat /\ k # 0 /\ k \in 0..n /\ LastKept(acc[k - 1], posts, k - 1)
    BY <1>3
  <2>3. LastKept(acc[k], posts, k)
    BY <2>1, <2>2, PostKept
  <2> QED BY <2>2, <2>3
<1> HIDE DEF S
<1>4. n \in S
  BY <1>2, <1>3, InductionUpTo
<1>5. acc[n] = Kept(posts)
  BY <1>1 DEF RunsTo
<1> QED BY <1>4, <1>5 DEF S

-----------------------------------------------------------------------------
(* AggregatesAddUp.                                                     *)

(* A function on 1..n is a sequence of n elements. *)
LEMMA FunctionLen ==
  ASSUME NEW n \in Nat, NEW S, NEW f \in [1..n -> S]
  PROVE  Len(f) = n /\ DOMAIN f = 1..n
OBVIOUS

(* An order of a finite set has each of its elements once. *)
LEMMA OrderIsWhole ==
  ASSUME NEW S, IsFiniteSet(S), NEW order \in SetToSeqs(S)
  PROVE  LET n == Cardinality(S) IN
         /\ n \in Nat /\ order \in [1..n -> S] /\ Len(order) = n
         /\ \A i, j \in 1..n : i # j => order[i] # order[j]
         /\ S = {order[i] : i \in 1..n}
<1> DEFINE n == Cardinality(S)
<1>1. n \in Nat
  BY FS_CardinalityType
<1>2. order \in [1..n -> S] /\ \A i, j \in 1..n : i # j => order[i] # order[j]
  BY DEF SetToSeqs
<1>3. Len(order) = n
  BY <1>1, <1>2, FunctionLen
<1>4. Cardinality(1..n) = n
  BY <1>1, FS_Interval
<1>5. order \in Injection(1..n, S)
  BY <1>2 DEF Injection, IsInjective
<1>6. order \in Surjection(1..n, S)
  BY <1>4, <1>5, FS_Injection
<1>7. S = {order[i] : i \in 1..n}
  BY <1>2, <1>6 DEF Surjection
<1> QED BY <1>1, <1>2, <1>3, <1>7

(* A finite set as a sequence is as long as it is large. *)
LEMMA SeqOfSet ==
  ASSUME NEW S, IsFiniteSet(S)
  PROVE  Len(SetToSeq(S)) = Cardinality(S)
<1> DEFINE n == Cardinality(S)
<1>1. n \in Nat /\ ExistsBijection(1..n, S)
  BY FS_CardinalityType
<1>2. \E f \in [1..n -> S] : IsInjective(f)
  BY <1>1 DEF ExistsBijection, Bijection, Injection
<1>3. SetToSeq(S) \in [1..n -> S]
  BY <1>2 DEF SetToSeq
<1> QED BY <1>1, <1>3, FunctionLen

(* The last post of a server that has posted. *)
LEMMA LastPostIs ==
  ASSUME NEW posts, NEW s, NEW j \in 1..Len(posts), Len(posts) \in Nat, posts[j].ip = s,
         \A l \in 1..Len(posts) : posts[l].ip = s => l <= j
  PROVE  LastPost(posts, s) = j
<1> DEFINE mine == {k \in 1..Len(posts) : posts[k].ip = s}
<1>1. j \in mine /\ \A l \in mine : l <= j
  OBVIOUS
<1>2. \A k \in mine : (\A l \in mine : l <= k) => k = j
  BY <1>1
<1>3. LastPost(posts, s) = CHOOSE k \in mine : \A l \in mine : l <= k
  BY DEF LastPost
<1> HIDE DEF mine
<1> QED BY <1>1, <1>2, <1>3, Zenon

(* The sum of a target's reconnections over the servers of an order. *)
TargetSum(posts, order, t) ==
  FoldLeft(LAMBDA sum, s : sum + (IF t \in DOMAIN posts[LastPost(posts, s)].report.targets
                                  THEN posts[LastPost(posts, s)].report.targets[t] ELSE 0),
           0, order)

(* The reports that are kept of the servers are their last. *)
OfLastPosts(stats, posts, order, n) ==
  \A k \in 1..n : stats[order[k]].report = posts[LastPost(posts, order[k])].report

(* It is what GetStats adds up. *)
LEMMA TargetsAreSums ==
  ASSUME NEW posts, NEW stats, NEW n \in Nat \ {0}, NEW order, DOMAIN order = 1..n,
         OfLastPosts(stats, posts, order, n),
         NEW t \in DOMAIN GetStats(stats, order).targets
  PROVE  GetStats(stats, order).targets[t] = TargetSum(posts, order, t)
<1> DEFINE x == [k \in 1..n |-> Addend(posts[LastPost(posts, order[k])].report, t)]
           Given(iter) ==
             iter = [s \in SUBSET (1..n) |->
                       IF s = {} THEN 0
                       ELSE iter[s \ {Max(s)}]
                              + (IF t \in DOMAIN posts[LastPost(posts, order[Max(s)])].report.targets
                                 THEN posts[LastPost(posts, order[Max(s)])].report.targets[t] ELSE 0)]
<1>1. TargetSum(posts, order, t) = (CHOOSE iter : Given(iter))[1..n]
  BY DEF TargetSum, FoldLeft, MapThenFoldSet
<1>2. \A s \in SUBSET (1..n) : s # {} => x[Max(s)] = Addend(posts[LastPost(posts, order[Max(s)])].report, t)
  BY MaxIsOne
<1>3. ASSUME NEW iter PROVE IsFold(iter, "add numbers", x, {}, 0, n) <=> Given(iter)
  <2> HIDE DEF x
  <2> QED BY <1>2 DEF IsFold, Iterate, Addend
<1> HIDE DEF Given
<1>4. Given(CHOOSE iter : Given(iter))
  BY <1>3, FoldExists
<1>5. \E sums : RunsTo(sums, "add numbers", x, {}, 0, n, TargetSum(posts, order, t))
  <2> HIDE DEF x
  <2>1. IsFold(CHOOSE iter : Given(iter), "add numbers", x, {}, 0, n)
    BY <1>3, <1>4
  <2>2. \E sums : RunsTo(sums, "add numbers", x, {}, 0, n, (CHOOSE iter : Given(iter))[1..n])
    BY <2>1, FoldRuns
  <2> QED BY <1>1, <2>2
<1>6. PICK sums : /\ sums[0] = 0 /\ sums[n] = TargetSum(posts, order, t)
                  /\ \A k \in 1..n : sums[k] = sums[k - 1] + x[k]
  BY <1>5 DEF RunsTo, Iterate
<1>7. AddsTarget(sums, stats, order, n, t)
  BY <1>6 DEF AddsTarget, OfLastPosts
<1>8. \E acc : RunsTo(acc, "add servers", stats, order, Nothing, n, GetStats(stats, order))
  BY GetStatsRuns
<1>9. PICK acc : AddsServers(acc, stats, order, n) /\ acc[n] = GetStats(stats, order)
  BY <1>8 DEF RunsTo, Iterate, AddsServers
<1> QED BY <1>6, <1>7, <1>9, TargetsAddUp

(* The sum of all the reconnections that the servers of an order report.   *)
ReportedTotal(posts, order) ==
  FoldLeft(LAMBDA sum, s : sum + SumFunction(posts[LastPost(posts, s)].report.targets), 0, order)

(* It is the total that GetStats keeps. *)
LEMMA TargetTotalIsSum ==
  ASSUME NEW posts, NEW stats, NEW n \in Nat \ {0}, NEW order, DOMAIN order = 1..n,
         OfLastPosts(stats, posts, order, n)
  PROVE  GetStats(stats, order).targetTotal = ReportedTotal(posts, order)
<1> DEFINE x == [k \in 1..n |-> SumFunction(posts[LastPost(posts, order[k])].report.targets)]
           Given(iter) ==
             iter = [s \in SUBSET (1..n) |->
                       IF s = {} THEN 0
                       ELSE iter[s \ {Max(s)}]
                              + SumFunction(posts[LastPost(posts, order[Max(s)])].report.targets)]
<1>1. ReportedTotal(posts, order) = (CHOOSE iter : Given(iter))[1..n]
  BY DEF ReportedTotal, FoldLeft, MapThenFoldSet
<1>2. \A s \in SUBSET (1..n) : s # {} =>
        x[Max(s)] = SumFunction(posts[LastPost(posts, order[Max(s)])].report.targets)
  BY MaxIsOne
<1>3. ASSUME NEW iter PROVE IsFold(iter, "add numbers", x, {}, 0, n) <=> Given(iter)
  <2> HIDE DEF x
  <2> QED BY <1>2 DEF IsFold, Iterate
<1> HIDE DEF Given
<1>4. Given(CHOOSE iter : Given(iter))
  BY <1>3, FoldExists
<1>5. \E sums : RunsTo(sums, "add numbers", x, {}, 0, n, ReportedTotal(posts, order))
  <2> HIDE DEF x
  <2>1. IsFold(CHOOSE iter : Given(iter), "add numbers", x, {}, 0, n)
    BY <1>3, <1>4
  <2>2. \E sums : RunsTo(sums, "add numbers", x, {}, 0, n, (CHOOSE iter : Given(iter))[1..n])
    BY <2>1, FoldRuns
  <2> QED BY <1>1, <2>2
<1>6. PICK sums : /\ sums[0] = 0 /\ sums[n] = ReportedTotal(posts, order)
                  /\ \A k \in 1..n : sums[k] = sums[k - 1] + x[k]
  BY <1>5 DEF RunsTo, Iterate
<1>7. \A k \in 1..n : x[k] = SumFunction(stats[order[k]].report.targets)
  BY DEF OfLastPosts
<1> HIDE DEF x
<1>8. \E acc : RunsTo(acc, "add servers", stats, order, Nothing, n, GetStats(stats, order))
  BY GetStatsRuns
<1>9. PICK acc : AddsServers(acc, stats, order, n) /\ acc[n] = GetStats(stats, order)
  BY <1>8 DEF RunsTo, Iterate, AddsServers
<1> DEFINE S == {k \in 0..n : acc[k].targetTotal = sums[k]}
<1>10. 0 \in S
  <2>1. acc[0] = Nothing /\ Nothing.targetTotal = 0
    BY <1>9 DEF AddsServers, Nothing
  <2> QED BY <1>6, <2>1
<1>11. ASSUME NEW k \in 1..n, k - 1 \in S PROVE k \in S
  <2>1. acc[k] = AddServer(acc[k - 1], order[k], stats[order[k]].report)
    BY <1>9 DEF AddsServers
  <2>2. AddServer(acc[k - 1], order[k], stats[order[k]].report).targetTotal
          = acc[k - 1].targetTotal + SumFunction(stats[order[k]].report.targets)
    BY DEF AddServer
  <2>3. sums[k] = sums[k - 1] + SumFunction(stats[order[k]].report.targets)
    BY <1>6, <1>7
  <2>4. k \in 0..n /\ acc[k - 1].targetTotal = sums[k - 1]
    BY <1>11
  <2> QED BY <2>1, <2>2, <2>3, <2>4
<1> HIDE DEF S
<1>12. n \in S
  BY <1>10, <1>11, InductionUpTo
<1> QED BY <1>6, <1>9, <1>12 DEF S

(* The aggregates of any posts are what AggregatesAddUp says of them. *)
THEOREM AggregatesHold == AggregatesAddUp
<1> SUFFICES ASSUME NEW posts \in [1..3 -> [ip : Servers, report : Reports]]
    PROVE  LET stats == Kept(posts)
               recent == {s \in Servers : \E k \in 2..3 : posts[k].ip = s}
               last(s) == posts[LastPost(posts, s)].report
           IN /\ Active(stats, 3) = recent
              /\ \A order \in SetToSeqs(recent) :
                   LET result == GetStats(stats, order) IN
                   /\ result.active = Len(order)
                   /\ result.reconnects = 0
                   /\ Average(result, "targets") = [sum |-> ReportedTotal(posts, order), over |-> Len(order)]
                   /\ \A m \in Displayed(result) : result.count[m] > 0
                   /\ \A t \in DOMAIN result.targets : result.targets[t] = TargetSum(posts, order, t)
                   /\ \A m \in Metrics :
                        LET counted == {s \in recent : Measured(last(s), m)}
                            average == Average(result, m)
                            low == result.lowest[m]  high == result.highest[m]
                        IN /\ average.over = Len(SetToSeq(counted))
                           /\ counted # {} =>
                                /\ low.value * average.over <= average.sum
                                /\ average.sum <= high.value * average.over
                           /\ \A s \in counted : low.value <= last(s)[m] /\ last(s)[m] <= high.value
                           /\ \/ low.server \in counted /\ last(low.server)[m] = low.value
                              \/ m # "throughput" /\ \A s \in counted : last(s)[m] >= Unbeaten
                           /\ \/ high.server \in counted /\ last(high.server)[m] = high.value
                              \/ \A s \in counted : last(s)[m] = 0
  BY DEF AggregatesAddUp, TargetSum, ReportedTotal
<1> DEFINE stats   == Kept(posts)
           recent  == {s \in Servers : \E k \in 2..3 : posts[k].ip = s}
           last(s) == posts[LastPost(posts, s)].report
<1>1. Len(posts) = 3 /\ \A k \in 1..3 : posts[k].ip \in Servers /\ posts[k].report \in Reports
  BY FunctionLen
<1>2. LastKept(stats, posts, 3)
  BY <1>1, KeptIsLast
<1>3. \A s \in DOMAIN stats : stats[s].report = last(s) /\ stats[s].report \in Reports
  <2> TAKE s \in DOMAIN stats
  <2>1. PICK j \in 1..3 : /\ posts[j].ip = s /\ stats[s].report = posts[j].report
                          /\ \A l \in 1..3 : posts[l].ip = s => l <= j
    BY <1>2 DEF LastKept
  <2>2. /\ j \in 1..Len(posts) /\ Len(posts) \in Nat
        /\ \A l \in 1..Len(posts) : posts[l].ip = s => l <= j
    BY <1>1, <2>1
  <2>3. LastPost(posts, s) = j
    BY <2>1, <2>2, LastPostIs
  <2> QED BY <1>1, <2>1, <2>3
<1>4. Active(stats, 3) = recent
  <2> HIDE DEF stats
  <2>1. DOMAIN stats = {posts[j].ip : j \in 1..3}
    BY <1>2 DEF LastKept
  <2>2. ASSUME NEW s \in DOMAIN stats
        PROVE  3 - stats[s].updatedAt <= 1 <=> \E k \in 2..3 : posts[k].ip = s
    <3>1. PICK j \in 1..3 : /\ posts[j].ip = s /\ stats[s].updatedAt = j
                            /\ \A l \in 1..3 : posts[l].ip = s => l <= j
      BY <1>2 DEF LastKept
    <3> QED BY <3>1
  <2> QED BY <1>1, <2>1, <2>2 DEF Active
<1>5. recent \subseteq DOMAIN stats
  BY <1>4 DEF Active
<1>6. IsFiniteSet(recent)
  <2>1. IsFiniteSet({posts[2].ip} \cup {posts[3].ip})
    BY FS_Singleton, FS_Union
  <2>2. recent \in SUBSET ({posts[2].ip} \cup {posts[3].ip})
    OBVIOUS
  <2> QED BY <2>1, <2>2, FS_Subset
<1>8. posts[3].ip \in recent
  BY <1>1
<1> HIDE DEF stats
<1>7. ASSUME NEW order \in SetToSeqs(recent)
      PROVE  LET result == GetStats(stats, order) IN
             /\ result.active = Len(order)
             /\ result.reconnects = 0
             /\ Average(result, "targets") = [sum |-> ReportedTotal(posts, order), over |-> Len(order)]
             /\ \A m \in Displayed(result) : result.count[m] > 0
             /\ \A t \in DOMAIN result.targets : result.targets[t] = TargetSum(posts, order, t)
             /\ \A m \in Metrics :
                  LET counted == {s \in recent : Measured(last(s), m)}
                      average == Average(result, m)
                      low == result.lowest[m]  high == result.highest[m]
                  IN /\ average.over = Len(SetToSeq(counted))
                     /\ counted # {} =>
                          /\ low.value * average.over <= average.sum
                          /\ average.sum <= high.value * average.over
                     /\ \A s \in counted : low.value <= last(s)[m] /\ last(s)[m] <= high.value
                     /\ \/ low.server \in counted /\ last(low.server)[m] = low.value
                        \/ m # "throughput" /\ \A s \in counted : last(s)[m] >= Unbeaten
                     /\ \/ high.server \in counted /\ last(high.server)[m] = high.value
                        \/ \A s \in counted : last(s)[m] = 0
  <2> DEFINE n      == Cardinality(recent)
             result == GetStats(stats, order)
  <2> HIDE DEF recent
  <2>1. /\ n \in Nat /\ order \in [1..n -> recent] /\ Len(order) = n
        /\ \A i, j \in 1..n : i # j => order[i] # order[j]
        /\ recent = {order[i] : i \in 1..n}
    BY <1>6, OrderIsWhole
  <2>2. DOMAIN order = 1..n /\ \A i \in 1..n : order[i] \in DOMAIN stats
    BY <1>5, <2>1
  <2>10. n # 0
    BY <1>6, <1>8, FS_EmptySet
  <2> HIDE DEF n
  <2>11. n \in Nat \ {0}
    BY <2>1, <2>10
  <2>3. IsOrder(stats, order, n)
    BY <1>3, <2>1, <2>2 DEF IsOrder
  <2>4. /\ result.active = n /\ result.reconnects = 0
        /\ \A m \in Metrics : MetricAdded(result, stats, order, n, m)
    BY <2>3, <2>11, GetStatsAddsUp
  <2>5. \A k \in 1..n : stats[order[k]].report = last(order[k])
    BY <1>3, <2>2
  <2>12. OfLastPosts(stats, posts, order, n)
    BY <2>5 DEF OfLastPosts
  <2>6. \A t \in DOMAIN result.targets : result.targets[t] = TargetSum(posts, order, t)
    BY <2>2, <2>11, <2>12, TargetsAreSums
  <2>13. result.targetTotal = ReportedTotal(posts, order)
    BY <2>2, <2>11, <2>12, TargetTotalIsSum
  <2> HIDE DEF result
  <2>7. ASSUME NEW m \in Metrics
        PROVE  Counted(stats, order, n, m) = {s \in recent : Measured(last(s), m)}
    <3>1. \A s \in recent : stats[s].report = last(s)
      BY <1>3, <1>5
    <3> QED BY <2>1, <3>1 DEF Counted
  <2>14. Average(result, "targets") = [sum |-> ReportedTotal(posts, order), over |-> n]
    BY <2>4, <2>13 DEF Average
  <2>15. ASSUME NEW m \in Metrics
         PROVE  Average(result, m) = [sum |-> result.total[m], over |-> result.count[m]]
    <3>1. \A c \in Metrics : result.count[c] = Cardinality(Counted(stats, order, n, c))
      BY <2>4 DEF MetricAdded
    <3>2. CASE m \in {"throughput", "reconnects"}
      <4>1. Counted(stats, order, n, m) = recent
        BY <2>1, <3>2 DEF Counted, Measured
      <4>2. result.count[m] = n
        BY <3>1, <4>1 DEF n
      <4> QED BY <2>4, <3>2, <4>2 DEF Average
    <3>3. CASE m \in {"jitter", "rtt"}
      <4>1. Counted(stats, order, n, m) = Counted(stats, order, n, "rtt")
        BY <3>3 DEF Counted, Measured
      <4>2. result.count[m] = result.count["rtt"]
        BY <3>1, <4>1 DEF Metrics
      <4> QED BY <3>3, <4>2 DEF Average
    <3>4. CASE m = "loss"
      BY <3>4 DEF Average
    <3> QED BY <3>2, <3>3, <3>4 DEF Metrics
  <2>8. \A m \in Displayed(result) : result.count[m] > 0
    <3> TAKE m \in Displayed(result)
    <3>1. m \in Metrics
      BY DEF Displayed
    <3> DEFINE looked == IF m = "jitter" THEN "rtt" ELSE m
    <3>2. looked \in Metrics
      BY <3>1 DEF Metrics
    <3>3. /\ result.count[m] = Cardinality(Counted(stats, order, n, m))
          /\ IsFiniteSet(Counted(stats, order, n, m))
      BY <2>4, <3>1 DEF MetricAdded
    <3>4. CASE m = "throughput"
      <4>1. n > 0 /\ 1 \in 1..n
        BY <2>1, <2>4, <3>4 DEF Displayed
      <4>2. order[1] \in Counted(stats, order, n, m)
        BY <3>4, <4>1 DEF Counted, Measured
      <4> QED BY <3>3, <4>2, FS_EmptySet, FS_CardinalityType
    <3>5. CASE m # "throughput"
      <4>1. result.total[looked] > 0
        BY <3>5 DEF Displayed
      <4>2. /\ result.count[looked] = 0 => result.total[looked] = 0
            /\ result.count[looked] = Cardinality(Counted(stats, order, n, looked))
        BY <2>4, <3>2 DEF MetricAdded
      <4>3. Counted(stats, order, n, looked) = Counted(stats, order, n, m)
        BY DEF Counted, Measured
      <4> QED BY <3>3, <4>1, <4>2, <4>3, FS_CardinalityType
    <3> QED BY <3>4, <3>5
  <2>9. ASSUME NEW m \in Metrics
        PROVE  LET counted == {s \in recent : Measured(last(s), m)}
                   average == Average(result, m)
                   low == result.lowest[m]  high == result.highest[m]
               IN /\ average.over = Len(SetToSeq(counted))
                  /\ counted # {} =>
                       /\ low.value * average.over <= average.sum
                       /\ average.sum <= high.value * average.over
                  /\ \A s \in counted : low.value <= last(s)[m] /\ last(s)[m] <= high.value
                  /\ \/ low.server \in counted /\ last(low.server)[m] = low.value
                     \/ m # "throughput" /\ \A s \in counted : last(s)[m] >= Unbeaten
                  /\ \/ high.server \in counted /\ last(high.server)[m] = high.value
                     \/ \A s \in counted : last(s)[m] = 0
    <3> DEFINE counted == {s \in recent : Measured(last(s), m)}
    <3>1. counted = Counted(stats, order, n, m)
      BY <2>7
    <3>2. \A s \in counted : stats[s].report = last(s)
      BY <1>3, <1>5
    <3> HIDE DEF counted, last
    <3>3. /\ IsFiniteSet(counted) /\ result.count[m] = Cardinality(counted)
          /\ result.lowest[m].value * result.count[m] <= result.total[m]
          /\ result.total[m] <= result.highest[m].value * result.count[m]
          /\ \A s \in counted : /\ result.lowest[m].value <= stats[s].report[m]
                                /\ stats[s].report[m] <= result.highest[m].value
          /\ \/ /\ result.lowest[m].server \in counted
                /\ stats[result.lowest[m].server].report[m] = result.lowest[m].value
             \/ /\ m # "throughput" \/ n = 0
                /\ \A s \in counted : stats[s].report[m] >= Unbeaten
          /\ \/ /\ result.highest[m].server \in counted
                /\ stats[result.highest[m].server].report[m] = result.highest[m].value
             \/ \A s \in counted : stats[s].report[m] = 0
      BY <2>4, <3>1 DEF MetricAdded
    <3>4. Len(SetToSeq(counted)) = Cardinality(counted)
      BY <3>3, SeqOfSet
    <3>5. \A s \in counted : stats[s].report[m] = last(s)[m]
      BY <3>2
    <3>6. /\ \A s \in counted : result.lowest[m].value <= last(s)[m] /\ last(s)[m] <= result.highest[m].value
          /\ \/ /\ result.lowest[m].server \in counted
                /\ last(result.lowest[m].server)[m] = result.lowest[m].value
             \/ m # "throughput" /\ \A s \in counted : last(s)[m] >= Unbeaten
          /\ \/ /\ result.highest[m].server \in counted
                /\ last(result.highest[m].server)[m] = result.highest[m].value
             \/ \A s \in counted : last(s)[m] = 0
      BY <2>10, <3>3, <3>5
    <3>7. /\ Average(result, m).sum = result.total[m]
          /\ Average(result, m).over = result.count[m]
      BY <2>15
    <3> QED BY <3>3, <3>4, <3>6, <3>7 DEF counted
  <2> QED BY <2>1, <2>4, <2>6, <2>8, <2>9, <2>14 DEF result
<1> QED BY <1>4, <1>7 DEF stats

-----------------------------------------------------------------------------
(* The exchange sort.                                                      *)

(* The inner loop compares entry i with those after it one by one. *)
LEMMA PassRuns ==
  ASSUME NEW entries, NEW i, NEW ascending, NEW n \in Nat, Len(entries) - i = n
  PROVE  \E acc : RunsTo(acc, "pass", i, ascending, entries, n, Pass(entries, i, ascending))
<1> DEFINE size == Len(entries) - i
           index == [k \in 1..size |-> i + k]
           Given(iter) ==
             iter = [s \in SUBSET (1..size) |->
                       IF s = {} THEN entries
                       ELSE IF Before(iter[s \ {Max(s)}], i, index[Max(s)], ascending)
                            THEN Swap(iter[s \ {Max(s)}], i, index[Max(s)])
                            ELSE iter[s \ {Max(s)}]]
<1>1. Pass(entries, i, ascending) = (CHOOSE iter : Given(iter))[1..size]
  BY DEF Pass, FoldLeft, MapThenFoldSet
<1>2. \A s \in SUBSET (1..n) : s # {} => index[Max(s)] = i + Max(s)
  BY MaxIsOne
<1>6. size = n
  OBVIOUS
<1> HIDE DEF index, size
<1>3. ASSUME NEW iter PROVE IsFold(iter, "pass", i, ascending, entries, n) <=> Given(iter)
  BY <1>2, <1>6 DEF IsFold, Iterate
<1> HIDE DEF Given
<1>4. IsFold(CHOOSE iter : Given(iter), "pass", i, ascending, entries, n)
  BY <1>3, FoldExists
<1>5. \E acc : RunsTo(acc, "pass", i, ascending, entries, n, (CHOOSE iter : Given(iter))[1..n])
  BY <1>4, FoldRuns
<1> QED BY <1>1, <1>5, <1>6

(* The outer loop makes the passes one by one. *)
LEMMA SortRuns ==
  ASSUME NEW entries, NEW ascending, NEW n \in Nat, DOMAIN entries = 1..n
  PROVE  \E acc : RunsTo(acc, "sort", {}, ascending, entries, n, Sorted(entries, ascending))
<1> DEFINE index == [k \in 1..n |-> k]
           Given(iter) ==
             iter = [s \in SUBSET (1..n) |->
                       IF s = {} THEN entries
                       ELSE Pass(iter[s \ {Max(s)}], index[Max(s)], ascending)]
<1>1. Sorted(entries, ascending) = (CHOOSE iter : Given(iter))[1..n]
  BY DEF Sorted, FoldLeftDomain, FoldLeft, MapThenFoldSet
<1>2. \A s \in SUBSET (1..n) : s # {} => index[Max(s)] = Max(s)
  BY MaxIsOne
<1> HIDE DEF index
<1>3. ASSUME NEW iter PROVE IsFold(iter, "sort", {}, ascending, entries, n) <=> Given(iter)
  BY <1>2 DEF IsFold, Iterate
<1> HIDE DEF Given
<1>4. IsFold(CHOOSE iter : Given(iter), "sort", {}, ascending, entries, n)
  BY <1>3, FoldExists
<1>5. \E acc : RunsTo(acc, "sort", {}, ascending, entries, n, (CHOOSE iter : Given(iter))[1..n])
  BY <1>4, FoldRuns
<1> QED BY <1>1, <1>5

(* seq holds the n entries, in some order. *)
IsRearranged(seq, entries, n) ==
  \E p \in [1..n -> 1..n] :
    /\ \A a, b \in 1..n : a # b => p[a] # p[b]
    /\ \A c \in 1..n : \E a \in 1..n : p[a] = c
    /\ seq = [a \in 1..n |-> entries[p[a]]]

(* The pairs of positions that the loops have compared once i has been     *)
(* compared with j are in order.                                           *)
InOrderUpTo(seq, i, j, ascending, n) ==
  \A a, b \in 1..n : a < b /\ (a < i \/ (a = i /\ b <= j)) => ~Before(seq, a, b, ascending)

(* An exchange rearranges. *)
LEMMA SwapRearranges ==
  ASSUME NEW n \in Nat, NEW seq, NEW entries, IsRearranged(seq, entries, n),
         NEW i \in 1..n, NEW j \in 1..n, i # j
  PROVE  IsRearranged(Swap(seq, i, j), entries, n)
<1>1. PICK p \in [1..n -> 1..n] :
        /\ \A a, b \in 1..n : a # b => p[a] # p[b]
        /\ \A c \in 1..n : \E a \in 1..n : p[a] = c
        /\ seq = [a \in 1..n |-> entries[p[a]]]
  BY DEF IsRearranged
<1> DEFINE q == [p EXCEPT ![i] = p[j], ![j] = p[i]]
<1>2. q \in [1..n -> 1..n]
  OBVIOUS
<1>3. q[i] = p[j] /\ q[j] = p[i] /\ \A a \in 1..n : a # i /\ a # j => q[a] = p[a]
  OBVIOUS
<1> HIDE DEF q
<1>4. ASSUME NEW a \in 1..n, NEW b \in 1..n, a # b PROVE q[a] # q[b]
  <2> DEFINE from(c) == IF c = i THEN j ELSE IF c = j THEN i ELSE c
  <2>1. \A c \in 1..n : q[c] = p[from(c)] /\ from(c) \in 1..n
    BY <1>3
  <2>2. from(a) # from(b)
    BY <1>4
  <2> HIDE DEF from
  <2>3. p[from(a)] # p[from(b)]
    BY <1>1, <2>1, <2>2
  <2> QED BY <2>1, <2>3
<1>5. ASSUME NEW c \in 1..n PROVE \E a \in 1..n : q[a] = c
  <2>1. PICK a \in 1..n : p[a] = c
    BY <1>1
  <2> QED BY <1>3, <2>1
<1>6. Swap(seq, i, j) = [a \in 1..n |-> entries[q[a]]]
  <2>1. DOMAIN seq = 1..n /\ \A a \in 1..n : seq[a] = entries[p[a]]
    BY <1>1
  <2>2. \A a \in 1..n : Swap(seq, i, j)[a] = entries[q[a]]
    BY <1>3, <2>1 DEF Swap
  <2>3. Swap(seq, i, j) = [a \in 1..n |-> Swap(seq, i, j)[a]]
    BY <2>1 DEF Swap
  <2> QED BY <2>2, <2>3
<1> QED BY <1>2, <1>4, <1>5, <1>6 DEF IsRearranged

(* One comparison more. *)
LEMMA ComparedInOrder ==
  ASSUME NEW n \in Nat, NEW ascending \in BOOLEAN, NEW seq, DOMAIN seq = 1..n,
         \A a \in 1..n : seq[a].value \in Int,
         NEW i \in 1..n, NEW j \in 1..n, i < j, InOrderUpTo(seq, i, j - 1, ascending, n)
  PROVE  InOrderUpTo(IF Before(seq, i, j, ascending) THEN Swap(seq, i, j) ELSE seq,
                     i, j, ascending, n)
<1>1. CASE ~Before(seq, i, j, ascending)
  BY <1>1 DEF InOrderUpTo
<1>2. CASE Before(seq, i, j, ascending)
  <2> DEFINE new == Swap(seq, i, j)
  <2>1. new[i] = seq[j] /\ new[j] = seq[i] /\ \A a \in 1..n : a # i /\ a # j => new[a] = seq[a]
    BY DEF Swap
  <2> HIDE DEF new
  <2>2. ASSUME NEW a \in 1..n, NEW b \in 1..n, a < b, a < i \/ (a = i /\ b <= j)
        PROVE  ~Before(new, a, b, ascending)
    <3>1. CASE a < i
      <4>1. new[a] = seq[a]
        BY <2>1, <3>1
      <4>2. PICK c \in 1..n : a < c /\ new[b] = seq[c]
        <5>1. CASE b = i
          BY <2>1, <3>1, <5>1
        <5>2. CASE b = j
          BY <2>1, <3>1, <5>2
        <5>3. CASE b # i /\ b # j
          BY <2>1, <2>2, <5>3
        <5> QED BY <5>1, <5>2, <5>3
      <4>3. ~Before(seq, a, c, ascending)
        BY <3>1, <4>2 DEF InOrderUpTo
      <4> QED BY <4>1, <4>2, <4>3 DEF Before
    <3>2. CASE a = i /\ b = j
      BY <1>2, <2>1, <3>2 DEF Before
    <3>3. CASE a = i /\ b < j
      <4>1. ~Before(seq, i, b, ascending)
        BY <2>2, <3>3 DEF InOrderUpTo
      <4>2. new[a] = seq[j] /\ new[b] = seq[b]
        BY <2>1, <2>2, <3>3
      <4> QED BY <1>2, <4>1, <4>2 DEF Before
    <3> QED BY <2>2, <3>1, <3>2, <3>3
  <2> QED BY <1>2, <2>2 DEF InOrderUpTo, new
<1> QED BY <1>1, <1>2

(* What is rearranged has the length and the values of the entries. *)
LEMMA RearrangedIs ==
  ASSUME NEW n \in Nat, NEW entries, \A a \in 1..n : entries[a].value \in Int,
         NEW seq, IsRearranged(seq, entries, n)
  PROVE  DOMAIN seq = 1..n /\ Len(seq) = n /\ \A a \in 1..n : seq[a].value \in Int
<1>1. PICK p \in [1..n -> 1..n] : seq = [a \in 1..n |-> entries[p[a]]]
  BY DEF IsRearranged
<1>2. seq \in [1..n -> {entries[a] : a \in 1..n}]
  BY <1>1
<1>3. Len(seq) = n /\ DOMAIN seq = 1..n
  BY <1>2, FunctionLen
<1> QED BY <1>1, <1>3

(* A pass puts entry i before all those after it. *)
LEMMA PassSorts ==
  ASSUME NEW n \in Nat, NEW ascending \in BOOLEAN,
         NEW entries, \A a \in 1..n : entries[a].value \in Int,
         NEW seq, IsRearranged(seq, entries, n),
         NEW i \in 1..n, InOrderUpTo(seq, i, i, ascending, n)
  PROVE  /\ IsRearranged(Pass(seq, i, ascending), entries, n)
         /\ InOrderUpTo(Pass(seq, i, ascending), i, n, ascending, n)
<1>1. Len(seq) - i = n - i /\ n - i \in Nat
  BY RearrangedIs
<1>2. PICK acc : RunsTo(acc, "pass", i, ascending, seq, n - i, Pass(seq, i, ascending))
  BY <1>1, PassRuns
<1> DEFINE S == {k \in 0..(n - i) : /\ IsRearranged(acc[k], entries, n)
                                    /\ InOrderUpTo(acc[k], i, i + k, ascending, n)}
<1>3. 0 \in S
  <2>1. acc[0] = seq /\ i + 0 = i /\ 0 \in 0..(n - i)
    BY <1>1, <1>2 DEF RunsTo
  <2> QED BY <2>1
<1>4. ASSUME NEW k \in 1..(n - i), k - 1 \in S PROVE k \in S
  <2> DEFINE old == acc[k - 1]
             j   == i + k
  <2>1. acc[k] = IF Before(old, i, j, ascending) THEN Swap(old, i, j) ELSE old
    BY <1>2 DEF RunsTo, Iterate
  <2>2. j \in 1..n /\ i < j /\ i + (k - 1) = j - 1 /\ k \in 0..(n - i)
    OBVIOUS
  <2>3. IsRearranged(old, entries, n) /\ InOrderUpTo(old, i, j - 1, ascending, n)
    BY <1>4, <2>2
  <2> HIDE DEF old, j
  <2>4. IsRearranged(acc[k], entries, n)
    BY <2>1, <2>2, <2>3, SwapRearranges
  <2>5. DOMAIN old = 1..n /\ \A a \in 1..n : old[a].value \in Int
    BY <2>3, RearrangedIs
  <2>6. InOrderUpTo(acc[k], i, j, ascending, n)
    BY <2>1, <2>2, <2>3, <2>5, ComparedInOrder
  <2> QED BY <2>2, <2>4, <2>6 DEF j
<1> HIDE DEF S
<1>5. n - i \in S
  <2>1. \A k \in 1..(n - i) : k - 1 \in S => k \in S
    BY <1>4
  <2>2. 0..(n - i) \subseteq S
    BY <1>1, <1>3, <2>1, InductionUpTo
  <2> QED BY <1>1, <2>2
<1>6. acc[n - i] = Pass(seq, i, ascending) /\ i + (n - i) = n
  BY <1>2 DEF RunsTo
<1> QED BY <1>5, <1>6 DEF S

(* The sort rearranges any number of entries and leaves each before all    *)
(* those that come after it.                                               *)
THEOREM SortRanks ==
  ASSUME NEW n \in Nat, NEW ascending \in BOOLEAN,
         NEW Entry, NEW entries \in [1..n -> Entry], \A a \in 1..n : entries[a].value \in Int
  PROVE  /\ IsRearranged(Sorted(entries, ascending), entries, n)
         /\ \A a, b \in 1..n : a < b => ~Before(Sorted(entries, ascending), a, b, ascending)
<1>1. PICK acc : RunsTo(acc, "sort", {}, ascending, entries, n, Sorted(entries, ascending))
  BY SortRuns
<1> DEFINE S == {k \in 0..n : /\ IsRearranged(acc[k], entries, n)
                              /\ InOrderUpTo(acc[k], k + 1, k + 1, ascending, n)}
<1>2. 0 \in S
  <2>1. acc[0] = entries /\ 0 + 1 = 1 /\ 0 \in 0..n
    BY <1>1 DEF RunsTo
  <2>2. IsRearranged(entries, entries, n)
    <3> DEFINE p == [a \in 1..n |-> a]
    <3>1. p \in [1..n -> 1..n] /\ \A a \in 1..n : p[a] = a
      OBVIOUS
    <3> HIDE DEF p
    <3>2. entries = [a \in 1..n |-> entries[p[a]]]
      BY <3>1
    <3> QED BY <3>1, <3>2 DEF IsRearranged
  <2>3. InOrderUpTo(entries, 1, 1, ascending, n)
    BY DEF InOrderUpTo
  <2> QED BY <2>1, <2>2, <2>3
<1>3. ASSUME NEW k \in 1..n, k - 1 \in S PROVE k \in S
  <2>1. acc[k] = Pass(acc[k - 1], k, ascending)
    BY <1>1 DEF RunsTo, Iterate
  <2>2. IsRearranged(acc[k - 1], entries, n) /\ InOrderUpTo(acc[k - 1], k, k, ascending, n)
    <3>1. (k - 1) + 1 = k
      OBVIOUS
    <3> QED BY <1>3, <3>1
  <2>3. IsRearranged(acc[k], entries, n) /\ InOrderUpTo(acc[k], k, n, ascending, n)
    BY <2>1, <2>2, PassSorts
  <2>4. InOrderUpTo(acc[k], k + 1, k + 1, ascending, n)
    BY <2>3 DEF InOrderUpTo
  <2> QED BY <2>3, <2>4
<1> HIDE DEF S
<1>4. n \in S
  <2>1. \A k \in 1..n : k - 1 \in S => k \in S
    BY <1>3
  <2>2. 0..n \subseteq S
    BY <1>2, <2>1, InductionUpTo
  <2> QED BY <2>2
<1>5. acc[n] = Sorted(entries, ascending)
  BY <1>1 DEF RunsTo
<1>6. InOrderUpTo(Sorted(entries, ascending), n + 1, n + 1, ascending, n)
  BY <1>4, <1>5 DEF S
<1>7. \A a, b \in 1..n : a < b => ~Before(Sorted(entries, ascending), a, b, ascending)
  BY <1>6 DEF InOrderUpTo
<1> QED BY <1>4, <1>5, <1>7 DEF S

(* v may stand before w in the ranking. *)
NotAfter(v, w, ascending) == IF ascending THEN v <= w ELSE v >= w

(* The list ranks the n values, or the first topN of them: it is ordered,  *)
(* no entry occurs twice, and none that was cut off comes before one that  *)
(* was kept.                                                               *)
IsRanking(list, values, n, ascending, topN) ==
  LET kept == {list[i].ip : i \in 1..Len(list)}
  IN /\ Len(list) = IF topN \in 1..n THEN topN ELSE n
     /\ \A i \in 1..Len(list) : list[i].ip \in 1..n /\ list[i].value = values[list[i].ip]
     /\ \A i, j \in 1..Len(list) :
          i < j => list[i].ip # list[j].ip /\ NotAfter(list[i].value, list[j].value, ascending)
     /\ \A i \in kept, j \in (1..n) \ kept : NotAfter(values[i], values[j], ascending)

(* What does not have to come before an entry is not after it. *)
LEMMA InPlace ==
  ASSUME NEW seq, NEW a, NEW b, NEW ascending,
         seq[a].value \in Int, seq[b].value \in Int, ~Before(seq, a, b, ascending)
  PROVE  NotAfter(seq[a].value, seq[b].value, ascending)
BY DEF Before, NotAfter

(* A ranked list ranks, however many values there are and are asked for. *)
THEOREM ListRanks ==
  ASSUME NEW n \in Nat, NEW values \in [1..n -> Int], NEW ascending \in BOOLEAN, NEW topN \in Nat
  PROVE  IsRanking(RankedReconnects(values, [i \in 1..n |-> i], ascending, topN),
                   values, n, ascending, topN)
<1> DEFINE order   == [i \in 1..n |-> i]
           Entry   == [ip : 1..n, value : Int]
           entries == [i \in 1..n |-> [ip |-> i, value |-> values[i]]]
           sorted  == Sorted(entries, ascending)
           size    == IF topN \in 1..n THEN topN ELSE n
           list    == RankedReconnects(values, order, ascending, topN)
<1>1. entries \in [1..n -> Entry] /\ \A a \in 1..n : entries[a].value \in Int
  OBVIOUS
<1>2. /\ IsRearranged(sorted, entries, n)
      /\ \A a, b \in 1..n : a < b => ~Before(sorted, a, b, ascending)
  <2> HIDE DEF entries, Entry
  <2> QED BY <1>1, SortRanks
<1>3. PICK p \in [1..n -> 1..n] :
        /\ \A a, b \in 1..n : a # b => p[a] # p[b]
        /\ \A c \in 1..n : \E a \in 1..n : p[a] = c
        /\ sorted = [a \in 1..n |-> entries[p[a]]]
  <2> HIDE DEF sorted, entries
  <2> QED BY <1>2 DEF IsRearranged
<1>4. Len(sorted) = n
  <2> HIDE DEF sorted, entries
  <2> QED BY <1>1, <1>2, RearrangedIs
<1>5. Len(order) = n /\ \A i \in 1..n : order[i] = i
  BY FunctionLen
<1>6. list = [i \in 1..size |-> sorted[i]]
  <2>1. [i \in 1..Len(order) |-> [ip |-> order[i], value |-> values[order[i]]]] = entries
    BY <1>5
  <2>2. list = Ranked(entries, ascending, topN)
    BY <2>1 DEF RankedReconnects
  <2>3. (IF topN > 0 /\ topN < Len(sorted) THEN topN ELSE Len(sorted)) = size
    BY <1>4
  <2> HIDE DEF entries, size
  <2> QED BY <2>2, <2>3 DEF Ranked
<1>7. size \in 0..n
  OBVIOUS
<1>8. \A a \in 1..n : sorted[a].ip = p[a] /\ sorted[a].value = values[p[a]]
  <2>1. \A a \in 1..n : entries[p[a]].ip = p[a] /\ entries[p[a]].value = values[p[a]]
    OBVIOUS
  <2> HIDE DEF sorted, entries
  <2> QED BY <1>3, <2>1
<1> HIDE DEF sorted, size, entries, list
<1>9. \A a, b \in 1..n : a < b => NotAfter(values[p[a]], values[p[b]], ascending)
  <2> SUFFICES ASSUME NEW a \in 1..n, NEW b \in 1..n, a < b
               PROVE  NotAfter(values[p[a]], values[p[b]], ascending)
    OBVIOUS
  <2>1. ~Before(sorted, a, b, ascending)
    BY <1>2
  <2>2. /\ sorted[a].value = values[p[a]] /\ values[p[a]] \in Int
        /\ sorted[b].value = values[p[b]] /\ values[p[b]] \in Int
    BY <1>8
  <2>3. NotAfter(sorted[a].value, sorted[b].value, ascending)
    BY <2>1, <2>2, InPlace
  <2> QED BY <2>2, <2>3
<1>10. Len(list) = size
  <2>1. size \in Nat /\ \A i \in 1..size : i \in 1..n
    BY <1>7
  <2>2. \A i \in 1..size : sorted[i] \in {sorted[a] : a \in 1..n}
    BY <2>1
  <2>3. list \in [1..size -> {sorted[a] : a \in 1..n}]
    BY <1>6, <2>2
  <2> QED BY <2>1, <2>3, FunctionLen
<1>11. \A i \in 1..size : i \in 1..n /\ list[i].ip = p[i] /\ list[i].value = values[p[i]]
  BY <1>6, <1>7, <1>8
<1>12. \A i \in 1..size : list[i].ip \in 1..n /\ list[i].value = values[list[i].ip]
  BY <1>11
<1>13. \A i, j \in 1..size :
         i < j => list[i].ip # list[j].ip /\ NotAfter(list[i].value, list[j].value, ascending)
  BY <1>3, <1>9, <1>11
<1>14. \A a \in 1..size, b \in (1..n) \ (1..size) : a \in 1..n /\ a < b
  BY <1>7
<1>15. ASSUME NEW i \in {list[k].ip : k \in 1..size}, NEW j \in (1..n) \ {list[k].ip : k \in 1..size}
       PROVE  NotAfter(values[i], values[j], ascending)
  <2>1. PICK a \in 1..size : i = p[a]
    BY <1>11
  <2>2. PICK b \in 1..n : j = p[b]
    BY <1>3
  <2>3. b \notin 1..size
    BY <1>11, <2>2
  <2>4. a < b /\ a \in 1..n
    BY <1>14, <2>3
  <2> QED BY <1>9, <2>1, <2>2, <2>4
<1> QED BY <1>10, <1>12, <1>13, <1>15 DEF list, size, IsRanking

(* The lists of the model's bounded inputs are ranked. *)
THEOREM ListsHold == ListsAreRanked
<1> SUFFICES ASSUME NEW n \in 0..4, NEW values \in [1..n -> 0..2],
                    NEW ascending \in BOOLEAN, NEW topN \in 0..3
    PROVE  LET list == RankedReconnects(values, [i \in 1..n |-> i], ascending, topN)
               notAfter(v, w) == IF ascending THEN v <= w ELSE v >= w
               kept == {list[i].ip : i \in 1..Len(list)}
           IN /\ Len(list) = IF topN \in 1..n THEN topN ELSE n
              /\ \A i \in 1..Len(list) : list[i].ip \in 1..n /\ list[i].value = values[list[i].ip]
              /\ \A i, j \in 1..Len(list) :
                   i < j => list[i].ip # list[j].ip /\ notAfter(list[i].value, list[j].value)
              /\ \A i \in kept, j \in (1..n) \ kept : notAfter(values[i], values[j])
  BY DEF ListsAreRanked
<1>1. n \in Nat /\ topN \in Nat /\ values \in [1..n -> Int]
  OBVIOUS
<1> DEFINE list == RankedReconnects(values, [i \in 1..n |-> i], ascending, topN)
<1>2. IsRanking(list, values, n, ascending, topN)
  BY <1>1, ListRanks
<1> HIDE DEF list
<1> QED BY <1>2 DEF IsRanking, NotAfter, list
=============================================================================
