-------------------------- MODULE WorkerPoolProofs --------------------------
(***************************************************************************)
(* For any number of objects and workers: each index is handed out once, a *)
(* call that reports success has called every callback, and the pool       *)
(* implements ParallelMap. GetTopErrors, a loop over the results, keeps    *)
(* the first three distinct errors: an induction over the number of        *)
(* results seen, with a set of numbers as its predicate.                   *)
(***************************************************************************)
EXTENDS WorkerPool, SequenceTheorems, WellFoundedInduction, TLAPS

(* The initial state satisfies the invariant. *)
LEMMA InitPool == Init => PoolInv
<1> SUFFICES ASSUME Init PROVE PoolInv
  OBVIOUS
<1> USE PoolAssumption DEF Init, Zero, NoObject, Objects
<1>1. TypeOK
  BY DEF TypeOK
<1>2. EachIndexOnce
  BY DEF EachIndexOnce, Busy
<1>3. DoneMeansDrained
  BY DEF DoneMeansDrained
<1> QED BY <1>1, <1>2, <1>3 DEF PoolInv

(* Every step preserves the types. *)
LEMMA TypeKept == PoolInv /\ [Next]_vars => TypeOK'
<1> SUFFICES ASSUME PoolInv, [Next]_vars PROVE TypeOK'
  OBVIOUS
<1> USE PoolAssumption DEF PoolInv, TypeOK, channel, Objects, NoObject
<1>1. CASE Send
  BY <1>1 DEF Send
<1>5. CASE CloseJobs \/ Return
  BY <1>5 DEF CloseJobs, Return
<1>2. ASSUME NEW w \in Workers, Worker(w) PROVE TypeOK'
  <2>1. CASE Receive(w)
    BY <2>1 DEF Receive
  <2>2. CASE Quit(w) \/ Call(w)
    BY <2>2 DEF Quit, Call
  <2>3. ASSUME NEW e \in Errors \cup {Nil}, Store(w, e), Busy(w),
               succeeded' = succeeded \/ succeeded' = succeeded \cup {job[w]}
        PROVE  TypeOK'
    <3>1. job[w] \in Objects
      BY <2>3 DEF EachIndexOnce
    <3>2. [object |-> job[w], err |-> e] \in [object : 0..N, err : Errors \cup {Nil}]
      OBVIOUS
    <3>3. results' \in [Objects -> [object : 0..N, err : Errors \cup {Nil}]]
      BY <2>3, <3>1, <3>2 DEF Store
    <3>4. pc' \in [Workers -> {"range", "select", "call", "done"}] /\ job' \in [Workers -> 0..N]
      BY <2>3 DEF Store
    <3>5. UNCHANGED <<cancelled, main, sent, taken>>
      BY <2>3 DEF Store
    <3> QED BY <2>3, <3>1, <3>3, <3>4, <3>5
  <2>4. CASE Skip(w)
    BY <2>3, <2>4 DEF Skip, Busy
  <2>5. CASE CallbackReturns(w)
    BY <2>3, <2>5 DEF CallbackReturns, Busy
  <2> QED BY <1>2, <2>1, <2>2, <2>4, <2>5 DEF Worker
<1>3. CASE Cancel
  BY <1>3 DEF Cancel
<1>4. CASE UNCHANGED vars
  BY <1>4 DEF vars
<1> QED BY <1>1, <1>2, <1>3, <1>4, <1>5 DEF Next, Caller

(* A worker that stores a result settles the object it holds and no other. *)
LEMMA StoreKeeps ==
  ASSUME PoolInv, NEW w \in Workers, NEW e \in Errors \cup {Nil}, Busy(w), Store(w, e),
         succeeded' = IF e = Nil THEN succeeded \cup {job[w]} ELSE succeeded
  PROVE  EachIndexOnce' /\ DoneMeansDrained'
<1> USE PoolAssumption DEF PoolInv, TypeOK, channel, Objects, NoObject, Zero
<1>1. /\ job[w] \in Objects /\ results[job[w]].object = 0
      /\ \A v \in Workers \ {w} : Busy(v) => job[v] # job[w]
  BY DEF EachIndexOnce
<1>2. /\ taken' = taken /\ sent' = sent /\ main' = main
      /\ ~Busy(w)' /\ \A v \in Workers \ {w} : (Busy(v)' <=> Busy(v)) /\ job'[v] = job[v]
  BY DEF Store, Busy
<1>3. /\ results'[job[w]] = [object |-> job[w], err |-> e]
      /\ \A i \in Objects \ {job[w]} : results'[i] = results[i]
  BY <1>1 DEF Store
<1>4. \A v \in Workers : Busy(v)' => job'[v] \in 1..taken' /\ results'[job'[v]] = Zero
  BY <1>1, <1>2, <1>3 DEF EachIndexOnce
<1>5. \A u, v \in Workers : Busy(u)' /\ Busy(v)' /\ u # v => job'[u] # job'[v]
  BY <1>2 DEF EachIndexOnce
<1>6. ASSUME NEW i \in 1..taken
      PROVE  (\E v \in Workers : Busy(v)' /\ job'[v] = i) \/ results'[i].object = i
  <2>1. CASE i = job[w]
    BY <2>1, <1>3
  <2>2. CASE i # job[w]
    <3>1. i \in Objects /\ results'[i] = results[i]
      BY <2>2, <1>3
    <3>2. CASE results[i].object = i
      BY <3>1, <3>2
    <3>3. CASE \E v \in Workers : Busy(v) /\ job[v] = i
      BY <2>2, <3>3, <1>2
    <3> QED BY <3>2, <3>3 DEF EachIndexOnce
  <2> QED BY <2>1, <2>2
<1>9. ASSUME NEW i \in Objects, i > taken PROVE results'[i] = Zero
  <2>1. i # job[w] /\ results[i] = Zero
    BY <1>9 DEF EachIndexOnce
  <2> QED BY <2>1, <1>3
<1>7. ASSUME NEW i \in Objects
      PROVE  i \in succeeded' <=> results'[i].object = i /\ results'[i].err = Nil
  <2>1. CASE i = job[w]
    <3>1. i \notin succeeded
      BY <2>1, <1>1 DEF EachIndexOnce
    <3> QED BY <2>1, <3>1, <1>3
  <2>2. CASE i # job[w]
    BY <2>2, <1>3 DEF EachIndexOnce
  <2> QED BY <2>1, <2>2
<1>8. DoneMeansDrained'
  <2>1. \A v \in Workers : pc'[v] = "done" => pc[v] = "done"
    BY DEF Store
  <2>2. main' # "returned"
    BY <1>2 DEF Busy, DoneMeansDrained
  <2> QED BY <1>2, <2>1, <2>2 DEF DoneMeansDrained
<1> QED BY <1>2, <1>4, <1>5, <1>6, <1>7, <1>8, <1>9 DEF EachIndexOnce

(* Every step keeps each index in one place and the workers running until  *)
(* the channel is drained.                                                 *)
LEMMA IndexesKept == PoolInv /\ [Next]_vars => EachIndexOnce' /\ DoneMeansDrained'
<1> SUFFICES ASSUME PoolInv, [Next]_vars PROVE EachIndexOnce' /\ DoneMeansDrained'
  OBVIOUS
<1> USE PoolAssumption DEF PoolInv, TypeOK, channel, Objects, NoObject, Zero
<1>1. CASE Caller
  <2>1. /\ UNCHANGED <<taken, pc, job, results, succeeded>> /\ taken <= sent'
        /\ \A w \in Workers : Busy(w)' <=> Busy(w)
    BY <1>1 DEF Caller, Send, CloseJobs, Return, Busy, EachIndexOnce
  <2>2. EachIndexOnce'
    BY <2>1 DEF EachIndexOnce
  <2>3. DoneMeansDrained'
    BY <1>1 DEF Caller, Send, CloseJobs, Return, DoneMeansDrained
  <2> QED BY <2>2, <2>3
<1>2. ASSUME NEW w \in Workers, Worker(w) PROVE EachIndexOnce' /\ DoneMeansDrained'
  <2>1. CASE Receive(w)
    <3>1. /\ taken' = taken + 1 /\ taken' <= sent /\ sent' = sent
          /\ UNCHANGED <<main, results, succeeded>>
          /\ job'[w] = taken + 1 /\ Busy(w)' /\ pc' = [pc EXCEPT ![w] = "select"]
          /\ \A v \in Workers \ {w} : (Busy(v)' <=> Busy(v)) /\ job'[v] = job[v]
      BY <2>1 DEF Receive, Busy
    <3>2. taken + 1 \in Objects /\ results[taken + 1] = Zero
      BY <3>1 DEF EachIndexOnce
    <3>3. EachIndexOnce'
      <4>1. \A v \in Workers : Busy(v)' => job'[v] \in 1..taken' /\ results'[job'[v]] = Zero
        BY <3>1, <3>2 DEF EachIndexOnce
      <4>2. ASSUME NEW u \in Workers, NEW v \in Workers, Busy(u)', Busy(v)', u # v
            PROVE  job'[u] # job'[v]
        <5>1. \A x \in Workers \ {w} : Busy(x)' => job'[x] = job[x] /\ job[x] \in 1..taken
          BY <3>1 DEF EachIndexOnce
        <5>2. CASE u = w \/ v = w
          BY <3>1, <4>2, <5>1, <5>2
        <5>3. CASE u # w /\ v # w
          BY <3>1, <4>2, <5>1, <5>3 DEF EachIndexOnce
        <5> QED BY <5>2, <5>3
      <4>3. ASSUME NEW i \in 1..taken'
            PROVE  (\E v \in Workers : Busy(v)' /\ job'[v] = i) \/ results'[i].object = i
        <5>1. CASE i = taken + 1
          BY <5>1, <3>1
        <5>2. CASE i \in 1..taken /\ results[i].object = i
          BY <5>2, <3>1
        <5>3. CASE \E v \in Workers : Busy(v) /\ job[v] = i
          <6>1. ~Busy(w)
            BY <2>1 DEF Receive, Busy
          <6> QED BY <5>3, <6>1, <3>1
        <5>4. i = taken + 1 \/ i \in 1..taken
          BY <3>1
        <5> QED BY <5>1, <5>2, <5>3, <5>4 DEF EachIndexOnce
      <4>4. \A i \in Objects : i > taken' => results'[i] = Zero
        BY <3>1 DEF EachIndexOnce
      <4>5. \A i \in Objects : i \in succeeded' <=> results'[i].object = i /\ results'[i].err = Nil
        BY <3>1 DEF EachIndexOnce
      <4> QED BY <3>1, <4>1, <4>2, <4>3, <4>4, <4>5 DEF EachIndexOnce
    <3>4. DoneMeansDrained'
      BY <3>1 DEF DoneMeansDrained, EachIndexOnce
    <3> QED BY <3>3, <3>4
  <2>2. CASE Quit(w) \/ Call(w)
    <3>1. /\ UNCHANGED <<taken, sent, main, job, results, succeeded>>
          /\ \A v \in Workers : Busy(v)' <=> Busy(v)
      BY <2>2 DEF Quit, Call, Busy
    <3>2. EachIndexOnce'
      BY <3>1 DEF EachIndexOnce
    <3>3. DoneMeansDrained'
      BY <2>2 DEF Quit, Call, DoneMeansDrained
    <3> QED BY <3>2, <3>3
  <2>3. CASE Skip(w)
    <3>1. CtxErr \in Errors \cup {Nil} /\ CtxErr # Nil
      OBVIOUS
    <3> QED BY <2>3, <3>1, StoreKeeps DEF Skip, Busy
  <2>4. CASE CallbackReturns(w)
    BY <2>4, StoreKeeps DEF CallbackReturns, Busy
  <2> QED BY <1>2, <2>1, <2>2, <2>3, <2>4 DEF Worker
<1>3. CASE Cancel
  BY <1>3 DEF Cancel, EachIndexOnce, DoneMeansDrained, Busy
<1>4. CASE UNCHANGED vars
  BY <1>4 DEF vars, EachIndexOnce, DoneMeansDrained, Busy
<1> QED BY <1>1, <1>2, <1>3, <1>4 DEF Next

-----------------------------------------------------------------------------
(* The invariant holds of every pool: each index is still to be received,  *)
(* with one worker, or settled, and a worker ends only when none is left.  *)
THEOREM PoolInvariant == Spec => []PoolInv
<1>1. PoolInv /\ [Next]_vars => PoolInv'
  BY TypeKept, IndexesKept DEF PoolInv
<1> QED BY InitPool, <1>1, PTL DEF Spec

(* When every worker is done every object is settled.                      *)
LEMMA DoneIsSettled ==
  ASSUME PoolInv, main # "send", \A w \in Workers : pc[w] = "done"
  PROVE  \A i \in Objects : results[i].object = i
<1> USE PoolAssumption DEF PoolInv, TypeOK, Objects
<1> SUFFICES ASSUME NEW i \in Objects PROVE results[i].object = i
  OBVIOUS
<1>1. PICK w \in Workers : TRUE
  OBVIOUS
<1>2. taken = N
  BY <1>1 DEF DoneMeansDrained
<1>3. ~ \E v \in Workers : Busy(v)
  BY DEF Busy
<1> QED BY <1>2, <1>3 DEF EachIndexOnce

(* A call that reports success has called every callback, and each         *)
(* returned nil.                                                           *)
THEOREM SuccessMeansAllCalled == Spec => []SuccessIsReal
<1>1. PoolInv => SuccessIsReal
  <2> SUFFICES ASSUME PoolInv, main = "returned", AllSucceeded PROVE succeeded = Objects
    BY DEF SuccessIsReal
  <2>1. \A i \in Objects : results[i].object = i
    BY DoneIsSettled DEF PoolInv, DoneMeansDrained
  <2> QED BY <2>1 DEF PoolInv, TypeOK, EachIndexOnce, AllSucceeded
<1> QED BY PoolInvariant, <1>1, PTL

-----------------------------------------------------------------------------
(* The refinement. *)

(* A step that leaves every object where it is, and the caller in the      *)
(* call, is a stutter of ParallelMap.                                      *)
LEMMA StutterMaps ==
  ASSUME UNCHANGED <<cancelled, results>>, main' = "returned" <=> main = "returned",
         \A i \in Objects : State(i)' = State(i)
  PROVE  UNCHANGED Map!vars
BY DEF Map!vars

(* Storing a result settles the object in ParallelMap. *)
LEMMA StoreSettles ==
  ASSUME PoolInv, NEW w \in Workers, NEW e \in Errors \cup {Nil}, Busy(w), Store(w, e)
  PROVE  Map!Settle(job[w], e)
<1> USE DEF PoolInv, TypeOK, Objects
<1>1. /\ job[w] \in Objects
      /\ \A v \in Workers \ {w} : Busy(v) => job[v] # job[w]
  BY PoolAssumption DEF EachIndexOnce
<1>2. /\ results' = [results EXCEPT ![job[w]] = [object |-> job[w], err |-> e]]
      /\ pc' = [pc EXCEPT ![w] = "range"] /\ job' = [job EXCEPT ![w] = NoObject]
      /\ cancelled' = cancelled /\ main' = main
  BY DEF Store
<1>3. ASSUME NEW i \in Objects, i = job[w] PROVE State(i)' = "settled"
  <2>1. results'[i].object = i
    BY <1>2, <1>3
  <2> QED BY <2>1 DEF State
<1>4. ASSUME NEW i \in Objects, i # job[w] PROVE State(i)' = State(i)
  <2>1. results'[i] = results[i]
    BY <1>2, <1>4
  <2>2. \A v \in Workers : (pc'[v] = "call" /\ job'[v] = i) <=> (pc[v] = "call" /\ job[v] = i)
    BY <1>2, <1>4
  <2> QED BY <2>1, <2>2 DEF State
<1>5. [i \in Objects |-> State(i)]' = [[i \in Objects |-> State(i)] EXCEPT ![job[w]] = "settled"]
  <2> DEFINE st(i) == State(i)
  <2>1. \A i \in Objects : st(i)' = IF i = job[w] THEN "settled" ELSE st(i)
    BY <1>3, <1>4
  <2> HIDE DEF st
  <2>2. [i \in Objects |-> st(i)]' = [[i \in Objects |-> st(i)] EXCEPT ![job[w]] = "settled"]
    BY <2>1, <1>1
  <2> QED BY <2>2 DEF st
<1>6. [i \in Objects |-> results[i].err]' = [[i \in Objects |-> results[i].err] EXCEPT ![job[w]] = e]
  BY <1>1, <1>2
<1> QED BY <1>2, <1>5, <1>6 DEF Map!Settle

(* Every step of the pool is a step of ParallelMap or a stutter. *)
LEMMA StepMaps == PoolInv /\ [Next]_vars => [Map!Next]_Map!vars
<1> SUFFICES ASSUME PoolInv, [Next]_vars PROVE [Map!Next]_Map!vars
  OBVIOUS
<1> USE DEF channel
<1>1. CASE Send \/ CloseJobs
  BY <1>1, StutterMaps DEF Send, CloseJobs, State
<1>2. CASE Return
  <2>1. \A i \in Objects : State(i) = "settled"
    BY <1>2, DoneIsSettled DEF Return, State
  <2>2. \A i \in Objects : State(i)' = State(i)
    BY <1>2 DEF Return, State
  <2>3. Map!Return
    BY <1>2, <2>1, <2>2 DEF Return, Map!Return
  <2> QED BY <2>3 DEF Map!Next
<1>3. ASSUME NEW w \in Workers, Worker(w) PROVE [Map!Next]_Map!vars
  <2> USE DEF PoolInv, TypeOK
  <2>1. CASE Receive(w) \/ Quit(w)
    <3>1. \A v \in Workers : pc'[v] = "call" <=> pc[v] = "call"
      BY <2>1 DEF Receive, Quit
    <3>2. \A v \in Workers : pc[v] = "call" => job'[v] = job[v]
      BY <2>1 DEF Receive, Quit
    <3>3. UNCHANGED <<cancelled, main, results>>
      BY <2>1 DEF Receive, Quit
    <3> QED BY <3>1, <3>2, <3>3, StutterMaps DEF State
  <2>2. CASE Call(w)
    <3>1. job[w] \in Objects /\ results[job[w]] = Zero
      BY <2>2, PoolAssumption DEF Call, EachIndexOnce, Busy, Objects
    <3>2. State(job[w]) = "pending" /\ State(job[w])' = "running"
      <4>1. \A v \in Workers : pc[v] = "call" => job[v] # job[w]
        BY <2>2 DEF Call, EachIndexOnce, Busy
      <4>2. results[job[w]].object # job[w]
        BY <3>1, PoolAssumption DEF Zero, NoObject, Objects
      <4> QED BY <2>2, <4>1, <4>2 DEF Call, State
    <3>3. ASSUME NEW i \in Objects, i # job[w] PROVE State(i)' = State(i)
      BY <2>2, <3>3 DEF Call, State
    <3>4. [i \in Objects |-> State(i)]' = [[i \in Objects |-> State(i)] EXCEPT ![job[w]] = "running"]
      <4> DEFINE st(i) == State(i)
      <4>1. \A i \in Objects : st(i)' = IF i = job[w] THEN "running" ELSE st(i)
        BY <2>2, <3>2, <3>3 DEF Call
      <4> HIDE DEF st
      <4>2. [i \in Objects |-> st(i)]' = [[i \in Objects |-> st(i)] EXCEPT ![job[w]] = "running"]
        BY <4>1, <3>1
      <4> QED BY <4>2 DEF st
    <3>5. Map!Begin(job[w])
      BY <2>2, <3>1, <3>2, <3>4 DEF Call, Map!Begin
    <3> QED BY <3>1, <3>5 DEF Map!Next
  <2>3. CASE Skip(w)
    <3>1. job[w] \in Objects /\ State(job[w]) = "pending"
      <4>1. job[w] \in Objects /\ results[job[w]] = Zero
        BY <2>3, PoolAssumption DEF Skip, EachIndexOnce, Busy, Objects
      <4>2. \A v \in Workers : pc[v] = "call" => job[v] # job[w]
        BY <2>3 DEF Skip, EachIndexOnce, Busy
      <4>3. results[job[w]].object # job[w]
        BY <4>1, PoolAssumption DEF Zero, NoObject, Objects
      <4> QED BY <4>1, <4>2, <4>3 DEF State
    <3>2. Map!Settle(job[w], CtxErr)
      BY <2>3, StoreSettles, PoolAssumption DEF Skip, Busy
    <3>3. PICK i \in Objects : i = job[w]
      BY <3>1
    <3>4. Map!Skip(i)
      BY <2>3, <3>1, <3>2, <3>3 DEF Skip, Map!Skip
    <3>5. \E j \in Objects : Map!Begin(j) \/ Map!Finish(j) \/ Map!Skip(j)
      BY <3>4, Zenon
    <3> QED BY <3>5 DEF Map!Next
  <2>4. CASE CallbackReturns(w)
    <3>1. job[w] \in Objects /\ State(job[w]) = "running"
      <4>1. job[w] \in Objects /\ results[job[w]] = Zero
        BY <2>4, PoolAssumption DEF CallbackReturns, EachIndexOnce, Busy, Objects
      <4>2. results[job[w]].object # job[w]
        BY <4>1, PoolAssumption DEF Zero, NoObject, Objects
      <4> QED BY <2>4, <4>1, <4>2 DEF CallbackReturns, State
    <3>2. PICK e \in Errors \cup {Nil} : Store(w, e)
      BY <2>4 DEF CallbackReturns
    <3>3. Map!Settle(job[w], e)
      BY <2>4, <3>2, StoreSettles DEF CallbackReturns, Busy
    <3>4. Map!Finish(job[w])
      BY <3>1, <3>3 DEF Map!Finish
    <3> QED BY <3>1, <3>4 DEF Map!Next
  <2> QED BY <1>3, <2>1, <2>2, <2>3, <2>4 DEF Worker
<1>4. CASE Cancel
  <2>1. \A i \in Objects : State(i)' = State(i)
    BY <1>4 DEF Cancel, State
  <2>2. Map!Cancel
    BY <1>4, <2>1 DEF Cancel, Map!Cancel
  <2> QED BY <2>2 DEF Map!Next
<1>5. CASE UNCHANGED vars
  BY <1>5, StutterMaps DEF vars, State
<1> QED BY <1>1, <1>2, <1>3, <1>4, <1>5 DEF Next, Caller

(* The pool implements ParallelMap for any number of objects, workers and  *)
(* errors: each callback runs at most once, none after the cancellation,   *)
(* and the call returns only when every object is settled.                 *)
THEOREM PoolImplementsMap == Spec => MapSafety
<1>1. Init => Map!Init
  <2> SUFFICES ASSUME Init PROVE Map!Init
    OBVIOUS
  <2>1. \A i \in Objects : State(i) = "pending"
    BY PoolAssumption DEF Init, State, Zero, NoObject, Objects
  <2> QED BY <2>1 DEF Init, Map!Init, Zero
<1> QED BY PoolInvariant, <1>1, StepMaps, PTL DEF Spec, MapSafety, Map!Spec

-----------------------------------------------------------------------------
(* Every nonempty set of naturals has a least element. *)
LEMMA LeastNatural ==
  ASSUME NEW T \in SUBSET Nat, T # {}
  PROVE  \E x \in T : \A y \in T : x <= y
<1> DEFINE R == {p \in Nat \X Nat : p[1] < p[2]}
<1>1. IsWellFoundedOn(R, Nat)
  BY NatLessThanWellFounded DEF OpToRel
<1>2. PICK x \in T : \A y \in T : ~ (<<y, x>> \in R)
  <2> HIDE DEF R
  <2> QED BY <1>1, WFMin
<1>3. \A y \in T : x <= y
  <2> TAKE y \in T
  <2>1. <<y, x>> \notin R
    BY <1>2
  <2>2. ~(y < x)
    BY <2>1
  <2> QED BY <2>2
<1> QED BY <1>3

(* Induction over the naturals up to n, for a set of them. *)
LEMMA InductionUpTo ==
  ASSUME NEW n \in Nat, NEW S, 0 \in S, \A k \in 1..n : k - 1 \in S => k \in S
  PROVE  0..n \subseteq S
<1> SUFFICES ASSUME (0..n) \ S # {} PROVE FALSE
  OBVIOUS
<1>1. PICK x \in (0..n) \ S : \A y \in (0..n) \ S : x <= y
  <2> (0..n) \ S \in SUBSET Nat
    OBVIOUS
  <2> QED BY LeastNatural
<1>2. x \in 1..n /\ x - 1 \in 0..n
  BY <1>1
<1> QED BY <1>1, <1>2

-----------------------------------------------------------------------------
(* What GetTopErrors has after one more result. *)
OneMore(seq, e) ==
  IF e = Nil \/ Repeats(seq, e) \/ Len(seq) = 3 THEN seq ELSE Append(seq, e)

(* top[k] is what GetTopErrors has after the first k of n results. *)
IsTop(top, n) ==
  top = [k \in 0..n |-> IF k = 0 THEN <<>> ELSE OneMore(top[k - 1], results[k].err)]

(* What the recursive function of GetTopErrors is. *)
Top == CHOOSE top : IsTop(top, N)

(* What the loop of GetTopErrors keeps after the first n results. *)
FirstOf(seq, n) ==
  /\ seq \in Seq(Errors)
  /\ Len(seq) <= 3
  /\ \A j, k \in 1..Len(seq) : j # k => seq[j] # seq[k]
  /\ \A k \in 1..Len(seq) : \E j \in 1..n : results[j].err = seq[k]
  /\ \A i \in 1..n : results[i].err # Nil =>
       \/ \E k \in 1..Len(seq) : seq[k] = results[i].err
       \/ /\ Len(seq) = 3
          /\ \A k \in 1..Len(seq) : \E j \in 1..n : j < i /\ results[j].err = seq[k]

(* One more result keeps it. *)
LEMMA OneMoreIsFirst ==
  ASSUME TypeOK, NEW n \in Objects, NEW seq, FirstOf(seq, n - 1)
  PROVE  FirstOf(OneMore(seq, results[n].err), n)
<1> DEFINE e == results[n].err
           new == OneMore(seq, e)
<1>1. n \in Nat /\ N \in Nat /\ n - 1 \in Nat /\ 1..n = (1..(n - 1)) \cup {n}
  BY PoolAssumption DEF Objects
<1>2. e \in Errors \cup {Nil}
  BY DEF TypeOK
<1>3. seq \in Seq(Errors) /\ Len(seq) \in 0..3 /\ DOMAIN seq = 1..Len(seq)
  <2>1. seq \in Seq(Errors) /\ Len(seq) <= 3
    BY DEF FirstOf
  <2>2. Len(seq) \in Nat /\ DOMAIN seq = 1..Len(seq)
    BY <2>1, LenProperties
  <2> QED BY <2>1, <2>2
<1> HIDE DEF e
<1>4. CASE e = Nil \/ Repeats(seq, e) \/ Len(seq) = 3
  <2>1. new = seq
    BY <1>4 DEF OneMore
  <2>2. \A k \in 1..Len(seq) : \E j \in 1..n : j < n /\ results[j].err = seq[k]
    BY <1>1 DEF FirstOf
  <2>3. e # Nil => (\E k \in 1..Len(seq) : seq[k] = e) \/ Len(seq) = 3
    BY <1>3, <1>4 DEF Repeats
  <2>4. \A i \in 1..n : results[i].err # Nil =>
       \/ \E k \in 1..Len(seq) : seq[k] = results[i].err
       \/ /\ Len(seq) = 3
          /\ \A k \in 1..Len(seq) : \E j \in 1..n : j < i /\ results[j].err = seq[k]
    <3> TAKE i \in 1..n
    <3>1. CASE i = n
      BY <2>2, <2>3, <3>1 DEF e
    <3>2. CASE i \in 1..(n - 1)
      BY <1>1, <3>2 DEF FirstOf
    <3> QED BY <1>1, <3>1, <3>2
  <2> HIDE DEF new
  <2> QED BY <1>3, <2>1, <2>2, <2>4 DEF FirstOf, e, new
<1>5. CASE ~(e = Nil \/ Repeats(seq, e) \/ Len(seq) = 3)
  <2>1. new = Append(seq, e) /\ e \in Errors /\ Len(seq) < 3
    BY <1>2, <1>3, <1>5 DEF OneMore
  <2>2. /\ new \in Seq(Errors) /\ Len(new) = Len(seq) + 1
        /\ \A k \in 1..Len(seq) : new[k] = seq[k]
        /\ new[Len(seq) + 1] = e
    BY <1>3, <2>1, AppendProperties
  <2>3. \A k \in 1..Len(seq) : seq[k] # e
    BY <1>3, <1>5 DEF Repeats
  <2>4. 1..Len(new) = 1..Len(seq) \cup {Len(seq) + 1}
    BY <1>3, <2>2
  <2> HIDE DEF new
  <2>5. \A j, k \in 1..Len(new) : j # k => new[j] # new[k]
    BY <1>3, <2>2, <2>3, <2>4 DEF FirstOf
  <2>6. \A k \in 1..Len(new) : \E j \in 1..n : results[j].err = new[k]
    BY <1>1, <2>2, <2>4 DEF FirstOf, e
  <2>7. \A i \in 1..n : results[i].err # Nil => \E k \in 1..Len(new) : new[k] = results[i].err
    <3> SUFFICES ASSUME NEW i \in 1..n, results[i].err # Nil
                 PROVE  \E k \in 1..Len(new) : new[k] = results[i].err
      OBVIOUS
    <3>1. CASE i = n
      BY <1>3, <2>2, <2>4, <3>1 DEF e
    <3>2. CASE i \in 1..(n - 1)
      <4>1. \E k \in 1..Len(seq) : seq[k] = results[i].err
        BY <1>3, <2>1, <3>2 DEF FirstOf
      <4> QED BY <2>2, <2>4, <4>1
    <3> QED BY <1>1, <3>1, <3>2
  <2>8. Len(new) <= 3
    BY <1>3, <2>1, <2>2
  <2>9. FirstOf(new, n)
    BY <2>2, <2>5, <2>6, <2>7, <2>8 DEF FirstOf
  <2> QED BY <2>9 DEF new, e
<1> QED BY <1>4, <1>5

(* There is such a function, for any number of results. *)
LEMMA TopExists == ASSUME TypeOK PROVE IsTop(Top, N)
<1> DEFINE S == {n \in Nat : n <= N => \E top : IsTop(top, n)}
<1>0. N \in Nat
  BY PoolAssumption
<1>1. 0 \in S
  <2>1. IsTop([k \in 0..0 |-> <<>>], 0)
    BY DEF IsTop
  <2> QED BY <2>1
<1>2. ASSUME NEW n \in 1..N, n - 1 \in S PROVE n \in S
  <2>1. n \in Nat /\ n - 1 \in Nat
    BY <1>0
  <2>2. PICK top : IsTop(top, n - 1)
    BY <1>0, <1>2
  <2> DEFINE new == [k \in 0..n |-> IF k = n THEN OneMore(top[n - 1], results[n].err) ELSE top[k]]
  <2>3. ASSUME NEW k \in 0..n
        PROVE  new[k] = IF k = 0 THEN <<>> ELSE OneMore(new[k - 1], results[k].err)
    <3>1. CASE k = n
      <4>1. n - 1 \in 0..n /\ n - 1 # n /\ n # 0
        BY <2>1
      <4>2. new[n - 1] = top[n - 1] /\ new[n] = OneMore(top[n - 1], results[n].err)
        BY <4>1
      <4> HIDE DEF new
      <4> QED BY <3>1, <4>1, <4>2
    <3>2. CASE k \in 0..(n - 1)
      <4>1. top[k] = IF k = 0 THEN <<>> ELSE OneMore(top[k - 1], results[k].err)
        BY <2>2, <3>2 DEF IsTop
      <4>2. new[k] = top[k] /\ (k # 0 => k - 1 \in 0..n /\ k - 1 # n)
        BY <2>1, <3>2
      <4>3. k # 0 => new[k - 1] = top[k - 1]
        BY <4>2
      <4> HIDE DEF new
      <4> QED BY <4>1, <4>2, <4>3
    <3> QED BY <2>1, <3>1, <3>2
  <2>4. new = [k \in 0..n |-> new[k]]
    OBVIOUS
  <2> HIDE DEF new
  <2>5. IsTop(new, n)
    BY <2>3, <2>4 DEF IsTop
  <2> QED BY <2>1, <2>5
<1> HIDE DEF S
<1>3. N \in S
  BY <1>0, <1>1, <1>2, InductionUpTo
<1> QED BY <1>0, <1>3 DEF S, Top

(* So what GetTopErrors returns is what its loop keeps. *)
LEMMA TopIsFirst == ASSUME TypeOK PROVE FirstOf(GetTopErrors, N)
<1> DEFINE S == {n \in Nat : n <= N => FirstOf(Top[n], n)}
<1>0. N \in Nat
  BY PoolAssumption
<1>1. IsTop(Top, N)
  BY TopExists
<1>2. 0 \in S
  <2>1. Top[0] = <<>>
    BY <1>0, <1>1 DEF IsTop
  <2>2. FirstOf(<<>>, 0)
    BY DEF FirstOf
  <2> QED BY <2>1, <2>2
<1>3. ASSUME NEW n \in 1..N, n - 1 \in S PROVE n \in S
  <2>1. n \in Objects /\ n \in Nat /\ n \in 0..N /\ n # 0 /\ n - 1 \in Nat
    BY <1>0 DEF Objects
  <2>2. FirstOf(Top[n - 1], n - 1)
    BY <1>0, <1>3
  <2>3. Top[n] = OneMore(Top[n - 1], results[n].err)
    BY <1>1, <2>1 DEF IsTop
  <2>4. FirstOf(Top[n], n)
    BY <2>1, <2>2, <2>3, OneMoreIsFirst
  <2> QED BY <2>1, <2>4
<1> HIDE DEF S
<1>4. N \in S
  BY <1>0, <1>2, <1>3, InductionUpTo
<1>5. FirstOf(Top[N], N)
  BY <1>0, <1>4 DEF S
<1>6. GetTopErrors = Top[N]
  BY DEF GetTopErrors, Top, IsTop, OneMore
<1> QED BY <1>5, <1>6

(* That is what is asked of it. *)
LEMMA FirstIsRight == TypeOK => TopErrorsAreFirst
<1> SUFFICES ASSUME TypeOK PROVE TopErrorsAreFirst
  OBVIOUS
<1> DEFINE top == GetTopErrors
<1>1. FirstOf(top, N)
  BY TopIsFirst
<1> HIDE DEF top
<1>2. DOMAIN top = 1..Len(top)
  BY <1>1 DEF FirstOf
<1>3. \A i \in Objects : results[i].err # Nil =>
        \/ \E k \in DOMAIN top : top[k] = results[i].err
        \/ /\ Len(top) = 3
           /\ \A k \in DOMAIN top : \E j \in Objects : j < i /\ results[j].err = top[k]
  BY <1>1, <1>2 DEF FirstOf, Objects
<1>4. \A k \in DOMAIN top : top[k] # Nil
  BY <1>1, <1>2, PoolAssumption DEF FirstOf
<1>5. (\A j, k \in DOMAIN top : j # k => top[j] # top[k]) /\ Len(top) <= 3
  BY <1>1, <1>2 DEF FirstOf
<1> QED BY <1>3, <1>4, <1>5 DEF TopErrorsAreFirst, top

(* Whatever the results are, GetTopErrors returns the first three distinct *)
(* errors among them: none is left out for a later one.                    *)
THEOREM TopErrorsAreRight == Spec => []TopErrorsAreFirst
<1>1. PoolInv => TopErrorsAreFirst
  BY FirstIsRight DEF PoolInv
<1> QED BY <1>1, PoolInvariant, PTL
=============================================================================
