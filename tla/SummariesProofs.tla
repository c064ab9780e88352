---------------------------- MODULE SummariesProofs ----------------------------
(***************************************************************************)
(* The kinds of summaries side by side, for all values of the constants:   *)
(* what the theorems of the components say of each holds of a behaviour    *)
(* that is one of theirs.  The invariants of Histogram and PRCurve, which  *)
(* no other module needs, are proved here.                                 *)
(***************************************************************************)
EXTENDS Summaries, FoldFacts, TLAPS

\* A behaviour stays one of the summary it began as, whichever that is.
LEMMA OneKind == ASSUME [Next]_vars, NEW k PROVE what = k <=> (what = k)'
<1>1. what' = what
  BY DEF Next, vars, SerialStep, ParallelStep, OneStoreStep, StoreStep, CountedStep, CurveStep,
    ScalarsStep, KindsStep
<1> QED BY <1>1

\* It is then a behaviour of that component, for the constants it is given.
LEMMA SerialBehaviour ==
  /\ Init /\ what = "serial" => Serial!Init
  /\ what = "serial" /\ [Next]_vars => [Serial!Next]_(Serial!vars)
<1>1. UNCHANGED vars => UNCHANGED Serial!vars
  BY DEF vars, Serial!vars, Serial!threadVars
<1> QED
  BY <1>1 DEF Init, Next, SerialStep, ParallelStep, OneStoreStep, StoreStep, CountedStep,
    CurveStep, ScalarsStep, KindsStep

LEMMA ParallelBehaviour ==
  /\ Init /\ what = "parallel" => Parallel!Init
  /\ what = "parallel" /\ [Next]_vars => [Parallel!Next]_(Parallel!vars)
<1>1. UNCHANGED vars => UNCHANGED Parallel!vars
  BY DEF vars, Parallel!vars, Parallel!threadVars
<1> QED
  BY <1>1 DEF Init, Next, SerialStep, ParallelStep, OneStoreStep, StoreStep, CountedStep,
    CurveStep, ScalarsStep, KindsStep

LEMMA OneStoreBehaviour ==
  /\ Init /\ what = "one thread" => OneStore!Init
  /\ what = "one thread" /\ [Next]_vars => [OneStore!Next]_(OneStore!vars)
<1>1. UNCHANGED vars => UNCHANGED OneStore!vars
  BY DEF vars, OneStore!vars, OneStore!locals
<1> QED
  BY <1>1 DEF Init, Next, SerialStep, ParallelStep, OneStoreStep, StoreStep, CountedStep,
    CurveStep, ScalarsStep, KindsStep

LEMMA StoreBehaviour ==
  /\ Init /\ what = "threads" => Store!Init
  /\ what = "threads" /\ [Next]_vars => [Store!Next]_(Store!vars)
<1>1. UNCHANGED vars => UNCHANGED Store!vars
  BY DEF vars, Store!vars, Store!locals
<1> QED
  BY <1>1 DEF Init, Next, SerialStep, ParallelStep, OneStoreStep, StoreStep, CountedStep,
    CurveStep, ScalarsStep, KindsStep

LEMMA CountedBehaviour ==
  /\ Init /\ what = "histogram" => Counted!Init
  /\ what = "histogram" /\ [Next]_vars => [Counted!Next]_(Counted!vars)
<1>1. UNCHANGED vars => UNCHANGED Counted!vars
  BY DEF vars, Counted!vars
<1> QED
  BY <1>1 DEF Init, Next, SerialStep, ParallelStep, OneStoreStep, StoreStep, CountedStep,
    CurveStep, ScalarsStep, KindsStep

LEMMA CurveBehaviour ==
  /\ Init /\ what = "curve" => Curve!Init
  /\ what = "curve" /\ [Next]_vars => [Curve!Next]_(Curve!vars)
<1>1. UNCHANGED vars => UNCHANGED Curve!vars
  BY DEF vars, Curve!vars
<1> QED
  BY <1>1 DEF Init, Next, SerialStep, ParallelStep, OneStoreStep, StoreStep, CountedStep,
    CurveStep, ScalarsStep, KindsStep

LEMMA ScalarsBehaviour ==
  /\ Init /\ what = "scalars" => Scalars!Init
  /\ what = "scalars" /\ [Next]_vars => [Scalars!Next]_(Scalars!vars)
<1>1. UNCHANGED vars => UNCHANGED Scalars!vars
  BY DEF vars, Scalars!vars, Scalars!trainVars
<1> QED
  BY <1>1 DEF Init, Next, SerialStep, ParallelStep, OneStoreStep, StoreStep, CountedStep,
    CurveStep, ScalarsStep, KindsStep

LEMMA KindsBehaviour ==
  /\ Init /\ what = "kinds" => Kinds!Init
  /\ what = "kinds" /\ [Next]_vars => [Kinds!Next]_(Kinds!vars)
<1>1. UNCHANGED vars => UNCHANGED Kinds!vars
  BY DEF vars, Kinds!vars, Kinds!trainVars
<1> QED
  BY <1>1 DEF Init, Next, SerialStep, ParallelStep, OneStoreStep, StoreStep, CountedStep,
    CurveStep, ScalarsStep, KindsStep

LEMMA SerialFact ==
  Serial!ProjectorAssumption /\ Serial!OneAtATime /\ "config" \notin Fails \ {"config"}
BY SummariesAssumption DEF Serial!OneAtATime

-------------------------------------------------------------------------------
\* Embedding, called again and again: the config lists the calls that returned,
\* and none that threw.
THEOREM EmbeddingsListed == Spec => []ReturnedListed
<1>1. Serial!Spec => []Serial!ReturnedListed
  BY SerialFact, Serial!ConfigListsReturned
<1>2. ReturnedListed <=> (what = "serial" => Serial!ReturnedListed)
  BY DEF ReturnedListed
<1>3. [Next]_vars => (what = "serial" <=> (what = "serial")')
  BY OneKind
<1> QED BY <1>1, <1>2, <1>3, SerialBehaviour, PTL DEF Spec, Serial!Spec

\* And each call leaves the entries of the earlier ones in their places.
THEOREM EmbeddingsAppended == Spec => EntriesAppended
<1>1. Serial!Spec => []Serial!SerialInv
  BY SerialFact, Serial!SerialInvariant
<1>2. ASSUME what = "serial", [Next]_vars, Serial!SerialInv, Serial!SerialInv'
      PROVE  Serial!EntriesKept
  BY <1>2, SerialFact, SerialBehaviour, Serial!StepKeepsEntries
<1>3. [Next]_vars => (what = "serial" <=> (what = "serial")')
  BY OneKind
<1>4. ASSUME [Next]_vars, what = "serial" => Serial!SerialInv /\ Serial!SerialInv'
      PROVE  [what = "serial" => Serial!EntriesKept]_<<what, v1, v3, v5>>
  BY <1>2, <1>4
<1> QED BY <1>1, <1>3, <1>4, SerialBehaviour, PTL DEF Spec, Serial!Spec, EntriesAppended

\* Embedding, called in parallel with paths apart, and a process that may end:
\* what an entry of the config names is its own and complete.
THEOREM EmbeddingsApart == Spec => []EntryNamesOwnFiles
<1>1. Parallel!Spec => []Parallel!EntryNamesOwnFiles
  BY SummariesAssumption, Parallel!ConfigNamesOwnFiles
<1>2. EntryNamesOwnFiles <=> (what = "parallel" => Parallel!EntryNamesOwnFiles)
  BY DEF EntryNamesOwnFiles
<1>3. [Next]_vars => (what = "parallel" <=> (what = "parallel")')
  BY OneKind
<1> QED BY <1>1, <1>2, <1>3, ParallelBehaviour, PTL DEF Spec, Parallel!Spec

\* Image, called by one thread, logs the images of its matrix and no earlier
\* ones; called by many, it leaves no file behind.
THEOREM ImagesKeptApart == Spec => []ImagesOwnAndGone
<1>1. OneStore!ImageAssumption /\ OneStore!OneThread
  BY SummariesAssumption DEF OneStore!ImageAssumption, Store!ImageAssumption, OneStore!OneThread
<1>2. OneStore!Spec => []OneStore!OwnImages
  BY <1>1, OneStore!ImagesOwn
<1>3. Store!Spec => []Store!NothingLeft
  BY SummariesAssumption, Store!ImagesRemoved
<1>4. ImagesOwnAndGone <=> /\ what = "one thread" => OneStore!OwnImages
                           /\ what = "threads" => Store!NothingLeft
  BY DEF ImagesOwnAndGone
<1>5. [Next]_vars => /\ what = "one thread" <=> (what = "one thread")'
                     /\ what = "threads" <=> (what = "threads")'
  BY OneKind
<1> QED BY <1>2, <1>3, <1>4, <1>5, OneStoreBehaviour, StoreBehaviour, PTL
       DEF Spec, OneStore!Spec, Store!Spec

\* MlboardLogger: the steps that are due are logged, the loss before the
\* accuracy.
THEOREM LoggersInStep == Spec => []StepsLogged
<1>1. Scalars!LoggerAssumption /\ Kinds!LoggerAssumption
  BY SummariesAssumption
<1>2. Scalars!Spec => []Scalars!EveryNthEpochLogged
  BY <1>1, Scalars!StepsWhenDue
<1>3. Scalars!Spec => []Scalars!LossThenAccuracy
  BY <1>1, Scalars!LoggedInPairs
<1>4. Kinds!Spec => []Kinds!EveryNthEpochLogged
  BY <1>1, Kinds!StepsWhenDue
<1>5. StepsLogged <=>
        /\ what = "scalars" => Scalars!EveryNthEpochLogged /\ Scalars!LossThenAccuracy
        /\ what = "kinds" => Kinds!EveryNthEpochLogged
  BY DEF StepsLogged, Scalars!StepsLogged
<1>6. [Next]_vars => /\ what = "scalars" <=> (what = "scalars")'
                     /\ what = "kinds" <=> (what = "kinds")'
  BY OneKind
<1> QED BY <1>2, <1>3, <1>4, <1>5, <1>6, ScalarsBehaviour, KindsBehaviour, PTL
       DEF Spec, Scalars!Spec, Kinds!Spec

\* MlboardLogger: a closed file holds no loss without its accuracy.
THEOREM LoggersComplete == Spec => []CompleteWhenClosed
<1>1. Scalars!Spec => []Scalars!CompleteWhenClosed
  BY SummariesAssumption, Scalars!NoLossAlone
<1>2. CompleteWhenClosed <=> (what = "scalars" => Scalars!CompleteWhenClosed)
  BY DEF CompleteWhenClosed
<1>3. [Next]_vars => (what = "scalars" <=> (what = "scalars")')
  BY OneKind
<1> QED BY <1>1, <1>2, <1>3, ScalarsBehaviour, PTL DEF Spec, Scalars!Spec

-------------------------------------------------------------------------------
\* Histogram.  A sequence of the numbers of a set, in order.
Lists(s, S) ==
  \E n \in Nat :
    /\ s = [i \in 1..n |-> s[i]] /\ \A i \in 1..n : s[i] \in S
    /\ \A i, j \in 1..n : i < j => s[i] < s[j]
    /\ \A k \in S : \E i \in 1..n : s[i] = k

LEMMA CountedCardinality == \A S : Counted!Cardinality(S) = Cardinality(S)
BY DEF Counted!Cardinality, Cardinality

LEMMA InOrderLists == ASSUME NEW S \in SUBSET Int, IsFiniteSet(S) PROVE Lists(Counted!InOrder(S), S)
<1> DEFINE n == Cardinality(S)
           upTo(k) == {j \in S : j <= k}
           rank == [k \in S |-> Cardinality(upTo(k))]
           s == Counted!InOrder(S)
<1>1. n \in Nat /\ IsFiniteSet(1..n) /\ Cardinality(1..n) = n
  BY FS_CardinalityType, FS_Interval
<1>2. \A k \in S : /\ upTo(k) \in SUBSET S /\ k \in upTo(k) /\ IsFiniteSet(upTo(k))
                   /\ rank[k] \in 1..n
  <2>1. ASSUME NEW k \in S
        PROVE  /\ upTo(k) \in SUBSET S /\ k \in upTo(k) /\ IsFiniteSet(upTo(k))
               /\ rank[k] \in 1..n
    <3>1. upTo(k) \in SUBSET S /\ k \in upTo(k)
      OBVIOUS
    <3>2. IsFiniteSet(upTo(k)) /\ Cardinality(upTo(k)) \in Nat /\ Cardinality(upTo(k)) <= n
      BY <3>1, FS_Subset, FS_CardinalityType
    <3>3. Cardinality(upTo(k)) # 0
      BY <3>1, <3>2, FS_EmptySet
    <3>4. rank[k] = Cardinality(upTo(k))
      OBVIOUS
    <3> HIDE DEF upTo, rank
    <3> QED BY <1>1, <3>1, <3>2, <3>3, <3>4
  <2> QED BY <2>1
<1>3. \A k, l \in S : k < l => rank[k] < rank[l]
  <2>1. ASSUME NEW k \in S, NEW l \in S, k < l PROVE rank[k] < rank[l]
    <3>1. upTo(k) \in SUBSET upTo(l) /\ l \notin upTo(k) /\ l \in upTo(l)
      <4>1. k \in Int /\ l \in Int
        OBVIOUS
      <4>2. \A j \in S : j \in Int
        OBVIOUS
      <4>3. \A j \in S : j <= k => j <= l
        BY <2>1, <4>1, <4>2
      <4>4. ~ (l <= k) /\ l <= l
        BY <2>1, <4>1
      <4> QED BY <4>3, <4>4
    <3>2. Cardinality(upTo(k)) <= Cardinality(upTo(l)) /\ Cardinality(upTo(k)) # Cardinality(upTo(l))
      <4> HIDE DEF upTo
      <4> QED BY <1>2, <3>1, FS_Subset
    <3>3. rank[k] = Cardinality(upTo(k)) /\ rank[l] = Cardinality(upTo(l))
      OBVIOUS
    <3>4. rank[k] \in Int /\ rank[l] \in Int
      BY <1>2
    <3> HIDE DEF upTo, rank
    <3> QED BY <3>2, <3>3, <3>4
  <2> QED BY <2>1
<1>4. \A k, l \in S : rank[k] = rank[l] => k = l
  <2>1. \A k \in S : rank[k] \in Int /\ k \in Int
    BY <1>2
  <2> HIDE DEF rank
  <2> QED BY <1>3, <2>1
<1>5. rank \in [S -> 1..n]
  BY <1>2
<1>6. \A i \in 1..n : \E k \in S : rank[k] = i
  <2> HIDE DEF rank
  <2>1. rank \in Injection(S, 1..n)
    BY <1>4, <1>5 DEF Injection, IsInjective
  <2>2. rank \in Surjection(S, 1..n)
    BY <1>1, <2>1, FS_Injection
  <2> QED BY <2>2 DEF Surjection
<1>7. s = [i \in 1..n |-> s[i]] /\ \A i \in 1..n : s[i] = CHOOSE k \in S : Cardinality(upTo(k)) = i
  <2>1. s = [i \in 1..n |-> CHOOSE k \in S : Cardinality(upTo(k)) = i]
    BY DEF Counted!InOrder, Counted!Cardinality, Cardinality
  <2> HIDE DEF upTo, s, n
  <2> QED BY <2>1
<1>8. \A i \in 1..n : s[i] \in S /\ rank[s[i]] = i
  <2>1. ASSUME NEW i \in 1..n PROVE s[i] \in S /\ rank[s[i]] = i
    <3>1. \E k \in S : Cardinality(upTo(k)) = i
      BY <1>6
    <3>2. s[i] \in S /\ Cardinality(upTo(s[i])) = i
      <4> HIDE DEF upTo, s, n
      <4> QED BY <1>7, <3>1
    <3> HIDE DEF upTo, s, n
    <3> QED BY <3>2
  <2> HIDE DEF rank, s
  <2> QED BY <2>1
<1> HIDE DEF rank, s
<1>9. \A i, j \in 1..n : i < j => s[i] < s[j]
  <2>1. ASSUME NEW i \in 1..n, NEW j \in 1..n, i < j, ~ (s[i] < s[j]) PROVE FALSE
    <3>1. s[i] \in Int /\ s[j] \in Int /\ s[i] \in S /\ s[j] \in S
      BY <1>8
    <3>2. s[j] < s[i] \/ s[i] = s[j]
      BY <2>1, <3>1
    <3>3. rank[s[i]] = i /\ rank[s[j]] = j
      BY <1>8
    <3> QED BY <1>3, <2>1, <3>1, <3>2, <3>3
  <2> QED BY <2>1
<1>10. \A k \in S : \E i \in 1..n : s[i] = k
  <2>1. ASSUME NEW k \in S PROVE s[rank[k]] = k /\ rank[k] \in 1..n
    BY <1>4, <1>5, <1>8
  <2> QED BY <2>1
<1> HIDE DEF n
<1>11. Lists(s, S)
  BY <1>1, <1>7, <1>8, <1>9, <1>10 DEF Lists
<1> QED BY <1>11 DEF s

LEMMA NarrowIs ==
  ASSUME Counted!HistogramAssumption, NEW v \in Int
  PROVE  /\ Counted!Narrow(v) \in Int
         /\ -Counted!Infinity <= Counted!Narrow(v) /\ Counted!Narrow(v) <= Counted!Infinity
         /\ \/ Counted!Narrow(v) = Counted!Infinity
            \/ Counted!Narrow(v) = -Counted!Infinity
            \/ Counted!Narrow(v) \in -FloatMax..FloatMax
<1> DEFINE q == v \div Grain
           r == 2 * (v % Grain)
           f == (IF r > Grain \/ (r = Grain /\ q % 2 = 1) THEN q + 1 ELSE q) * Grain
<1>1. /\ Grain \in Nat \ {0} /\ FloatMax \in Nat /\ DoubleMax \in Nat /\ FloatMax < DoubleMax
      /\ Counted!Infinity = DoubleMax + 1
  BY DEF Counted!HistogramAssumption, Counted!Infinity
<1>2. q \in Int
  BY <1>1
<1>3. f \in Int
  <2> HIDE DEF q, r
  <2> QED BY <1>1, <1>2
<1>4. Counted!Narrow(v) =
        IF f > FloatMax THEN Counted!Infinity ELSE IF f < -FloatMax THEN -Counted!Infinity ELSE f
  BY DEF Counted!Narrow
<1> HIDE DEF f
<1> QED BY <1>1, <1>3, <1>4

\* The edges are in order, also the default ones, the last of which is the
\* largest double.
LEMMA EdgesInOrder ==
  ASSUME Counted!HistogramAssumption
  PROVE  /\ Counted!DefaultEdges \in Seq(-DoubleMax..DoubleMax)
         /\ Counted!Ascending(Counted!DefaultEdges)
         /\ \E k \in DOMAIN Counted!DefaultEdges : Counted!DefaultEdges[k] = DoubleMax
<1> DEFINE P == Counted!Powers(FloatMax)
           some == Counted!InOrder(P)
           pos == Append(some, DoubleMax)
           neg == [i \in DOMAIN pos |-> -pos[i]]
<1>1. FloatMax \in Nat /\ DoubleMax \in Nat /\ FloatMax < DoubleMax
  BY DEF Counted!HistogramAssumption
<1>2. P \in SUBSET (1..(FloatMax - 1)) /\ P \in SUBSET Int /\ IsFiniteSet(P)
  <2>1. P \in SUBSET (1..(FloatMax - 1))
    BY DEF Counted!Powers
  <2>2. IsFiniteSet(1..(FloatMax - 1))
    BY <1>1, FS_Interval
  <2> HIDE DEF P
  <2>3. IsFiniteSet(P)
    BY <2>1, <2>2, FS_Subset
  <2>4. P \in SUBSET Int
    BY <2>1
  <2> QED BY <2>1, <2>3, <2>4
<1>3. PICK n \in Nat :
        /\ some = [i \in 1..n |-> some[i]] /\ \A i \in 1..n : some[i] \in P
        /\ \A i, j \in 1..n : i < j => some[i] < some[j]
  <2> HIDE DEF P
  <2> QED BY <1>2, InOrderLists DEF Lists
<1>4. some \in Seq(1..(FloatMax - 1)) /\ Len(some) = n
  <2> HIDE DEF some, P
  <2>1. \A i \in 1..n : some[i] \in 1..(FloatMax - 1)
    BY <1>2, <1>3
  <2>2. PICK T : T = 1..(FloatMax - 1)
    OBVIOUS
  <2>3. \A i \in 1..n : some[i] \in T
    BY <2>1, <2>2
  <2>4. some \in Seq(T) /\ Len(some) = n
    BY <1>3, <2>3
  <2> QED BY <2>2, <2>4
<1> HIDE DEF some, P
<1>5. /\ pos \in Seq(1..DoubleMax) /\ Len(pos) = n + 1 /\ pos[n + 1] = DoubleMax
      /\ \A i \in 1..n : pos[i] = some[i] /\ pos[i] < DoubleMax
  <2>1. some \in Seq(1..DoubleMax) /\ DoubleMax \in 1..DoubleMax
    BY <1>1, <1>4
  <2>2. \A i \in 1..n : some[i] \in 1..(FloatMax - 1)
    BY <1>4, ElementOfSeq
  <2> QED BY <1>1, <1>4, <2>1, <2>2
<1>6. \A i, j \in 1..(n + 1) : i < j => pos[i] < pos[j]
  <2>1. ASSUME NEW i \in 1..(n + 1), NEW j \in 1..(n + 1), i < j PROVE pos[i] < pos[j]
    <3>1. i \in 1..n /\ (j \in 1..n \/ j = n + 1)
      BY <2>1
    <3> HIDE DEF pos
    <3> QED BY <1>3, <1>5, <2>1, <3>1
  <2> QED BY <2>1
<1> HIDE DEF pos
<1>7. \A i \in 1..(n + 1) : pos[i] \in 1..DoubleMax
  BY <1>5, ElementOfSeq
<1>8. neg \in Seq(Int) /\ Len(neg) = n + 1 /\ \A i \in 1..(n + 1) : neg[i] = -pos[i]
  BY <1>5, <1>7
<1> DEFINE back == Counted!Reverse(neg)
<1>9. back = [i \in 1..(n + 1) |-> -pos[n + 2 - i]]
  <2>1. back = [i \in 1..(n + 1) |-> neg[(n + 1) - i + 1]]
    BY <1>8 DEF Counted!Reverse
  <2>2. \A i \in 1..(n + 1) : (n + 1) - i + 1 = n + 2 - i /\ n + 2 - i \in 1..(n + 1)
    OBVIOUS
  <2> HIDE DEF neg
  <2> QED BY <1>8, <2>1, <2>2
<1>10. back \in Seq(-DoubleMax..DoubleMax) /\ Len(back) = n + 1
       /\ \A i \in 1..(n + 1) : back[i] = -pos[n + 2 - i] /\ n + 2 - i \in 1..(n + 1)
  <2>1. \A i \in 1..(n + 1) : n + 2 - i \in 1..(n + 1)
    OBVIOUS
  <2>2. \A i \in 1..(n + 1) : -pos[n + 2 - i] \in -DoubleMax..DoubleMax
    BY <1>1, <1>7, <2>1
  <2> HIDE DEF back
  <2> QED BY <1>9, <2>1, <2>2
<1> HIDE DEF back, neg
<1>11. Counted!DefaultEdges = back \o pos
  BY DEF Counted!DefaultEdges, Counted!Edges, back, neg, pos, some, P
<1> DEFINE e == back \o pos
           N == n + 1
<1>12. N \in Nat /\ Len(back) = N /\ Len(pos) = N
  BY <1>5, <1>10
<1>13. pos \in Seq(-DoubleMax..DoubleMax)
  BY <1>1, <1>5
<1>14. e \in Seq(-DoubleMax..DoubleMax) /\ DOMAIN e = 1..(N + N)
       /\ \A i \in 1..(N + N) : e[i] = IF i <= N THEN back[i] ELSE pos[i - N]
  <2> HIDE DEF N
  <2> QED BY <1>10, <1>12, <1>13
<1> HIDE DEF e
<1>15. ASSUME NEW i \in 1..(N + N), NEW j \in 1..(N + N), i < j PROVE e[i] < e[j]
  <2>1. CASE j <= N
    <3>1. i \in 1..N /\ j \in 1..N /\ n + 2 - j < n + 2 - i
      BY <1>15, <2>1
    <3>2. pos[n + 2 - j] < pos[n + 2 - i] /\ pos[n + 2 - j] \in Int /\ pos[n + 2 - i] \in Int
      BY <1>6, <1>7, <1>10, <3>1
    <3>3. e[i] = -pos[n + 2 - i] /\ e[j] = -pos[n + 2 - j]
      BY <1>10, <1>14, <3>1
    <3> QED BY <3>2, <3>3
  <2>2. CASE i <= N /\ N < j
    <3>1. i \in 1..N /\ j - N \in 1..N
      BY <2>2
    <3>2. e[i] = -pos[n + 2 - i] /\ n + 2 - i \in 1..N /\ e[j] = pos[j - N]
      BY <1>10, <1>14, <2>2, <3>1
    <3> QED BY <1>7, <3>1, <3>2
  <2>3. CASE N < i
    <3>1. i - N \in 1..N /\ j - N \in 1..N /\ i - N < j - N
      BY <1>15, <2>3
    <3>2. e[i] = pos[i - N] /\ e[j] = pos[j - N]
      BY <1>14, <1>15, <2>3
    <3> QED BY <1>6, <3>1, <3>2
  <2> QED BY <2>1, <2>2, <2>3
<1>16. N + N \in 1..(N + N) /\ e[N + N] = DoubleMax
  <2>1. N + N \in 1..(N + N) /\ ~ (N + N <= N) /\ (N + N) - N = n + 1
    OBVIOUS
  <2> QED BY <1>5, <1>14, <2>1
<1>17. Counted!Ascending(e)
  <2> HIDE DEF N
  <2> QED BY <1>14, <1>15 DEF Counted!Ascending
<1> QED BY <1>11, <1>14, <1>16, <1>17 DEF e

\* The place of a value among the edges.
LEMMA BinsTyped ==
  ASSUME Counted!HistogramAssumption, v1 \in BinSets \cup {Counted!DefaultEdges}
  PROVE  v1 \in Seq(-DoubleMax..DoubleMax) /\ Counted!Ascending(v1)
BY EdgesInOrder DEF Counted!HistogramAssumption, Counted!Lowest

LEMMA LowerBoundIs ==
  ASSUME v1 \in Seq(Int), Counted!Ascending(v1), NEW v \in Int
  PROVE  /\ Counted!LowerBound(v) \in 1..(Len(v1) + 1)
         /\ \A k \in DOMAIN v1 : v1[k] < v <=> k < Counted!LowerBound(v)
<1> DEFINE n == Len(v1)
           low == {k \in DOMAIN v1 : v1[k] < v}
<1>1. n \in Nat /\ DOMAIN v1 = 1..n /\ \A k \in 1..n : v1[k] \in Int
  BY ElementOfSeq
<1>2. \E m \in 0..n : low = 1..m
  <2>1. CASE low = {}
    <3>1. low = 1..0 /\ 0 \in 0..n
      BY <1>1, <2>1
    <3> HIDE DEF low
    <3> QED BY <3>1
  <2>2. CASE low # {}
    <3>1. low \in SUBSET (1..n)
      BY <1>1
    <3>2. PICK m \in low : \A x \in low : m >= x
      <4> HIDE DEF low
      <4> QED BY <1>1, <2>2, <3>1, Greatest
    <3>3. m \in 1..n /\ v1[m] < v
      BY <1>1, <3>2
    <3>4. ASSUME NEW k \in 1..m PROVE k \in low
      <4>1. k \in 1..n /\ (k = m \/ k < m)
        BY <3>3
      <4>2. v1[k] = v1[m] \/ v1[k] < v1[m]
        BY <1>1, <3>3, <4>1 DEF Counted!Ascending
      <4>3. v1[k] \in Int /\ v1[m] \in Int
        BY <1>1, <3>3, <4>1
      <4>4. v1[k] < v
        BY <3>3, <4>2, <4>3
      <4> QED BY <1>1, <4>1, <4>4
    <3>5. \A k \in low : k \in 1..m
      BY <1>1, <3>2, <3>3
    <3>6. m \in 0..n
      BY <1>1, <3>3
    <3>7. low = 1..m
      <4> HIDE DEF low
      <4> QED BY <3>4, <3>5
    <3> HIDE DEF low
    <3> QED BY <3>6, <3>7
  <2> QED BY <2>1, <2>2
<1>3. PICK m \in 0..n : low = 1..m
  BY <1>2
<1>4. Counted!LowerBound(v) = m + 1
  <2>1. Counted!LowerBound(v) = Cardinality(low) + 1
    BY CountedCardinality DEF Counted!LowerBound
  <2>2. Cardinality(1..m) = m
    BY <1>1, FS_Interval
  <2> HIDE DEF low
  <2> QED BY <1>1, <1>3, <2>1, <2>2
<1>5. ASSUME NEW k \in 1..n PROVE v1[k] < v <=> k < m + 1
  <2>1. v1[k] < v <=> k \in 1..m
    BY <1>1, <1>3
  <2> QED BY <1>1, <2>1
<1> QED BY <1>1, <1>4, <1>5

CountInv == Counted!TypeOK /\ Counted!Tallied /\ Counted!Bounds

LEMMA CountInit == ASSUME Counted!HistogramAssumption, Counted!Init PROVE CountInv
<1>1. DOMAIN v2 = {} /\ v2 = <<>>
  BY DEF Counted!Init
<1>2. Counted!TypeOK
  <2>1. v1 \in BinSets \cup {Counted!DefaultEdges} /\ v6 \in BOOLEAN
    BY DEF Counted!Init
  <2>2. v2 \in Seq(Values)
    BY <1>1
  <2>3. v3 \in [DOMAIN v1 -> Nat]
    BY DEF Counted!Init
  <2>4. v4 \in Int /\ v5 \in Int
    BY DEF Counted!Init, Counted!HistogramAssumption, Counted!Lowest
  <2> QED BY <2>1, <2>2, <2>3, <2>4 DEF Counted!TypeOK
<1>3. Counted!Tallied
  <2>1. \A k : {j \in DOMAIN v2 : Counted!LowerBound(Counted!Narrow(v2[j])) = k} = {}
    BY <1>1
  <2>2. Cardinality({}) = 0
    BY FS_EmptySet
  <2>3. \A k \in DOMAIN v1 : v3[k] = 0
    BY DEF Counted!Init
  <2>4. v6 = FALSE
    BY DEF Counted!Init
  <2> QED BY <1>1, <2>1, <2>2, <2>3, <2>4, CountedCardinality DEF Counted!Tallied
<1>4. Counted!Bounds
  BY <1>1 DEF Counted!Init, Counted!Bounds
<1> QED BY <1>2, <1>3, <1>4 DEF CountInv

LEMMA CountTaken ==
  ASSUME Counted!HistogramAssumption, CountInv, NEW x \in Values, Counted!Take(x)
  PROVE  CountInv'
<1> DEFINE n == Len(v2)
           w == [j \in 1..(n + 1) |-> Counted!Narrow(v2'[j])]
           lb == [j \in 1..(n + 1) |-> Counted!LowerBound(w[j])]
           T(k, m) == {j \in 1..m : lb[j] = k}
<1>1. /\ n \in Nat /\ DOMAIN v2 = 1..n /\ DOMAIN v2' = 1..(n + 1)
      /\ v2'[n + 1] = x /\ \A j \in 1..n : v2'[j] = v2[j]
      /\ v2 \in Seq(Values) /\ v2' \in Seq(Values) /\ v1' = v1
  <2>1. v2 \in Seq(Values) /\ v2' = Append(v2, x) /\ v1' = v1
    BY DEF CountInv, Counted!TypeOK, Counted!Take
  <2> QED BY <2>1
<1>3. \A j \in 1..(n + 1) : w[j] = Counted!Narrow(v2'[j]) /\ w[j] \in Int
  <2>1. \A j \in 1..(n + 1) : v2'[j] \in Int
    <3>1. \A j \in 1..(n + 1) : v2'[j] \in Values
      BY <1>1, ElementOfSeq
    <3>2. Values \subseteq Int
      BY DEF Counted!HistogramAssumption, Counted!Lowest
    <3> QED BY <3>1, <3>2
  <2> QED BY <2>1, NarrowIs
<1>4. \A j \in 1..n : w[j] = Counted!Narrow(v2[j]) /\ j \in 1..(n + 1)
  BY <1>1, <1>3
<1>5. w[n + 1] = Counted!Narrow(x) /\ n + 1 \in 1..(n + 1)
  BY <1>1, <1>3
<1>6. \A j \in 1..(n + 1) : lb[j] = Counted!LowerBound(w[j])
  BY Zenon
<1> HIDE DEF w, lb
<1>7. \A k : T(k, n) = {j \in DOMAIN v2 : Counted!LowerBound(Counted!Narrow(v2[j])) = k}
  BY <1>1, <1>4, <1>6
<1>8. \A j \in 1..(n + 1) : (Counted!LowerBound(Counted!Narrow(v2[j])))' = lb[j]
  <2>1. ASSUME NEW j \in 1..(n + 1) PROVE (Counted!LowerBound(Counted!Narrow(v2[j])))' = lb[j]
    <3>1. lb[j] = Counted!LowerBound(Counted!Narrow(v2'[j]))
      BY <1>3, <1>6
    <3> QED BY <1>1, <3>1 DEF Counted!LowerBound
  <2> QED BY <2>1
<1>9. \A k : /\ T(k, n) \in SUBSET (1..n) /\ n + 1 \notin T(k, n)
             /\ k = lb[n + 1] => T(k, n + 1) = T(k, n) \cup {n + 1}
             /\ k # lb[n + 1] => T(k, n + 1) = T(k, n)
  BY <1>1
<1>10. \A k : /\ k = lb[n + 1] => Cardinality(T(k, n + 1)) = Cardinality(T(k, n)) + 1
              /\ k # lb[n + 1] => Cardinality(T(k, n + 1)) = Cardinality(T(k, n))
  <2> HIDE DEF T
  <2>1. ASSUME NEW k PROVE IsFiniteSet(T(k, n))
    <3>1. IsFiniteSet(1..n) /\ T(k, n) \in SUBSET (1..n)
      BY <1>1, <1>9, FS_Interval
    <3> QED BY <3>1, FS_Subset
  <2> QED BY <1>9, <2>1, FS_AddElement
<1>11. Counted!Count(lb[n + 1]) /\ Counted!Extremes(w[n + 1])
  BY <1>5, <1>6 DEF Counted!Take
<1>12. v3 \in [DOMAIN v1 -> Nat] /\ v4 \in Int /\ v5 \in Int /\ v6 \in BOOLEAN
       /\ v1 \in BinSets \cup {Counted!DefaultEdges}
  BY DEF CountInv, Counted!TypeOK
<1>13. \A k \in DOMAIN v1 : v3[k] = Cardinality(T(k, n))
  <2> HIDE DEF T
  <2> QED BY <1>7, CountedCardinality DEF CountInv, Counted!Tallied
<1>14. v6 <=> \E j \in 1..n : lb[j] \notin DOMAIN v1
  BY <1>1, <1>4, <1>6 DEF CountInv, Counted!Tallied
<1>15. v3' \in [DOMAIN v1 -> Nat] /\ v6' \in BOOLEAN
  <2>1. CASE lb[n + 1] \in DOMAIN v3
    BY <1>11, <1>12, <2>1 DEF Counted!Count
  <2>2. CASE lb[n + 1] \notin DOMAIN v3
    BY <1>11, <1>12, <2>2 DEF Counted!Count
  <2> QED BY <2>1, <2>2
<1>16. \A k \in DOMAIN v1 : v3'[k] = Cardinality(T(k, n + 1))
  <2> HIDE DEF T
  <2> QED BY <1>10, <1>11, <1>12, <1>13 DEF Counted!Count
<1>17. v6' <=> \E j \in 1..(n + 1) : lb[j] \notin DOMAIN v1
  <2>1. v6' <=> v6 \/ lb[n + 1] \notin DOMAIN v1
    BY <1>11, <1>12 DEF Counted!Count
  <2>2. \A j \in 1..(n + 1) : j \in 1..n \/ j = n + 1
    BY <1>1
  <2> QED BY <1>4, <1>5, <1>14, <2>1, <2>2
<1>18. Counted!Tallied'
  <2> HIDE DEF T
  <2>1. DOMAIN v2' = 1..(n + 1) /\ v1' = v1
    BY <1>1
  <2>2. \A k : T(k, n + 1) = {j \in DOMAIN v2' : (Counted!LowerBound(Counted!Narrow(v2[j])))' = k}
    BY <1>8, <2>1 DEF T
  <2>3. \A k \in DOMAIN v1' :
          v3'[k] = Counted!Cardinality({j \in DOMAIN v2' : (Counted!LowerBound(Counted!Narrow(v2[j])))' = k})
    BY <1>16, <2>1, <2>2, CountedCardinality
  <2>4. v6' <=> \E j \in DOMAIN v2' : (Counted!LowerBound(Counted!Narrow(v2[j])))' \notin DOMAIN v1'
    BY <1>8, <1>17, <2>1
  <2> QED BY <2>3, <2>4 DEF Counted!Tallied
<1>19. v4' \in Int /\ v5' \in Int
  BY <1>3, <1>5, <1>11, <1>12 DEF Counted!Extremes
<1>20. Counted!TypeOK'
  BY <1>1, <1>12, <1>15, <1>19 DEF Counted!TypeOK
<1>21. /\ \A j \in 1..n : w[j] <= v5
       /\ v5 = Counted!Lowest \/ \E j \in 1..n : v5 = w[j]
       /\ v4 = DoubleMax \/ \E j \in 1..n : v4 = w[j]
       /\ \A i, j \in 1..n : i < j /\ w[j] <= w[i] => v4 <= w[j]
  BY <1>1, <1>4 DEF CountInv, Counted!Bounds
<1>22. /\ \A j \in 1..(n + 1) : w[j] <= v5'
       /\ v5' = Counted!Lowest \/ \E j \in 1..(n + 1) : v5' = w[j]
       /\ v4' = DoubleMax \/ \E j \in 1..(n + 1) : v4' = w[j]
       /\ \A i, j \in 1..(n + 1) : i < j /\ w[j] <= w[i] => v4' <= w[j]
  <2>1. \A j \in 1..(n + 1) : j \in 1..n \/ j = n + 1
    BY <1>1
  <2>2. v5 <= v5' /\ w[n + 1] <= v5' /\ (v5' = v5 \/ v5' = w[n + 1])
    BY <1>3, <1>5, <1>11, <1>12 DEF Counted!Extremes
  <2>3. v4' <= v4 /\ (v4' = v4 \/ v4' = w[n + 1]) /\ (w[n + 1] <= v5 => v4' <= w[n + 1])
    BY <1>3, <1>5, <1>11, <1>12 DEF Counted!Extremes
  <2>4. \A j \in 1..(n + 1) : w[j] <= v5'
    BY <1>3, <1>4, <1>12, <1>19, <1>21, <2>1, <2>2
  <2>5. ASSUME NEW i \in 1..(n + 1), NEW j \in 1..(n + 1), i < j, w[j] <= w[i] PROVE v4' <= w[j]
    <3>1. i \in 1..n
      BY <1>1, <2>5
    <3>2. w[i] \in Int /\ w[j] \in Int
      BY <1>3
    <3>3. CASE j \in 1..n
      <4>1. v4 <= w[j]
        BY <1>21, <2>5, <3>1, <3>3
      <4> QED BY <1>12, <1>19, <2>3, <3>2, <4>1
    <3>4. CASE j = n + 1
      <4>1. w[i] <= v5
        BY <1>21, <3>1
      <4>2. w[n + 1] <= v5
        BY <1>12, <2>5, <3>2, <3>4, <4>1
      <4> QED BY <2>3, <3>4, <4>2
    <3> QED BY <2>1, <3>3, <3>4
  <2> QED BY <1>4, <1>5, <1>21, <2>2, <2>3, <2>4, <2>5
<1>23. Counted!Bounds'
  BY <1>1, <1>3, <1>22 DEF Counted!Bounds, Counted!Lowest
<1> QED BY <1>18, <1>20, <1>23 DEF CountInv

LEMMA CountSteps ==
  ASSUME Counted!HistogramAssumption, CountInv, [Counted!Next]_(Counted!vars) PROVE CountInv'
<1>1. CASE Counted!Next
  BY <1>1, CountTaken DEF Counted!Next
<1>2. CASE UNCHANGED Counted!vars
  <2>1. v1' = v1 /\ v2' = v2 /\ v3' = v3 /\ v4' = v4 /\ v5' = v5 /\ v6' = v6
    BY <1>2 DEF Counted!vars
  <2>2. Counted!TypeOK'
    BY <2>1 DEF CountInv, Counted!TypeOK
  <2>3. Counted!Tallied'
    <3>1. \A j \in DOMAIN v2 : (Counted!LowerBound(Counted!Narrow(v2[j])))' =
                                Counted!LowerBound(Counted!Narrow(v2[j]))
      BY <2>1 DEF Counted!LowerBound
    <3>2. \A k : {j \in DOMAIN v2' : (Counted!LowerBound(Counted!Narrow(v2[j])))' = k} =
                {j \in DOMAIN v2 : Counted!LowerBound(Counted!Narrow(v2[j])) = k}
      BY <2>1, <3>1
    <3> QED BY <2>1, <3>1, <3>2 DEF CountInv, Counted!Tallied
  <2>4. Counted!Bounds'
    BY <2>1 DEF CountInv, Counted!Bounds
  <2> QED BY <2>2, <2>3, <2>4 DEF CountInv
<1> QED BY <1>1, <1>2

\* The buckets are those of the edges that a value is nearest below.
LEMMA BucketsCount ==
  ASSUME Counted!HistogramAssumption, CountInv PROVE Counted!BucketRange
<1> DEFINE n == Len(v2)
           B == Len(v1)
           w == [j \in 1..n |-> Counted!Narrow(v2[j])]
           lb == [j \in 1..n |-> Counted!LowerBound(w[j])]
           T(k) == {j \in 1..n : lb[j] = k}
           F == {k \in DOMAIN v3 : v3[k] > 0}
           full == Counted!InOrder(F)
<1>1. SUFFICES ASSUME ~v6 PROVE Counted!Match([j \in DOMAIN v2 |-> Counted!Narrow(v2[j])])
  BY DEF Counted!BucketRange
<1>2. /\ v1 \in Seq(Int) /\ Counted!Ascending(v1) /\ B \in Nat /\ DOMAIN v1 = 1..B
      /\ \A k \in 1..B : v1[k] \in Int
  <2>1. v1 \in Seq(-DoubleMax..DoubleMax) /\ Counted!Ascending(v1) /\ DoubleMax \in Nat
    BY BinsTyped DEF CountInv, Counted!TypeOK, Counted!HistogramAssumption
  <2>2. \A k \in DOMAIN v1 : v1[k] \in Int
    <3>1. \A k \in DOMAIN v1 : v1[k] \in -DoubleMax..DoubleMax
      BY <2>1, ElementOfSeq
    <3> QED BY <2>1, <3>1
  <2> QED BY <2>1, <2>2
<1>3. n \in Nat /\ DOMAIN v2 = 1..n /\ v2 \in Seq(Values)
  BY DEF CountInv, Counted!TypeOK
<1>4. DOMAIN v3 = 1..B /\ \A k \in 1..B : v3[k] \in Nat
  BY <1>2 DEF CountInv, Counted!TypeOK
<1>5. \A j \in 1..n : w[j] = Counted!Narrow(v2[j]) /\ w[j] \in Int
  <2>1. \A j \in 1..n : v2[j] \in Int
    <3>1. \A j \in 1..n : v2[j] \in Values
      BY <1>3, ElementOfSeq
    <3>2. Values \subseteq Int
      BY DEF Counted!HistogramAssumption, Counted!Lowest
    <3> QED BY <3>1, <3>2
  <2> QED BY <2>1, NarrowIs
<1>6. \A j \in 1..n : lb[j] = Counted!LowerBound(w[j])
  BY Zenon
<1>7. [j \in DOMAIN v2 |-> Counted!Narrow(v2[j])] = w
  BY <1>3
<1> HIDE DEF w, lb
<1>8. \A j \in 1..n : lb[j] \in 1..B /\ \A k \in 1..B : v1[k] < w[j] <=> k < lb[j]
  <2>1. ASSUME NEW j \in 1..n
        PROVE  lb[j] \in 1..B /\ \A k \in 1..B : v1[k] < w[j] <=> k < lb[j]
    <3>1. lb[j] \in DOMAIN v1
      BY <1>1, <1>3, <1>5, <1>6 DEF CountInv, Counted!Tallied
    <3>2. \A k \in DOMAIN v1 : v1[k] < w[j] <=> k < Counted!LowerBound(w[j])
      BY <1>2, <1>5, LowerBoundIs
    <3> QED BY <1>2, <1>6, <3>1, <3>2
  <2> QED BY <2>1
<1>9. \A k : T(k) = {j \in DOMAIN v2 : Counted!LowerBound(Counted!Narrow(v2[j])) = k}
  BY <1>3, <1>5, <1>6
<1>10. \A k \in 1..B : v3[k] = Cardinality(T(k))
  <2> HIDE DEF T
  <2> QED BY <1>2, <1>9, CountedCardinality DEF CountInv, Counted!Tallied
<1>11. \A j \in 1..n : lb[j] \in F
  <2>1. ASSUME NEW j \in 1..n PROVE lb[j] \in F
    <3>1. T(lb[j]) \in SUBSET (1..n) /\ T(lb[j]) # {}
      OBVIOUS
    <3>2. IsFiniteSet(1..n)
      BY <1>3, FS_Interval
    <3> HIDE DEF T
    <3>3. IsFiniteSet(T(lb[j]))
      BY <3>1, <3>2, FS_Subset
    <3>4. Cardinality(T(lb[j])) # 0
      BY <3>1, <3>3, FS_EmptySet
    <3>5. lb[j] \in 1..B
      BY <1>8
    <3>6. v3[lb[j]] # 0 /\ v3[lb[j]] \in Nat
      BY <1>4, <1>10, <3>4, <3>5
    <3> QED BY <1>4, <3>5, <3>6
  <2> QED BY <2>1
<1>12. F \in SUBSET (1..B) /\ F \in SUBSET Int /\ IsFiniteSet(F)
  <2>1. F \in SUBSET (1..B)
    BY <1>4
  <2>2. IsFiniteSet(1..B)
    BY <1>2, FS_Interval
  <2> HIDE DEF F
  <2>3. IsFiniteSet(F)
    BY <2>1, <2>2, FS_Subset
  <2> QED BY <1>2, <2>1, <2>3
<1>13. PICK m \in Nat :
         /\ full = [i \in 1..m |-> full[i]] /\ \A i \in 1..m : full[i] \in F
         /\ \A i, j \in 1..m : i < j => full[i] < full[j]
         /\ \A k \in F : \E i \in 1..m : full[i] = k
  <2> HIDE DEF F
  <2> QED BY <1>12, InOrderLists DEF Lists
<1>14. DOMAIN full = 1..m
  <2> HIDE DEF full
  <2> QED BY <1>13
<1>15. /\ DOMAIN Counted!Buckets = 1..m
       /\ \A i \in 1..m : /\ Counted!Buckets[i].limit = v1[full[i]]
                          /\ Counted!Buckets[i].count = v3[full[i]]
  <2>1. Counted!Buckets = [i \in DOMAIN full |-> [limit |-> v1[full[i]], count |-> v3[full[i]]]]
    BY DEF Counted!Buckets
  <2> HIDE DEF full
  <2> QED BY <1>14, <2>1
<1>16. \A i \in 1..m : full[i] \in 1..B
  BY <1>12, <1>13
<1> HIDE DEF full, F
<1>17. ASSUME NEW j \in 1..n, NEW i \in 1..m
       PROVE  Counted!InRange(w[j], i) <=> lb[j] = full[i]
  <2>1. /\ full[i] \in 1..B /\ lb[j] \in 1..B /\ w[j] \in Int /\ v1[full[i]] \in Int
        /\ v1[full[i]] < w[j] <=> full[i] < lb[j]
    BY <1>2, <1>5, <1>8, <1>16
  <2>2. PICK p \in 1..m : full[p] = lb[j]
    BY <1>11, <1>13
  <2>3. w[j] <= v1[full[i]] <=> full[p] <= full[i]
    BY <2>1, <2>2
  <2>4. ASSUME NEW k \in 1..m, i > 1, k = i - 1
        PROVE  /\ v1[full[k]] < w[j] <=> full[k] < full[p]
               /\ full[k] < full[i]
    <3>1. full[k] \in 1..B
      BY <1>16
    <3>2. v1[full[k]] < w[j] <=> full[k] < lb[j]
      BY <1>8, <3>1
    <3>3. k < i
      BY <2>4
    <3> QED BY <1>13, <2>2, <3>2, <3>3
  <2>5. i > 1 => i - 1 \in 1..m
    BY <1>13
  <2>6. Counted!InRange(w[j], i) <=>
          full[p] <= full[i] /\ (i > 1 => full[i - 1] < full[p])
    BY <1>15, <2>3, <2>4, <2>5 DEF Counted!InRange
  <2>7. \A k \in 1..m : full[k] \in Int
    BY <1>2, <1>16
  <2>8. ASSUME full[p] <= full[i], i > 1 => full[i - 1] < full[p] PROVE p = i
    <3>1. ~ (i < p)
      BY <1>13, <2>7, <2>8
    <3>2. CASE p < i
      <4>1. i > 1 /\ i - 1 \in 1..m /\ (p = i - 1 \/ p < i - 1)
        BY <2>5, <3>2
      <4>2. full[p] = full[i - 1] \/ full[p] < full[i - 1]
        BY <1>13, <4>1
      <4> QED BY <2>7, <2>8, <4>1, <4>2
    <3> QED BY <3>1, <3>2
  <2>9. ASSUME lb[j] = full[i] PROVE full[p] <= full[i] /\ (i > 1 => full[i - 1] < full[p])
    BY <2>2, <2>4, <2>5, <2>7, <2>9
  <2> QED BY <2>2, <2>6, <2>8, <2>9
<1>18. DOMAIN w = 1..n
  BY DEF w
<1>19. ASSUME NEW i \in 1..m
       PROVE  Counted!Buckets[i].count =
                Counted!Cardinality({j \in DOMAIN w : Counted!InRange(w[j], i)})
  <2>1. {j \in DOMAIN w : Counted!InRange(w[j], i)} = T(full[i])
    BY <1>17, <1>18
  <2> HIDE DEF T
  <2>2. v3[full[i]] = Cardinality(T(full[i]))
    BY <1>10, <1>16
  <2> QED BY <1>15, <2>1, <2>2, CountedCardinality
<1>20. ASSUME NEW j \in 1..n PROVE \E i \in 1..m : Counted!InRange(w[j], i)
  BY <1>11, <1>13, <1>17
<1> QED BY <1>7, <1>15, <1>18, <1>19, <1>20 DEF Counted!Match

\* Only a value above all edges has no bucket.
LEMMA OverrunFound ==
  ASSUME Counted!HistogramAssumption, CountInv PROVE Counted!OverrunAbove
<1> DEFINE n == Len(v2)
           B == Len(v1)
           w == [j \in 1..n |-> Counted!Narrow(v2[j])]
           Above(x) == IF v1 = Counted!DefaultEdges
                       THEN x = Counted!Infinity
                       ELSE \A k \in DOMAIN v1 : v1[k] < x
<1>1. /\ v1 \in Seq(Int) /\ Counted!Ascending(v1) /\ B \in Nat /\ DOMAIN v1 = 1..B
      /\ \A k \in 1..B : v1[k] \in -DoubleMax..DoubleMax /\ v1[k] \in Int
      /\ DoubleMax \in Nat
  <2>1. v1 \in Seq(-DoubleMax..DoubleMax) /\ Counted!Ascending(v1) /\ DoubleMax \in Nat
    BY BinsTyped DEF CountInv, Counted!TypeOK, Counted!HistogramAssumption
  <2>2. \A k \in DOMAIN v1 : v1[k] \in -DoubleMax..DoubleMax
    BY <2>1, ElementOfSeq
  <2> QED BY <2>1, <2>2
<1>2. n \in Nat /\ DOMAIN v2 = 1..n /\ v2 \in Seq(Values)
  BY DEF CountInv, Counted!TypeOK
<1>3. \A j \in 1..n : w[j] = Counted!Narrow(v2[j]) /\ w[j] \in Int /\ w[j] <= Counted!Infinity
  <2>1. \A j \in 1..n : v2[j] \in Int
    <3>1. \A j \in 1..n : v2[j] \in Values
      BY <1>2, ElementOfSeq
    <3>2. Values \subseteq Int
      BY DEF Counted!HistogramAssumption, Counted!Lowest
    <3> QED BY <3>1, <3>2
  <2> QED BY <2>1, NarrowIs
<1> HIDE DEF w
<1>4. ASSUME NEW j \in 1..n
      PROVE  Counted!LowerBound(w[j]) \notin DOMAIN v1 <=> \A k \in DOMAIN v1 : v1[k] < w[j]
  <2>1. /\ Counted!LowerBound(w[j]) \in 1..(B + 1)
        /\ \A k \in DOMAIN v1 : v1[k] < w[j] <=> k < Counted!LowerBound(w[j])
    BY <1>1, <1>3, LowerBoundIs
  <2>2. CASE Counted!LowerBound(w[j]) \in DOMAIN v1
    BY <1>1, <2>1, <2>2
  <2>3. CASE Counted!LowerBound(w[j]) \notin DOMAIN v1
    <3>1. Counted!LowerBound(w[j]) = B + 1
      BY <1>1, <2>1, <2>3
    <3> QED BY <1>1, <2>1, <2>3, <3>1
  <2> QED BY <2>2, <2>3
<1>5. ASSUME NEW j \in 1..n
      PROVE  (\A k \in DOMAIN v1 : v1[k] < w[j]) <=> Above(w[j])
  <2>1. CASE v1 = Counted!DefaultEdges
    <3>1. PICK k \in DOMAIN v1 : v1[k] = DoubleMax
      BY <2>1, EdgesInOrder
    <3>2. Counted!Infinity = DoubleMax + 1
      BY DEF Counted!Infinity
    <3>3. (\A i \in DOMAIN v1 : v1[i] < w[j]) <=> w[j] = Counted!Infinity
      BY <1>1, <1>3, <3>1, <3>2
    <3> QED BY <2>1, <3>3
  <2>2. CASE v1 # Counted!DefaultEdges
    BY <2>2
  <2> QED BY <2>1, <2>2
<1> HIDE DEF Above
<1>6. v6 <=> \E j \in 1..n : Above(w[j])
  BY <1>2, <1>3, <1>4, <1>5 DEF CountInv, Counted!Tallied
<1>7. (\E v \in Counted!ToSet(v2) : Above(Counted!Narrow(v))) <=> \E j \in 1..n : Above(w[j])
  BY <1>2, <1>3 DEF Counted!ToSet
<1> QED BY <1>6, <1>7 DEF Counted!OverrunAbove, Above

\* The extremes.
LEMMA CountedMax ==
  ASSUME NEW n \in Int, NEW s \in SUBSET Int, n \in s, \A x \in s : x <= n PROVE Counted!Max(s) = n
<1>1. \A y \in s : n >= y
  OBVIOUS
<1>2. Counted!Max(s) \in s /\ \A y \in s : Counted!Max(s) >= y
  BY <1>1, Zenon DEF Counted!Max
<1>3. Counted!Max(s) >= n /\ Counted!Max(s) <= n /\ Counted!Max(s) \in Int
  BY <1>2
<1> QED BY <1>3

LEMMA CountedMin ==
  ASSUME NEW n \in Int, NEW s \in SUBSET Int, n \in s, \A x \in s : n <= x PROVE Counted!Min(s) = n
<1>1. Counted!Min(s) \in s /\ \A y \in s : Counted!Min(s) <= y
  BY Zenon DEF Counted!Min
<1>2. Counted!Min(s) >= n /\ Counted!Min(s) <= n /\ Counted!Min(s) \in Int
  BY <1>1
<1> QED BY <1>2

LEMMA ExtremesFound ==
  ASSUME Counted!HistogramAssumption, CountInv PROVE Counted!ExtremesButFirst
<1> DEFINE n == Len(v2)
           w == [j \in 1..n |-> Counted!Narrow(v2[j])]
           floats == {Counted!Narrow(v) : v \in Counted!ToSet(v2)}
<1>1. SUFFICES ASSUME floats # {}, floats \subseteq -FloatMax..FloatMax
               PROVE  /\ v5 = Counted!Max(floats)
                      /\ (\E j \in 2..n : Counted!Narrow(v2[j]) = Counted!Min(floats)) =>
                           v4 = Counted!Min(floats)
  BY DEF Counted!ExtremesButFirst
<1>2. n \in Nat /\ DOMAIN v2 = 1..n
  BY DEF CountInv, Counted!TypeOK
<1>3. \A j \in 1..n : w[j] = Counted!Narrow(v2[j])
  OBVIOUS
<1> HIDE DEF w
<1>4. /\ \A j \in 1..n : w[j] \in floats
      /\ \A x \in floats : \E j \in 1..n : x = w[j]
  BY <1>2, <1>3 DEF Counted!ToSet
<1> HIDE DEF floats
<1>5. FloatMax \in Nat /\ DoubleMax \in Nat /\ FloatMax < DoubleMax /\ Counted!Lowest = -DoubleMax
  BY DEF Counted!HistogramAssumption, Counted!Lowest
<1>6. \A x \in floats : x \in Int /\ -FloatMax <= x /\ x <= FloatMax
  BY <1>1, <1>5
<1>7. v4 \in Int /\ v5 \in Int
  BY DEF CountInv, Counted!TypeOK
<1>8. /\ \A j \in 1..n : w[j] <= v5
      /\ v5 = -DoubleMax \/ \E j \in 1..n : v5 = w[j]
      /\ v4 = DoubleMax \/ \E j \in 1..n : v4 = w[j]
      /\ \A i, j \in 1..n : i < j /\ w[j] <= w[i] => v4 <= w[j]
  BY <1>2, <1>3, <1>5 DEF CountInv, Counted!Bounds
<1>9. PICK first \in floats : TRUE
  BY <1>1
<1>10. n >= 1 /\ 1 \in 1..n
  BY <1>2, <1>4, <1>9
<1>11. v5 = Counted!Max(floats)
  <2>1. v5 \in floats
    <3>1. w[1] <= v5 /\ w[1] \in Int /\ -FloatMax <= w[1]
      BY <1>4, <1>6, <1>8, <1>10
    <3>2. v5 # -DoubleMax
      BY <1>5, <1>7, <3>1
    <3> QED BY <1>4, <1>8, <3>2
  <2>2. \A x \in floats : x <= v5
    BY <1>4, <1>8
  <2>3. floats \in SUBSET Int
    BY <1>6
  <2> QED BY <1>7, <2>1, <2>2, <2>3, CountedMax
<1>12. ASSUME NEW j \in 2..n, w[j] = Counted!Min(floats) PROVE v4 = Counted!Min(floats)
  <2>1. PICK least \in floats : \A x \in floats : least <= x
    <3> DEFINE S == {x + FloatMax : x \in floats}
    <3>1. S \in SUBSET Nat /\ S # {}
      BY <1>1, <1>5, <1>6
    <3>2. \A x \in floats : x + FloatMax \in S
      OBVIOUS
    <3>3. \A y \in S : \E x \in floats : y = x + FloatMax
      OBVIOUS
    <3> HIDE DEF S
    <3>4. PICK s \in S : \A y \in S : s <= y
      BY <3>1, Least
    <3>5. PICK least \in floats : s = least + FloatMax
      BY <3>3
    <3>6. \A x \in floats : least <= x
      BY <1>5, <1>6, <3>2, <3>4, <3>5
    <3> QED BY <3>6
  <2>2. floats \in SUBSET Int /\ least \in Int
    BY <1>6
  <2>3. Counted!Min(floats) = least
    BY <2>1, <2>2, CountedMin
  <2>4. j \in 1..n /\ 1 < j
    BY <1>2, <1>10, <1>12
  <2>5. v4 <= w[j]
    <3>1. w[j] <= w[1]
      BY <1>4, <1>10, <1>12, <2>1, <2>3
    <3> QED BY <1>8, <1>10, <2>4, <3>1
  <2>6. v4 # DoubleMax
    BY <1>5, <1>6, <1>7, <1>12, <2>1, <2>3, <2>5
  <2>7. v4 \in floats
    BY <1>4, <1>8, <2>6
  <2> QED BY <1>7, <1>12, <2>1, <2>2, <2>3, <2>5, <2>7
<1>13. \A j \in 2..n : w[j] = Counted!Narrow(v2[j])
  BY <1>2, <1>3
<1> QED BY <1>11, <1>12, <1>13

LEMMA CountInvIsSummary ==
  ASSUME Counted!HistogramAssumption, CountInv PROVE Counted!SummaryOfValues
BY BucketsCount, OverrunFound, ExtremesFound DEF Counted!SummaryOfValues

\* Histogram, of any vector of values and any edges: the buckets logged count the
\* values of their ranges and miss none, the counts are overrun for a value too
\* large and for no other, and the extremes are those of the values but for a
\* minimum that comes first.
THEOREM ValuesCounted == Spec => []SummaryOfValues
<1>1. Counted!Spec => []CountInv
  BY SummariesAssumption, CountInit, CountSteps, PTL DEF Counted!Spec
<1>2. CountInv => Counted!SummaryOfValues
  BY SummariesAssumption, CountInvIsSummary
<1>3. SummaryOfValues <=> (what = "histogram" => Counted!SummaryOfValues)
  BY DEF SummaryOfValues
<1>4. [Next]_vars => (what = "histogram" <=> (what = "histogram")')
  BY OneKind
<1> QED BY <1>1, <1>2, <1>3, <1>4, CountedBehaviour, PTL DEF Spec, Counted!Spec

-------------------------------------------------------------------------------
\* PRCurve.  One sample counts at every threshold up to its bucket.
LEMMA CurveSum == \A f, S : Curve!SumFunctionOnSet(f, S) = SumFunctionOnSet(f, S)
BY DEF Curve!SumFunctionOnSet, Curve!FoldFunctionOnSet, Curve!MapThenFoldSet,
  SumFunctionOnSet, FoldFunctionOnSet, MapThenFoldSet

LEMMA CumulativeAdd ==
  ASSUME NEW E \in Nat, NEW counts \in [0..E -> Nat], NEW b \in 0..E, NEW n \in Nat, NEW i \in 0..E
  PROVE  /\ Curve!Add(counts, b, n) \in [0..E -> Nat]
         /\ Curve!Cumulative(counts)[i] \in Nat
         /\ Curve!Cumulative(Curve!Add(counts, b, n))[i] =
              Curve!Cumulative(counts)[i] + (IF i <= b THEN n ELSE 0)
<1> DEFINE more == [counts EXCEPT ![b] = @ + n]
           above == {f \in 0..E : i <= f}
<1>1. more \in [0..E -> Nat] /\ more[b] = counts[b] + n /\ \A f \in (0..E) \ {b} : more[f] = counts[f]
  OBVIOUS
<1>2. Curve!Add(counts, b, n) = more
  BY DEF Curve!Add
<1>3. /\ Curve!Cumulative(counts)[i] = SumFunctionOnSet(counts, above)
      /\ Curve!Cumulative(more)[i] = SumFunctionOnSet(more, above)
  <2> HIDE DEF more
  <2> QED BY <1>1, CurveSum DEF Curve!Cumulative
<1>4. Summable(counts, above)
  <2>1. above \subseteq 0..((E + 1) - 1) /\ E + 1 \in Nat /\ \A f \in above : counts[f] \in Nat
    OBVIOUS
  <2> QED BY <2>1 DEF Summable
<1>5. (i <= b <=> b \in above) /\ above \subseteq 0..E
  OBVIOUS
<1> HIDE DEF more, above
<1>6. SumFunctionOnSet(counts, above) \in Nat
  BY <1>4, SumOf
<1>7. ASSUME b \in above
      PROVE  SumFunctionOnSet(more, above) = SumFunctionOnSet(counts, above) + n
  <2>1. \A f \in above : f # b => more[f] = counts[f]
    BY <1>1, <1>5
  <2>2. more[b] = counts[b] + n
    BY <1>1
  <2>3. PICK f, g, S, a, k : f = counts /\ g = more /\ S = above /\ a = b /\ k = n
    OBVIOUS
  <2>4. Summable(f, S) /\ a \in S /\ k \in Nat /\ g[a] = f[a] + k /\ \A y \in S : y # a => g[y] = f[y]
    BY <1>4, <1>7, <2>1, <2>2, <2>3
  <2>5. SumFunctionOnSet(g, S) = SumFunctionOnSet(f, S) + k
    BY ONLY <2>4, SumAdd
  <2> QED BY <2>3, <2>5
<1>8. ASSUME b \notin above
      PROVE  SumFunctionOnSet(more, above) = SumFunctionOnSet(counts, above)
  <2>1. \A f \in above : more[f] = counts[f]
    BY <1>1, <1>5, <1>8
  <2> QED BY <1>4, <2>1, SumSame
<1> QED BY <1>1, <1>2, <1>3, <1>5, <1>6, <1>7, <1>8

\* Products, which the provers know little of.
LEMMA Products ==
  ASSUME NEW a \in Nat, NEW b \in Nat, NEW c \in Nat
  PROVE  /\ a * c \in Nat
         /\ a <= b => a * c <= b * c
         /\ a < b /\ c > 0 => a * c < b * c
<1>1. a * c \in Nat /\ (a + (b - a)) * c = a * c + (b - a) * c
  OBVIOUS
<1>2. a <= b => (b - a) * c >= 0
  OBVIOUS
<1>3. a < b /\ c > 0 => (b - a) * c > 0
  OBVIOUS
<1>4. a + (b - a) = b /\ (b - a) * c \in Int
  OBVIOUS
<1> QED BY <1>1, <1>2, <1>3, <1>4

\* An item, and the edges below it.
LEMMA ItemRange ==
  ASSUME NEW t \in Nat \ {0}, Unit \in Nat \ {0}, NEW p \in 0..Unit
  PROVE  /\ Curve!Item(t, p) \in 0..(t - 1)
         /\ t > 1 /\ Curve!Item(t, p) = t - 1 => p = Unit
<1> DEFINE x == (p * (t - 1)) \div Unit
<1>1. p * (t - 1) \in Nat
  OBVIOUS
<1>2. x \in Nat /\ Unit * x <= p * (t - 1) 
  BY <1>1
<1>3. p * (t - 1) <= Unit * (t - 1) /\ (p < Unit /\ t > 1 => p * (t - 1) < Unit * (t - 1))
  BY Products
<1>4. x >= t => Unit * x > Unit * (t - 1)
  <2> HIDE DEF x
  <2>1. x >= t => (t - 1) * Unit < x * Unit
    BY <1>2, Products
  <2> QED BY <1>2, <2>1
<1>5. x = t - 1 => Unit * x = Unit * (t - 1)
  OBVIOUS
<1>6. Curve!Item(t, p) = x
  BY DEF Curve!Item
<1>7. Unit * x \in Int /\ Unit * (t - 1) \in Int
  BY <1>2
<1> HIDE DEF x
<1> QED BY <1>1, <1>2, <1>3, <1>4, <1>5, <1>6, <1>7

LEMMA EdgesBelow ==
  ASSUME NEW t \in Nat \ {0}, NEW item \in 0..(t - 1), NEW e \in 0..t
  PROVE  /\ e * (t - 1) < item * t <=> 0 < item /\ e <= item
         /\ e * (t - 1) = item * t <=> \/ e = 0 /\ item = 0
                                       \/ e = t /\ item = t - 1
<1>1. e * (t - 1) = e * t - e /\ e * t \in Int /\ item * t \in Int
  OBVIOUS
<1>2. e <= item => e * t <= item * t
  BY Products
<1>3. item < e => e * t >= item * t + t
  <2>1. item < e => (item + 1) * t <= e * t
    BY Products
  <2>2. (item + 1) * t = item * t + t
    OBVIOUS
  <2> QED BY <1>1, <2>1, <2>2
<1>4. item + 1 < e => e * t >= item * t + 2 * t
  <2>1. item + 1 < e => (item + 2) * t <= e * t
    BY Products
  <2>2. (item + 2) * t = item * t + 2 * t
    OBVIOUS
  <2> QED BY <1>1, <2>1, <2>2
<1>5. item = 0 => item * t = 0
  OBVIOUS
<1>6. e = 0 => e * t = 0
  OBVIOUS
<1>7. item > 0 => item * t > 0
  BY <1>1
<1>8. e < item => e * t + t <= item * t
  <2>1. e < item => (e + 1) * t <= item * t
    BY Products
  <2>2. (e + 1) * t = e * t + t
    OBVIOUS
  <2> QED BY <1>1, <2>1, <2>2
<1> QED BY <1>1, <1>2, <1>3, <1>4, <1>5, <1>6, <1>7, <1>8

\* A sample is counted where the thresholds up to it see it, or at no edge.
LEMMA BucketOf ==
  ASSUME NEW t \in Nat \ {0}, NEW l \in {"exact", "below", "missing"}, NEW item \in 0..(t - 1),
         NEW b \in Curve!Buckets(t, l, item)
  PROVE  /\ b \in Curve!Edges(t, l) => \A i \in 0..(t - 1) : i <= item <=> i <= b
         /\ b \notin Curve!Edges(t, l) => l # "exact" /\ t > 1 /\ item = t - 1
<1> DEFINE E == IF t = 1 \/ l = "missing" THEN t - 1 ELSE t
           late == l = "below" /\ item = t - 1 /\ t > 1
           low == {e \in Curve!Edges(t, l) : Curve!Below(t, l, e, item)}
<1>1. /\ E \in Nat /\ E <= t /\ t - 1 <= E /\ Curve!Edges(t, l) = 0..E
      /\ E = t <=> t > 1 /\ l # "missing"
  BY DEF Curve!Edges
<1> HIDE DEF E
<1>2. \A e \in 0..E : Curve!Below(t, l, e, item) <=> (0 < item /\ e <= item) \/ (late /\ e = t)
  <2>1. ASSUME NEW e \in 0..E
        PROVE  Curve!Below(t, l, e, item) <=> (0 < item /\ e <= item) \/ (late /\ e = t)
    <3>1. e \in 0..t
      BY <1>1
    <3>2. e * (t - 1) < item * t <=> 0 < item /\ e <= item
      BY <3>1, EdgesBelow
    <3> QED BY <3>2 DEF Curve!Below
  <2> QED BY <2>1
<1>3. low = IF item = 0 THEN {} ELSE IF late THEN 0..t ELSE 0..item
  <2>1. low = {e \in 0..E : (0 < item /\ e <= item) \/ (late /\ e = t)}
    BY <1>1, <1>2
  <2>2. late => E = t /\ item = t - 1
    BY <1>1
  <2> HIDE DEF low
  <2> QED BY <1>1, <2>1, <2>2
<1>4. Cardinality(low) = IF item = 0 THEN 0 ELSE IF late THEN t + 1 ELSE item + 1
  <2>1. Cardinality({}) = 0 /\ Cardinality(0..t) = t + 1 /\ Cardinality(0..item) = item + 1
    BY FS_EmptySet, FS_Interval
  <2> HIDE DEF low
  <2> QED BY <1>3, <2>1
<1> DEFINE n == Cardinality(low)
<1>5. Curve!LowerBound(t, l, item) = n
  BY DEF Curve!LowerBound, Curve!Cardinality, Cardinality
<1>6. PICK exact \in Curve!IsItem(t, l, n, item) : b = IF exact THEN n ELSE n - 1
  BY <1>5 DEF Curve!Buckets
<1>7. exact \in BOOLEAN /\ (n \in 0..E => (exact <=> n * (t - 1) = item * t))
  BY <1>1, <1>6 DEF Curve!IsItem
<1> HIDE DEF low
<1>8. n \in Nat
  BY <1>4
<1>9. n \in 0..E => (exact <=> (n = 0 /\ item = 0) \/ (n = t /\ item = t - 1))
  <2>1. n \in 0..E => n \in 0..t
    BY <1>1
  <2> HIDE DEF n
  <2> QED BY <1>7, <2>1, EdgesBelow
<1>10. CASE item = 0
  <2>1. n = 0 /\ b = 0
    BY <1>1, <1>4, <1>6, <1>9, <1>10
  <2> QED BY <1>1, <1>10, <2>1
<1>11. CASE 0 < item /\ item < t - 1
  <2>1. n = item + 1 /\ n \in 0..E
    BY <1>1, <1>4, <1>11
  <2>2. b = item
    BY <1>6, <1>9, <1>11, <2>1
  <2> QED BY <1>1, <1>11, <2>2
<1>12. CASE 0 < item /\ item = t - 1
  <2>1. n = IF late THEN t + 1 ELSE t
    BY <1>4, <1>12
  <2>2. b \in {n, n - 1} /\ t > 1
    BY <1>6, <1>12
  <2>3. l = "exact" => b = t
    BY <1>1, <1>6, <1>9, <1>12, <2>1
  <2>4. b \in 0..E => b >= t - 1
    BY <2>1, <2>2
  <2>5. b \notin 0..E => l # "exact"
    BY <1>1, <2>2, <2>3
  <2> HIDE DEF n
  <2> QED BY <1>1, <1>12, <2>2, <2>4, <2>5
<1> QED BY <1>10, <1>11, <1>12

\* What the next sample adds to the sums of the definition.
LEMMA WeighedMore ==
  ASSUME Curve!CurveAssumption, Curve!TypeOK, NEW label \in {0, 1}, NEW p \in 0..Unit,
         Curve!Take(label, p), NEW c \in {0, 1}, NEW i \in 0..(v1 - 1)
  PROVE  /\ Curve!Weight(Len(v4) + 1) \in Nat
         /\ Curve!Accepted(c, i) \in Nat /\ Curve!Rejected(c, i) \in Nat
         /\ Curve!Accepted(c, i)' = Curve!Accepted(c, i) +
              IF c = label /\ i <= Curve!Item(v1, p) THEN Curve!Weight(Len(v4) + 1) ELSE 0
         /\ Curve!Rejected(c, i)' = Curve!Rejected(c, i) +
              IF c = label /\ i > Curve!Item(v1, p) THEN Curve!Weight(Len(v4) + 1) ELSE 0
<1> DEFINE N == Len(v4)
           item == Curve!Item(v1, p)
           w == Curve!Weight(N + 1)
           f == [s \in DOMAIN v4 |-> Curve!Weight(s)]
           g == [s \in DOMAIN v4' |-> Curve!Weight(s)']
           accepted == {s \in DOMAIN v4 : v4[s].label = c /\ i <= v4[s].item}
           rejected == {s \in DOMAIN v4 : v4[s].label = c /\ i > v4[s].item}
<1>1. N \in Nat /\ DOMAIN v4 = 1..N /\ v3 \in Seq(Nat)
  BY DEF Curve!TypeOK, Curve!CurveAssumption
<1>2. \A s \in 1..(N + 1) : Curve!Weight(s) \in Nat /\ Curve!Weight(s)' = Curve!Weight(s)
  BY <1>1 DEF Curve!Weight, Curve!Take
<1>3. /\ DOMAIN v4' = 1..(N + 1) /\ \A s \in 1..N : v4'[s] = v4[s]
      /\ v4'[N + 1] = [label |-> label, item |-> item, p |-> p]
  BY <1>1 DEF Curve!Take, Curve!TypeOK
<1>4. /\ \A s \in 1..N : f[s] = Curve!Weight(s) /\ f[s] \in Nat /\ g[s] = f[s]
      /\ g[N + 1] = w /\ w \in Nat
  BY <1>1, <1>2, <1>3
<1> HIDE DEF f, g, w
<1>5. /\ accepted \subseteq 1..N /\ rejected \subseteq 1..N
      /\ Summable(f, accepted) /\ Summable(f, rejected)
  <2>1. accepted \subseteq 1..N /\ rejected \subseteq 1..N
    BY <1>1
  <2>2. N + 1 \in Nat /\ 1..N \subseteq 0..((N + 1) - 1)
    BY <1>1
  <2> QED BY <1>4, <2>1, <2>2 DEF Summable
<1>6. /\ Curve!Accepted(c, i) = SumFunctionOnSet(f, accepted)
      /\ Curve!Rejected(c, i) = SumFunctionOnSet(f, rejected)
  BY CurveSum DEF Curve!Accepted, Curve!Rejected, Curve!Weighed, f
<1> DEFINE Accepted2 == {s \in DOMAIN v4' : v4'[s].label = c /\ i <= v4'[s].item}
           Rejected2 == {s \in DOMAIN v4' : v4'[s].label = c /\ i > v4'[s].item}
<1>7. /\ Curve!Accepted(c, i)' = SumFunctionOnSet(g, Accepted2)
      /\ Curve!Rejected(c, i)' = SumFunctionOnSet(g, Rejected2)
  BY CurveSum DEF Curve!Accepted, Curve!Rejected, Curve!Weighed, g
<1>8. /\ Accepted2 = IF c = label /\ i <= item THEN accepted \cup {N + 1} ELSE accepted
      /\ Rejected2 = IF c = label /\ i > item THEN rejected \cup {N + 1} ELSE rejected
  <2>1. \A s \in 1..(N + 1) : s \in 1..N \/ s = N + 1
    BY <1>1
  <2>2. N + 1 \in 1..(N + 1) /\ \A s \in 1..N : s \in 1..(N + 1)
    BY <1>1
  <2> HIDE DEF N, item
  <2> QED BY <1>1, <1>3, <2>1, <2>2
<1> HIDE DEF accepted, rejected, Accepted2, Rejected2
<1>9. /\ N \in Nat /\ \A s \in 1..N : f[s] \in Nat /\ g[s] = f[s]
      /\ g[N + 1] \in Nat
  BY <1>1, <1>4
<1>10. accepted \in SUBSET (1..N) /\ rejected \in SUBSET (1..N)
  BY <1>5
<1> HIDE DEF N
<1>11. \A S \in SUBSET (1..N) :
         /\ SumFunctionOnSet(f, S) \in Nat
         /\ SumFunctionOnSet(g, S) = SumFunctionOnSet(f, S)
         /\ SumFunctionOnSet(g, S \cup {N + 1}) = SumFunctionOnSet(f, S) + g[N + 1]
  BY ONLY <1>9, SumNext
<1>12. /\ SumFunctionOnSet(f, accepted) \in Nat /\ SumFunctionOnSet(f, rejected) \in Nat
       /\ SumFunctionOnSet(g, accepted) = SumFunctionOnSet(f, accepted)
       /\ SumFunctionOnSet(g, rejected) = SumFunctionOnSet(f, rejected)
       /\ SumFunctionOnSet(g, accepted \cup {N + 1}) = SumFunctionOnSet(f, accepted) + w
       /\ SumFunctionOnSet(g, rejected \cup {N + 1}) = SumFunctionOnSet(f, rejected) + w
  BY <1>4, <1>10, <1>11
<1>13. w \in Nat
  BY <1>4
<1> HIDE DEF item
<1>14. Curve!Accepted(c, i)' = Curve!Accepted(c, i) + IF c = label /\ i <= item THEN w ELSE 0
  BY <1>6, <1>7, <1>8, <1>12, <1>13
<1>15. Curve!Rejected(c, i)' = Curve!Rejected(c, i) + IF c = label /\ i > item THEN w ELSE 0
  BY <1>6, <1>7, <1>8, <1>12, <1>13
<1>16. w \in Nat /\ Curve!Accepted(c, i) \in Nat /\ Curve!Rejected(c, i) \in Nat
  BY <1>6, <1>12, <1>13
<1> QED BY <1>14, <1>15, <1>16 DEF w, N, item

CurveInv == Curve!TypeOK /\ Curve!ThresholdsMatch /\ Curve!OverrunAtOne

LEMMA EdgesAre ==
  ASSUME NEW t \in Nat \ {0}, NEW l
  PROVE  \E E \in Nat : Curve!Edges(t, l) = 0..E /\ t - 1 <= E
<1>1. CASE t = 1 \/ l = "missing"
  BY <1>1 DEF Curve!Edges
<1>2. CASE ~ (t = 1 \/ l = "missing")
  BY <1>2 DEF Curve!Edges
<1> QED BY <1>1, <1>2

LEMMA CurveInit == ASSUME Curve!CurveAssumption, Curve!Init PROVE CurveInv
<1>1. v1 \in Nat \ {0}
  BY DEF Curve!CurveAssumption, Curve!Init
<1>2. PICK E \in Nat : Curve!Edges(v1, v2) = 0..E /\ v1 - 1 <= E
  BY <1>1, EdgesAre
<1> DEFINE zero == [e \in 0..E |-> 0]
<1>3. v5 = zero /\ v6 = zero /\ v7 = FALSE /\ v4 = <<>>
  BY <1>2 DEF Curve!Init
<1>4. Curve!TypeOK
  <2>1. v5 \in [Curve!Edges(v1, v2) -> Nat] /\ v6 \in [Curve!Edges(v1, v2) -> Nat]
    BY <1>2, <1>3
  <2>2. v4 \in Seq([label : {0, 1}, item : 0..(v1 - 1), p : 0..Unit])
    BY <1>3
  <2> HIDE DEF zero
  <2> QED BY <1>3, <2>1, <2>2 DEF Curve!TypeOK, Curve!Init
<1>5. ASSUME NEW i \in 0..E PROVE Curve!Cumulative(zero)[i] = 0
  <2> DEFINE above == {f \in 0..E : i <= f}
  <2>1. Curve!Cumulative(zero)[i] = SumFunctionOnSet(zero, above)
    BY CurveSum DEF Curve!Cumulative
  <2>2. Summable(zero, above) /\ \A f \in above : zero[f] = 0
    <3>1. above \subseteq 0..((E + 1) - 1) /\ E + 1 \in Nat /\ \A f \in above : zero[f] = 0
      OBVIOUS
    <3> QED BY <3>1 DEF Summable
  <2> HIDE DEF above, zero
  <2> QED BY <2>1, <2>2, SumZero
<1>6. ASSUME NEW c, NEW i PROVE Curve!Accepted(c, i) = 0 /\ Curve!Rejected(c, i) = 0
  <2> DEFINE f == [s \in DOMAIN v4 |-> Curve!Weight(s)]
  <2>1. Curve!Accepted(c, i) = SumFunctionOnSet(f, {}) /\ Curve!Rejected(c, i) = SumFunctionOnSet(f, {})
    <3>1. {s \in DOMAIN v4 : v4[s].label = c /\ i <= v4[s].item} = {}
      BY <1>3
    <3>2. {s \in DOMAIN v4 : v4[s].label = c /\ i > v4[s].item} = {}
      BY <1>3
    <3> QED BY <3>1, <3>2, CurveSum, Zenon DEF Curve!Accepted, Curve!Rejected, Curve!Weighed
  <2>2. Summable(f, {})
    <3>1. 0 \in Nat /\ {} \subseteq 0..(0 - 1)
      OBVIOUS
    <3> QED BY <3>1 DEF Summable
  <2>3. SumFunctionOnSet(f, {}) = 0
    <3> HIDE DEF f
    <3> QED BY <2>2, SumOf
  <2> HIDE DEF f
  <2> QED BY <2>1, <2>3
<1>7. Curve!ThresholdsMatch
  <2>1. SUFFICES ASSUME NEW i \in 0..(v1 - 1)
                 PROVE  /\ Curve!Cumulative(zero)[i] = 0
                        /\ Curve!Negatives(zero)[i] = 0
    BY <1>3, <1>6 DEF Curve!ThresholdsMatch
  <2>2. i \in 0..E /\ 0 \in 0..E
    BY <1>1, <1>2
  <2>3. Curve!Negatives(zero)[i] = Curve!Cumulative(zero)[0] - Curve!Cumulative(zero)[i]
    BY <2>2 DEF Curve!Negatives
  <2> HIDE DEF zero
  <2> QED BY <1>5, <2>2, <2>3
<1>8. Curve!OverrunAtOne
  BY <1>3 DEF Curve!OverrunAtOne
<1> QED BY <1>4, <1>7, <1>8 DEF CurveInv

\* What a sample adds to the sums that are logged, at a threshold.
LEMMA SampleCounted ==
  ASSUME NEW E \in Nat, NEW counts \in [0..E -> Nat], NEW b \in 0..E, NEW n \in Nat, NEW i \in 0..E
  PROVE  /\ Curve!Cumulative(Curve!Add(counts, b, n))[i] =
              Curve!Cumulative(counts)[i] + (IF i <= b THEN n ELSE 0)
         /\ Curve!Negatives(Curve!Add(counts, b, n))[i] =
              Curve!Negatives(counts)[i] + (IF i > b THEN n ELSE 0)
<1> DEFINE more == Curve!Add(counts, b, n)
<1>1. 0 \in 0..E
  OBVIOUS
<1>2. /\ more \in [0..E -> Nat]
      /\ \A j \in 0..E : /\ Curve!Cumulative(counts)[j] \in Nat
                         /\ Curve!Cumulative(more)[j] =
                              Curve!Cumulative(counts)[j] + (IF j <= b THEN n ELSE 0)
  <2>1. ASSUME NEW j \in 0..E
        PROVE  /\ more \in [0..E -> Nat]
               /\ Curve!Cumulative(counts)[j] \in Nat
               /\ Curve!Cumulative(more)[j] =
                    Curve!Cumulative(counts)[j] + (IF j <= b THEN n ELSE 0)
    BY CumulativeAdd
  <2> HIDE DEF more
  <2> QED BY <1>1, <2>1
<1> HIDE DEF more
<1>3. /\ Curve!Negatives(counts)[i] = Curve!Cumulative(counts)[0] - Curve!Cumulative(counts)[i]
      /\ Curve!Negatives(more)[i] = Curve!Cumulative(more)[0] - Curve!Cumulative(more)[i]
  BY <1>2 DEF Curve!Negatives
<1>4. PICK c0, ci, m0, mi :
        /\ c0 = Curve!Cumulative(counts)[0] /\ ci = Curve!Cumulative(counts)[i]
        /\ m0 = Curve!Cumulative(more)[0] /\ mi = Curve!Cumulative(more)[i]
  OBVIOUS
<1>5. c0 \in Nat /\ ci \in Nat /\ m0 = c0 + n /\ mi = ci + (IF i <= b THEN n ELSE 0)
  <2>1. 0 <= b
    OBVIOUS
  <2> QED BY <1>1, <1>2, <1>4, <2>1
<1>6. m0 - mi = (c0 - ci) + (IF i > b THEN n ELSE 0)
  BY <1>5
<1> QED BY <1>3, <1>4, <1>5, <1>6 DEF more

LEMMA CurveTaken ==
  ASSUME Curve!CurveAssumption, CurveInv, NEW label \in {0, 1}, NEW p \in 0..Unit,
         Curve!Take(label, p)
  PROVE  CurveInv'
<1> DEFINE item == Curve!Item(v1, p)
           w == Curve!Weight(Len(v4) + 1)
<1>1. v1 \in Nat \ {0} /\ v2 \in {"exact", "below", "missing"} /\ Unit \in Nat \ {0}
  BY DEF CurveInv, Curve!TypeOK, Curve!CurveAssumption
<1>2. PICK E \in Nat : Curve!Edges(v1, v2) = 0..E /\ v1 - 1 <= E
  BY <1>1, EdgesAre
<1>3. v5 \in [0..E -> Nat] /\ v6 \in [0..E -> Nat] /\ v7 \in BOOLEAN
  BY <1>2 DEF CurveInv, Curve!TypeOK
<1>4. item \in 0..(v1 - 1) /\ (v1 > 1 /\ item = v1 - 1 => p = Unit)
  BY <1>1, ItemRange
<1>5. w \in Nat
  <2>1. 0 \in 0..(v1 - 1)
    BY <1>1
  <2> QED BY <2>1, WeighedMore DEF CurveInv
<1>6. PICK b \in Curve!Buckets(v1, v2, item) :
        /\ v5' = Curve!Add(v5, b, label * w) /\ v6' = Curve!Add(v6, b, (1 - label) * w)
        /\ v7' <=> v7 \/ b \notin DOMAIN v5
  BY DEF Curve!Take
<1>7. v1' = v1 /\ v2' = v2 /\ v3' = v3
      /\ v4' = Append(v4, [label |-> label, item |-> item, p |-> p])
  BY DEF Curve!Take
<1>8. /\ b \in 0..E => \A j \in 0..(v1 - 1) : j <= item <=> j <= b
      /\ b \notin 0..E => v2 # "exact" /\ v1 > 1 /\ item = v1 - 1
  <2> HIDE DEF item
  <2> QED BY <1>1, <1>2, <1>4, BucketOf
<1> HIDE DEF item, w
<1>9. label * w \in Nat /\ (1 - label) * w \in Nat
      /\ label * w = (IF label = 1 THEN w ELSE 0)
      /\ (1 - label) * w = (IF label = 0 THEN w ELSE 0)
  <2>1. CASE label = 0
    BY <1>5, <2>1
  <2>2. CASE label = 1
    BY <1>5, <2>2
  <2> QED BY <2>1, <2>2
<1>10. Curve!TypeOK'
  <2>1. v5' \in [0..E -> Nat] /\ v6' \in [0..E -> Nat]
    <3>1. CASE b \in 0..E
      <4>1. PICK n \in Nat, m \in Nat : n = label * w /\ m = (1 - label) * w
        BY <1>9
      <4>2. Curve!Add(v5, b, n) \in [0..E -> Nat] /\ Curve!Add(v6, b, m) \in [0..E -> Nat]
        <5>1. ASSUME NEW c \in [0..E -> Nat], NEW k \in Nat PROVE Curve!Add(c, b, k) \in [0..E -> Nat]
          <6>1. Curve!Add(c, b, k) = [c EXCEPT ![b] = c[b] + k]
            BY <3>1 DEF Curve!Add
          <6>2. c[b] + k \in Nat
            BY <3>1
          <6> QED BY <6>1, <6>2
        <5> QED BY <1>3, <5>1
      <4>3. v5' = Curve!Add(v5, b, n) /\ v6' = Curve!Add(v6, b, m)
        BY <1>6, <4>1
      <4> QED BY <4>2, <4>3
    <3>2. CASE b \notin 0..E
      BY <1>3, <1>6, <3>2 DEF Curve!Add
    <3> QED BY <3>1, <3>2
  <2>2. v4' \in Seq([label : {0, 1}, item : 0..(v1 - 1), p : 0..Unit])
    BY <1>4, <1>7 DEF CurveInv, Curve!TypeOK
  <2>3. v7' \in BOOLEAN
    BY <1>3, <1>6
  <2> QED BY <1>2, <1>7, <2>1, <2>2, <2>3 DEF CurveInv, Curve!TypeOK
<1>11. ASSUME ~ v7', NEW i \in 0..(v1 - 1)
       PROVE  /\ Curve!Cumulative(v5')[i] = Curve!Accepted(1, i)'
              /\ Curve!Cumulative(v6')[i] = Curve!Accepted(0, i)'
              /\ Curve!Negatives(v5')[i] = Curve!Rejected(1, i)'
              /\ Curve!Negatives(v6')[i] = Curve!Rejected(0, i)'
  <2>1. b \in 0..E /\ ~ v7
    BY <1>3, <1>6, <1>11
  <2>2. /\ Curve!Cumulative(v5)[i] = Curve!Accepted(1, i)
        /\ Curve!Cumulative(v6)[i] = Curve!Accepted(0, i)
        /\ Curve!Negatives(v5)[i] = Curve!Rejected(1, i)
        /\ Curve!Negatives(v6)[i] = Curve!Rejected(0, i)
    BY <2>1 DEF CurveInv, Curve!ThresholdsMatch
  <2>3. \A c \in {0, 1} :
          /\ Curve!Accepted(c, i) \in Nat /\ Curve!Rejected(c, i) \in Nat
          /\ Curve!Accepted(c, i)' =
               Curve!Accepted(c, i) + (IF c = label /\ i <= item THEN w ELSE 0)
          /\ Curve!Rejected(c, i)' =
               Curve!Rejected(c, i) + (IF c = label /\ i > item THEN w ELSE 0)
    BY WeighedMore DEF CurveInv, item, w
  <2>4. i \in 0..E /\ (i <= b <=> i <= item) /\ (i > b <=> i > item)
    <3>1. i \in 0..E /\ (i <= b <=> i <= item)
      BY <1>1, <1>2, <1>8, <2>1
    <3> QED BY <1>4, <2>1, <3>1
  <2>5. /\ Curve!Cumulative(v5')[i] = Curve!Accepted(1, i) + (IF i <= b THEN label * w ELSE 0)
        /\ Curve!Negatives(v5')[i] = Curve!Rejected(1, i) + (IF i > b THEN label * w ELSE 0)
    <3>1. PICK n \in Nat : n = label * w
      BY <1>9
    <3>2. /\ Curve!Cumulative(Curve!Add(v5, b, n))[i] =
               Curve!Cumulative(v5)[i] + (IF i <= b THEN n ELSE 0)
          /\ Curve!Negatives(Curve!Add(v5, b, n))[i] =
               Curve!Negatives(v5)[i] + (IF i > b THEN n ELSE 0)
      BY <1>3, <2>1, <2>4, SampleCounted
    <3> QED BY <1>6, <2>2, <3>1, <3>2
  <2>6. /\ Curve!Cumulative(v6')[i] = Curve!Accepted(0, i) + (IF i <= b THEN (1 - label) * w ELSE 0)
        /\ Curve!Negatives(v6')[i] = Curve!Rejected(0, i) + (IF i > b THEN (1 - label) * w ELSE 0)
    <3>1. PICK n \in Nat : n = (1 - label) * w
      BY <1>9
    <3>2. /\ Curve!Cumulative(Curve!Add(v6, b, n))[i] =
               Curve!Cumulative(v6)[i] + (IF i <= b THEN n ELSE 0)
          /\ Curve!Negatives(Curve!Add(v6, b, n))[i] =
               Curve!Negatives(v6)[i] + (IF i > b THEN n ELSE 0)
      BY <1>3, <2>1, <2>4, SampleCounted
    <3> QED BY <1>6, <2>2, <3>1, <3>2
  <2>7. label = 0 \/ label = 1
    OBVIOUS
  <2> QED BY <1>5, <1>9, <2>3, <2>4, <2>5, <2>6, <2>7
<1>12. Curve!ThresholdsMatch'
  BY <1>7, <1>11 DEF Curve!ThresholdsMatch
<1>13. Curve!OverrunAtOne'
  <2>1. SUFFICES ASSUME v7' PROVE v2 # "exact" /\ \E s \in DOMAIN v4' : v4'[s].p = Unit
    BY <1>7 DEF Curve!OverrunAtOne, Curve!ToSet
  <2>2. /\ DOMAIN v4' = 1..(Len(v4) + 1) /\ Len(v4) \in Nat /\ DOMAIN v4 = 1..Len(v4)
        /\ v4'[Len(v4) + 1].p = p
        /\ \A s \in 1..Len(v4) : v4'[s] = v4[s]
    BY <1>7 DEF CurveInv, Curve!TypeOK
  <2>3. CASE v7
    <3>1. v2 # "exact" /\ \E s \in DOMAIN v4 : v4[s].p = Unit
      BY <2>3 DEF CurveInv, Curve!OverrunAtOne, Curve!ToSet
    <3> QED BY <2>2, <3>1
  <2>4. CASE ~ v7
    <3>1. b \notin 0..E
      BY <1>3, <1>6, <2>1, <2>4
    <3>2. v2 # "exact" /\ p = Unit
      BY <1>4, <1>8, <3>1
    <3> QED BY <2>2, <3>2
  <2> QED BY <2>3, <2>4
<1> QED BY <1>10, <1>12, <1>13 DEF CurveInv

LEMMA CurveSteps == ASSUME Curve!CurveAssumption, CurveInv, [Curve!Next]_(Curve!vars) PROVE CurveInv'
<1>1. CASE Curve!Next
  BY <1>1, CurveTaken DEF Curve!Next
<1>2. CASE UNCHANGED Curve!vars
  <2>1. /\ v1' = v1 /\ v2' = v2 /\ v3' = v3 /\ v4' = v4
        /\ v5' = v5 /\ v6' = v6 /\ v7' = v7
    BY <1>2 DEF Curve!vars
  <2>2. \A c, i : Curve!Accepted(c, i)' = Curve!Accepted(c, i)
    BY <2>1 DEF Curve!Accepted, Curve!Weighed, Curve!Weight
  <2>3. \A c, i : Curve!Rejected(c, i)' = Curve!Rejected(c, i)
    BY <2>1 DEF Curve!Rejected, Curve!Weighed, Curve!Weight
  <2>4. Curve!TypeOK' /\ Curve!OverrunAtOne'
    BY <2>1 DEF CurveInv, Curve!TypeOK, Curve!OverrunAtOne
  <2>5. Curve!ThresholdsMatch'
    BY <2>1, <2>2, <2>3 DEF CurveInv, Curve!ThresholdsMatch
  <2> QED BY <2>4, <2>5 DEF CurveInv
<1> QED BY <1>1, <1>2

\* PRCurve, of any samples and any number of thresholds: each entry of the
\* confusion matrix is the weight of the samples on its side of the threshold,
\* and only a prediction of 1 leads past the last edge.
THEOREM CurveCounted == Spec => []CurveOfSamples
<1>1. Curve!Spec => []CurveInv
  BY SummariesAssumption, CurveInit, CurveSteps, PTL DEF Curve!Spec
<1>2. CurveInv => Curve!CurveOfSamples
  BY DEF CurveInv, Curve!CurveOfSamples
<1>3. CurveOfSamples <=> (what = "curve" => Curve!CurveOfSamples)
  BY DEF CurveOfSamples
<1>4. [Next]_vars => (what = "curve" <=> (what = "curve")')
  BY OneKind
<1> QED BY <1>1, <1>2, <1>3, <1>4, CurveBehaviour, PTL DEF Spec, Curve!Spec
===============================================================================
