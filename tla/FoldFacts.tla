------------------------------- MODULE FoldFacts -------------------------------
(***************************************************************************)
(* Facts about the folds and the recursive functions of the community      *)
(* modules, which define them by what they satisfy.                        *)
(***************************************************************************)
EXTENDS Integers, FiniteSets, SequencesExt, FiniteSetsExt, SequenceTheorems,
        FiniteSetTheorems, WellFoundedInduction, TLAPS

\* Some numbers have a least.
LEMMA Least ==
  ASSUME NEW S \in SUBSET Nat, S # {}
  PROVE  \E m \in S : \A x \in S : m <= x
<1> DEFINE R == OpToRel(<, Nat)
<1>1. IsWellFoundedOn(R, Nat)
  BY NatLessThanWellFounded
<1>2. \E x \in S : \A y \in S : ~ (<<y, x>> \in R)
  <2> HIDE DEF R
  <2> QED BY <1>1, WFMin
<1>3. ASSUME NEW x \in S, NEW y \in S, ~ (<<y, x>> \in R) PROVE x <= y
  BY <1>3 DEF OpToRel
<1> QED BY <1>2, <1>3

\* Induction up to N, for a set instead of a predicate.
LEMMA Inductively ==
  ASSUME NEW N \in Nat, NEW S, 0 \in S, \A k \in 1..N : k - 1 \in S => k \in S
  PROVE  \A k \in 0..N : k \in S
<1> DEFINE bad == {k \in 0..N : k \notin S}
<1>1. SUFFICES ASSUME bad # {} PROVE FALSE
  OBVIOUS
<1>2. bad \in SUBSET Nat
  OBVIOUS
<1>3. PICK m \in bad : \A x \in bad : m <= x
  <2> HIDE DEF bad
  <2> QED BY <1>1, <1>2, Least
<1>4. m \in 1..N
  OBVIOUS
<1>5. m - 1 \notin bad
  <2> HIDE DEF bad
  <2> QED BY <1>3, <1>4
<1> QED BY <1>4, <1>5

\* What Max chooses.
LEMMA MaxIs ==
  ASSUME NEW n \in Int, NEW s \in SUBSET Int, n \in s, \A x \in s : x <= n PROVE Max(s) = n
<1>1. \A y \in s : n >= y
  OBVIOUS
<1>2. Max(s) \in s /\ \A y \in s : Max(s) >= y
  BY <1>1, Zenon DEF Max
<1>3. Max(s) >= n /\ Max(s) <= n /\ Max(s) \in Int
  BY <1>2
<1> QED BY <1>3

\* Some places have a last.
LEMMA Greatest ==
  ASSUME NEW n \in Nat, NEW S \in SUBSET (1..n), S # {}
  PROVE  \E m \in S : \A x \in S : m >= x
<1> DEFINE T == {n - x : x \in S}
<1>1. T \in SUBSET Nat
  OBVIOUS
<1>2. T # {}
  <2>1. PICK x \in S : TRUE
    OBVIOUS
  <2>2. n - x \in T
    OBVIOUS
  <2> QED BY <2>2
<1>3. PICK m \in T : \A x \in T : m <= x
  <2> HIDE DEF T
  <2> QED BY <1>1, <1>2, Least
<1>4. PICK y \in S : m = n - y
  OBVIOUS
<1>5. ASSUME NEW x \in S PROVE y >= x
  <2>1. n - x \in T
    OBVIOUS
  <2>2. m <= n - x
    <3> HIDE DEF T
    <3> QED BY <2>1, <1>3
  <2> HIDE DEF T
  <2> QED BY <2>2, <1>4
<1> QED BY <1>5

LEMMA MaxIn == ASSUME NEW N \in Nat, NEW s \in SUBSET (1..N), s # {} PROVE Max(s) \in s
<1>1. \E m \in s : \A x \in s : m >= x
  BY Greatest
<1> QED BY <1>1, Zenon DEF Max

-------------------------------------------------------------------------------
\* The values of a fold over sets of the places 1..N, with a step given as the
\* function of the accumulated value and the place.
FoldsWith(it, base, N, step) ==
  \A s \in SUBSET (1..N) :
    it[s] = IF s = {} THEN base ELSE step[<<it[s \ {Max(s)}], Max(s)>>]

\* Such a fold exists: so it is what the CHOOSE of its definition yields.
LEMMA FoldExists ==
  ASSUME NEW V, NEW base \in V, NEW N \in Nat, NEW step \in [V \X (1..N) -> V]
  PROVE  \E it \in [SUBSET (1..N) -> V] : FoldsWith(it, base, N, step)
<1> DEFINE Folds(it, n) == \A s \in SUBSET (1..n) :
             it[s] = IF s = {} THEN base ELSE step[<<it[s \ {Max(s)}], Max(s)>>]
           S == {n \in 0..N : \E it \in [SUBSET (1..n) -> V] : Folds(it, n)}
<1>1. 0 \in S
  <2>1. SUBSET (1..0) = {{}}
    OBVIOUS
  <2>2. [s \in SUBSET (1..0) |-> base] \in [SUBSET (1..0) -> V]
    OBVIOUS
  <2>3. Folds([s \in SUBSET (1..0) |-> base], 0)
    BY <2>1
  <2> HIDE DEF Folds
  <2> QED BY <2>2, <2>3
<1>2. ASSUME NEW n \in 1..N, n - 1 \in S PROVE n \in S
  <2>1. PICK it \in [SUBSET (1..(n - 1)) -> V] : Folds(it, n - 1)
    BY <1>2
  <2> DEFINE more == [s \in SUBSET (1..n) |->
                        IF n \in s THEN step[<<it[s \ {n}], n>>] ELSE it[s]]
  <2>2. \A s \in SUBSET (1..n) : n \in s => s \ {n} \in SUBSET (1..(n - 1))
    OBVIOUS
  <2>3. \A s \in SUBSET (1..n) : n \notin s => s \in SUBSET (1..(n - 1))
    OBVIOUS
  <2>4. more \in [SUBSET (1..n) -> V]
    <3>1. \A s \in SUBSET (1..n) : n \in s => step[<<it[s \ {n}], n>>] \in V
      BY <2>2
    <3>2. \A s \in SUBSET (1..n) : n \notin s => it[s] \in V
      BY <2>3
    <3> QED BY <3>1, <3>2
  <2>5. ASSUME NEW s \in SUBSET (1..n)
        PROVE  more[s] = IF s = {} THEN base ELSE step[<<more[s \ {Max(s)}], Max(s)>>]
    <3>1. CASE n \in s
      <4>1. Max(s) = n
        BY <3>1, MaxIs
      <4>2. more[s \ {n}] = it[s \ {n}]
        BY <2>2, <3>1
      <4> QED BY <3>1, <4>1, <4>2
    <3>2. CASE n \notin s
      <4>1. s \in SUBSET (1..(n - 1)) /\ s \ {Max(s)} \in SUBSET (1..n)
        BY <2>3, <3>2
      <4>2. more[s] = it[s] /\ more[s \ {Max(s)}] = it[s \ {Max(s)}]
        BY <3>2, <4>1
      <4>3. it[s] = IF s = {} THEN base ELSE step[<<it[s \ {Max(s)}], Max(s)>>]
        BY <2>1, <4>1
      <4> HIDE DEF more
      <4> QED BY <4>2, <4>3
    <3> QED BY <3>1, <3>2
  <2>6. Folds(more, n)
    BY <2>5
  <2> HIDE DEF more, Folds
  <2> QED BY <2>4, <2>6
<1>3. N \in S
  <2> HIDE DEF S
  <2> QED BY <1>1, <1>2, Inductively
<1>4. PICK it \in [SUBSET (1..N) -> V] : Folds(it, N)
  BY <1>3
<1>5. FoldsWith(it, base, N, step)
  BY <1>4 DEF FoldsWith
<1> QED BY <1>5

\* A fold from left to right comes to the places one after the other.
LEMMA PrefixPlaces ==
  ASSUME NEW N \in Nat
  PROVE  /\ 1..0 = {} /\ {} \in SUBSET (1..N)
         /\ \A k \in 1..N : /\ 1..k \in SUBSET (1..N) /\ 1..k # {} /\ Max(1..k) = k
                            /\ (1..k) \ {k} = 1..(k - 1)
<1>1. ASSUME NEW k \in 1..N PROVE Max(1..k) = k
  <2>1. 1..k \in SUBSET Int /\ k \in 1..k /\ \A x \in 1..k : x <= k
    OBVIOUS
  <2> QED BY <2>1, MaxIs
<1>2. \A k \in 1..N : 1..k \in SUBSET (1..N) /\ 1..k # {} /\ (1..k) \ {k} = 1..(k - 1)
  OBVIOUS
<1> QED BY <1>1, <1>2

-------------------------------------------------------------------------------
\* A function that is defined from 0 on, one place after the other, exists.
GoesWith(g, base, N, step) == g[0] = base /\ \A k \in 1..N : g[k] = step[<<g[k - 1], k>>]

LEMMA StepsExist ==
  ASSUME NEW V, NEW base \in V, NEW N \in Nat, NEW step \in [V \X (1..N) -> V]
  PROVE  \E g \in [0..N -> V] : GoesWith(g, base, N, step)
<1>1. PICK it \in [SUBSET (1..N) -> V] : FoldsWith(it, base, N, step)
  BY FoldExists
<1> DEFINE g == [k \in 0..N |-> it[1..k]]
<1>2. g \in [0..N -> V]
  OBVIOUS
<1>3. g[0] = base
  <2>1. g[0] = it[{}] /\ {} \in SUBSET (1..N)
    BY PrefixPlaces
  <2> QED BY <1>1, <2>1 DEF FoldsWith
<1>4. ASSUME NEW k \in 1..N PROVE g[k] = step[<<g[k - 1], k>>]
  <2>1. g[k] = it[1..k] /\ g[k - 1] = it[1..(k - 1)]
    OBVIOUS
  <2>2. /\ 1..k \in SUBSET (1..N) /\ 1..k # {} /\ Max(1..k) = k
        /\ (1..k) \ {k} = 1..(k - 1)
    BY PrefixPlaces
  <2>3. it[1..k] = step[<<it[(1..k) \ {Max(1..k)}], Max(1..k)>>]
    BY <1>1, <2>2 DEF FoldsWith
  <2> QED BY <2>1, <2>2, <2>3
<1>5. GoesWith(g, base, N, step)
  BY <1>3, <1>4 DEF GoesWith
<1> HIDE DEF g
<1> QED BY <1>2, <1>5

\* FlattenSeq, one sequence after the other.
LEMMA FlattenSteps ==
  ASSUME NEW V, NEW seqs \in Seq(Seq(V))
  PROVE  \E g \in [0..Len(seqs) -> Seq(V)] :
           /\ g[0] = <<>> /\ \A k \in 1..Len(seqs) : g[k] = g[k - 1] \o seqs[k]
           /\ FlattenSeq(seqs) = g[Len(seqs)]
<1> DEFINE N == Len(seqs)
           step == [p \in Seq(V) \X (1..N) |-> p[1] \o seqs[p[2]]]
           body(f) == [i \in 1..N |-> IF i = 1 THEN seqs[i] ELSE f[i - 1] \o seqs[i]]
           flatten == CHOOSE f : f = body(f)
<1>1. /\ N \in Nat /\ <<>> \in Seq(V) /\ (N = 0 => seqs = <<>>)
      /\ \A i \in 1..N : seqs[i] \in Seq(V)
  BY LenProperties, ElementOfSeq, EmptySeq
<1>2. step \in [Seq(V) \X (1..N) -> Seq(V)]
  <2>1. ASSUME NEW p \in Seq(V) \X (1..N) PROVE p[1] \o seqs[p[2]] \in Seq(V)
    <3>1. p[1] \in Seq(V) /\ seqs[p[2]] \in Seq(V)
      BY <1>1
    <3> QED BY <3>1, ConcatProperties
  <2> QED BY <2>1
<1>3. PICK g \in [0..N -> Seq(V)] : GoesWith(g, <<>>, N, step)
  <2> HIDE DEF step, N
  <2> QED BY <1>1, <1>2, StepsExist
<1>4. g[0] = <<>> /\ \A k \in 1..N : g[k] = step[<<g[k - 1], k>>]
  <2> HIDE DEF step, N
  <2> QED BY <1>3 DEF GoesWith
<1>5. \A k \in 1..N : g[k] = g[k - 1] \o seqs[k]
  <2>1. ASSUME NEW k \in 1..N PROVE <<g[k - 1], k>> \in Seq(V) \X (1..N)
    <3> HIDE DEF N
    <3>1. k - 1 \in 0..N
      BY <1>1
    <3> QED BY <3>1
  <2> QED BY <1>4, <2>1
<1>6. \A k \in 1..N : g[k] = IF k = 1 THEN seqs[k] ELSE g[k - 1] \o seqs[k]
  <2>1. ASSUME 1 \in 1..N PROVE g[1] = seqs[1]
    <3>1. \A k \in 1..N : k = 1 => k - 1 = 0
      OBVIOUS
    <3>2. \A k \in 1..N : k = 1 => g[k] = g[0] \o seqs[k]
      <4> HIDE DEF N
      <4> QED BY <1>5, <3>1, Zenon
    <3>3. g[1] = <<>> \o seqs[1] /\ seqs[1] \in Seq(V)
      BY <1>1, <1>4, <2>1, <3>2
    <3> QED BY <3>3, ConcatEmptySeq
  <2> QED BY <1>5, <2>1
<1>7. \E f : f = body(f)
  <2> DEFINE f == [k \in 1..N |-> g[k]]
  <2>1. \A k \in 1..N : f[k] = IF k = 1 THEN seqs[k] ELSE f[k - 1] \o seqs[k]
    BY <1>1, <1>6
  <2>2. f = body(f)
    BY <2>1
  <2> HIDE DEF f, body
  <2> QED BY <2>2
<1>8. flatten = body(flatten)
  <2> HIDE DEF body
  <2> QED BY <1>7
<1>9. FlattenSeq(seqs) = IF N = 0 THEN seqs ELSE flatten[N]
  BY DEF FlattenSeq
<1>10. \A k \in 1..N : flatten[k] = IF k = 1 THEN seqs[k] ELSE flatten[k - 1] \o seqs[k]
  <2> HIDE DEF flatten
  <2> QED BY <1>8
<1> HIDE DEF flatten
<1> DEFINE S == {k \in 0..N : k > 0 => flatten[k] = g[k]}
<1>11. \A k \in 0..N : k \in S
  <2>1. 0 \in S
    BY <1>1
  <2>2. ASSUME NEW k \in 1..N, k - 1 \in S PROVE k \in S
    BY <1>1, <1>6, <1>10, <2>2
  <2> HIDE DEF S
  <2> QED BY <1>1, <2>1, <2>2, Inductively
<1>12. FlattenSeq(seqs) = g[N]
  BY <1>1, <1>4, <1>9, <1>11
<1> QED BY <1>4, <1>5, <1>12

LEMMA FlattenTyped == ASSUME NEW V, NEW seqs \in Seq(Seq(V)) PROVE FlattenSeq(seqs) \in Seq(V)
<1>1. PICK g \in [0..Len(seqs) -> Seq(V)] : FlattenSeq(seqs) = g[Len(seqs)]
  BY FlattenSteps
<1>2. Len(seqs) \in 0..Len(seqs)
  BY LenProperties
<1> QED BY <1>1, <1>2

\* One sequence more.
LEMMA FlattenMore ==
  ASSUME NEW V, NEW n \in Nat, NEW f, \A i \in 1..(n + 1) : f[i] \in Seq(V)
  PROVE  /\ FlattenSeq([i \in 1..n |-> f[i]]) \in Seq(V)
         /\ FlattenSeq([i \in 1..(n + 1) |-> f[i]]) =
              FlattenSeq([i \in 1..n |-> f[i]]) \o f[n + 1]
<1> DEFINE a == [i \in 1..n |-> f[i]]
           b == [i \in 1..(n + 1) |-> f[i]]
<1>1. a \in Seq(Seq(V)) /\ Len(a) = n /\ \A i \in 1..n : a[i] = f[i]
  OBVIOUS
<1>2. b \in Seq(Seq(V)) /\ Len(b) = n + 1 /\ \A i \in 1..(n + 1) : b[i] = f[i]
  OBVIOUS
<1> HIDE DEF a, b
<1>3. PICK g \in [0..n -> Seq(V)] :
        /\ g[0] = <<>> /\ \A k \in 1..n : g[k] = g[k - 1] \o f[k]
        /\ FlattenSeq(a) = g[n]
  <2>1. PICK g \in [0..Len(a) -> Seq(V)] :
        /\ g[0] = <<>> /\ \A k \in 1..Len(a) : g[k] = g[k - 1] \o a[k]
        /\ FlattenSeq(a) = g[Len(a)]
    BY <1>1, FlattenSteps
  <2> QED BY <1>1, <2>1
<1>4. PICK h \in [0..(n + 1) -> Seq(V)] :
        /\ h[0] = <<>> /\ \A k \in 1..(n + 1) : h[k] = h[k - 1] \o f[k]
        /\ FlattenSeq(b) = h[n + 1]
  <2>1. PICK h \in [0..Len(b) -> Seq(V)] :
        /\ h[0] = <<>> /\ \A k \in 1..Len(b) : h[k] = h[k - 1] \o b[k]
        /\ FlattenSeq(b) = h[Len(b)]
    BY <1>2, FlattenSteps
  <2> QED BY <1>2, <2>1
<1> DEFINE S == {k \in 0..n : g[k] = h[k]}
<1>5. \A k \in 0..n : k \in S
  <2>1. 0 \in S
    BY <1>3, <1>4
  <2>2. ASSUME NEW k \in 1..n, k - 1 \in S PROVE k \in S
    <3>1. k \in 1..(n + 1) /\ k \in 0..n /\ g[k - 1] = h[k - 1]
      BY <2>2
    <3>2. g[k] = g[k - 1] \o f[k] /\ h[k] = h[k - 1] \o f[k]
      BY <1>3, <1>4, <3>1
    <3> QED BY <3>1, <3>2
  <2> HIDE DEF S
  <2> QED BY <2>1, <2>2, Inductively
<1>6. FlattenSeq(b) = FlattenSeq(a) \o f[n + 1]
  <2>0. (n + 1) - 1 = n /\ n \in 0..n /\ n + 1 \in 1..(n + 1)
    OBVIOUS
  <2>1. h[n + 1] = h[n] \o f[n + 1]
    BY <1>4, <2>0, Zenon
  <2>2. h[n] = g[n]
    BY <1>5, <2>0
  <2> QED BY <1>3, <1>4, <2>1, <2>2
<1>7. FlattenSeq(a) \in Seq(V)
  BY <1>3
<1> QED BY <1>6, <1>7 DEF a, b
-------------------------------------------------------------------------------
\* A sum over some numbers that does not depend on the order.
SumsUp(sum, f, S) ==
  sum[{}] = 0 /\ \A s \in SUBSET S : \A x \in s : sum[s] = f[x] + sum[s \ {x}]

LEMMA SumsExist ==
  ASSUME NEW n \in Nat, NEW f, \A x \in 0..(n - 1) : f[x] \in Nat
  PROVE  \E sum \in [SUBSET (0..(n - 1)) -> Nat] : SumsUp(sum, f, 0..(n - 1))
<1> DEFINE D(k) == 0..(k - 1)
           Sums(sum, k) == sum[{}] = 0 /\ \A s \in SUBSET D(k) : \A x \in s : sum[s] = f[x] + sum[s \ {x}]
           S == {k \in 0..n : \E sum \in [SUBSET D(k) -> Nat] : Sums(sum, k)}
<1>1. 0 \in S
  <2>1. D(0) = {}
    OBVIOUS
  <2>2. [s \in SUBSET D(0) |-> 0] \in [SUBSET D(0) -> Nat] /\ Sums([s \in SUBSET D(0) |-> 0], 0)
    BY <2>1
  <2>3. \E sum \in [SUBSET D(0) -> Nat] : Sums(sum, 0)
    <3> HIDE DEF Sums, D
    <3> QED BY <2>2
  <2> HIDE DEF Sums, D
  <2> QED BY <2>3
<1>2. ASSUME NEW k \in 1..n, k - 1 \in S PROVE k \in S
  <2>1. PICK it \in [SUBSET D(k - 1) -> Nat] : Sums(it, k - 1)
    BY <1>2
  <2>2. /\ k - 1 \in Nat /\ k - 1 \in 0..(n - 1) /\ D(k) = D(k - 1) \cup {k - 1}
        /\ k - 1 \notin D(k - 1) /\ D(k - 1) \subseteq 0..(n - 1)
    OBVIOUS
  <2> HIDE DEF D
  <2> DEFINE more == [s \in SUBSET D(k) |->
                        IF k - 1 \in s THEN f[k - 1] + it[s \ {k - 1}] ELSE it[s]]
  <2>3. \A s \in SUBSET D(k) : /\ s \ {k - 1} \in SUBSET D(k - 1)
                               /\ k - 1 \notin s => s \in SUBSET D(k - 1)
    BY <2>2
  <2>4. more \in [SUBSET D(k) -> Nat]
    <3>1. ASSUME NEW s \in SUBSET D(k), k - 1 \in s PROVE f[k - 1] + it[s \ {k - 1}] \in Nat
      <4>1. f[k - 1] \in Nat /\ it[s \ {k - 1}] \in Nat
        BY <2>2, <2>3
      <4> QED BY <4>1
    <3>2. \A s \in SUBSET D(k) : k - 1 \notin s => it[s] \in Nat
      BY <2>3
    <3> QED BY <3>1, <3>2
  <2>5. ASSUME NEW s \in SUBSET D(k), NEW x \in s PROVE more[s] = f[x] + more[s \ {x}]
    <3>0. s \ {x} \in SUBSET D(k)
      OBVIOUS
    <3>1. CASE x = k - 1
      <4>1. more[s] = f[x] + it[s \ {x}] /\ more[s \ {x}] = it[s \ {x}]
        BY <3>0, <3>1
      <4> QED BY <4>1
    <3>2. CASE x # k - 1 /\ k - 1 \in s
      <4> DEFINE r == s \ {k - 1}
      <4>1. more[s] = f[k - 1] + it[r] /\ more[s \ {x}] = f[k - 1] + it[(s \ {x}) \ {k - 1}]
        BY <3>0, <3>2
      <4>2. r \in SUBSET D(k - 1) /\ x \in r /\ (s \ {x}) \ {k - 1} = r \ {x}
        BY <2>3, <3>2
      <4>3. it[r] = f[x] + it[r \ {x}]
        BY <2>1, <4>2
      <4>4. f[k - 1] \in Nat /\ f[x] \in Nat /\ it[r \ {x}] \in Nat
        BY <2>2, <4>2
      <4> HIDE DEF more
      <4>5. more[s] = f[k - 1] + (f[x] + it[r \ {x}]) /\ more[s \ {x}] = f[k - 1] + it[r \ {x}]
        BY <4>1, <4>2, <4>3
      <4> HIDE DEF r
      <4> QED BY <4>4, <4>5
    <3>3. CASE k - 1 \notin s
      <4>1. s \in SUBSET D(k - 1)
        BY <2>3, <3>3
      <4>2. more[s] = it[s] /\ more[s \ {x}] = it[s \ {x}]
        BY <3>0, <3>3
      <4> QED BY <2>1, <4>1, <4>2
    <3> QED BY <3>1, <3>2, <3>3
  <2>6. more[{}] = 0
    BY <2>1
  <2>7. Sums(more, k)
    BY <2>5, <2>6
  <2> HIDE DEF more, Sums
  <2> QED BY <2>4, <2>7
<1>3. n \in S
  <2> HIDE DEF S
  <2> QED BY <1>1, <1>2, Inductively
<1>4. PICK sum \in [SUBSET D(n) -> Nat] : Sums(sum, n)
  BY <1>3
<1>5. SumsUp(sum, f, 0..(n - 1))
  BY <1>4 DEF SumsUp
<1> QED BY <1>5

\* Natural numbers at some of the places 0, 1, ..., n-1.
Summable(f, S) == \E n \in Nat : S \subseteq 0..(n - 1) /\ \A x \in S : f[x] \in Nat

LEMMA SummablePart == ASSUME NEW f, NEW S, Summable(f, S), NEW s \in SUBSET S PROVE Summable(f, s)
BY DEF Summable

LEMMA SumIs ==
  ASSUME NEW f, NEW S, Summable(f, S), NEW sum, SumsUp(sum, f, S)
  PROVE  SumFunctionOnSet(f, S) = sum[S]
<1> DEFINE some(s) == CHOOSE x \in s : TRUE
           body(it) == [s \in SUBSET S |-> IF s = {} THEN 0 ELSE f[some(s)] + it[s \ {some(s)}]]
           iter == CHOOSE it : it = body(it)
<1>1. \A s : s # {} => some(s) \in s
  OBVIOUS
<1> HIDE DEF some
<1>2. \E it : it = body(it)
  <2> DEFINE it == [s \in SUBSET S |-> sum[s]]
  <2>1. ASSUME NEW s \in SUBSET S
        PROVE it[s] = IF s = {} THEN 0 ELSE f[some(s)] + it[s \ {some(s)}]
    BY <1>1 DEF SumsUp
  <2>2. it = body(it)
    BY <2>1
  <2> HIDE DEF it, body
  <2> QED BY <2>2
<1>3. iter = body(iter)
  <2> HIDE DEF body
  <2> QED BY <1>2
<1>4. SumFunctionOnSet(f, S) = iter[S]
  BY DEF SumFunctionOnSet, FoldFunctionOnSet, MapThenFoldSet, some
<1> HIDE DEF iter
<1>5. \A s \in SUBSET S : iter[s] = IF s = {} THEN 0 ELSE f[some(s)] + iter[s \ {some(s)}]
  BY <1>3
<1>6. IsFiniteSet(S) /\ Cardinality(S) \in Nat
  <2>1. PICK n \in Nat : S \subseteq 0..(n - 1)
    BY DEF Summable
  <2>2. IsFiniteSet(0..(n - 1))
    BY FS_Interval
  <2> QED BY <2>1, <2>2, FS_Subset, FS_CardinalityType
<1> DEFINE K == {k \in 0..Cardinality(S) : \A s \in SUBSET S : Cardinality(s) = k => iter[s] = sum[s]}
<1>7. 0 \in K
  <2>1. \A s \in SUBSET S : Cardinality(s) = 0 => s = {}
    BY <1>6, FS_Subset, FS_EmptySet
  <2>2. iter[{}] = 0 /\ sum[{}] = 0
    BY <1>5 DEF SumsUp
  <2>3. \A s \in SUBSET S : Cardinality(s) = 0 => iter[s] = sum[s]
    BY <2>1, <2>2, Zenon
  <2> QED BY <1>6, <2>3
<1>8. ASSUME NEW k \in 1..Cardinality(S), k - 1 \in K PROVE k \in K
  <2>1. SUFFICES ASSUME NEW s \in SUBSET S, Cardinality(s) = k PROVE iter[s] = sum[s]
    BY <1>6
  <2> DEFINE x == some(s)
  <2>0. Cardinality({}) = 0 /\ k # 0
    BY FS_EmptySet
  <2>2. IsFiniteSet(s) /\ s # {} /\ x \in s
    <3>1. IsFiniteSet(s)
      BY <1>6, FS_Subset
    <3>2. s # {}
      BY <2>0, <2>1
    <3> QED BY <1>1, <3>1, <3>2
  <2>3. Cardinality(s \ {x}) = k - 1 /\ s \ {x} \in SUBSET S
    BY <1>6, <2>1, <2>2, FS_RemoveElement
  <2>4. iter[s \ {x}] = sum[s \ {x}]
    BY <1>8, <2>3
  <2>5. sum[s] = f[x] + sum[s \ {x}]
    BY <2>2 DEF SumsUp
  <2> HIDE DEF x
  <2> QED BY <1>5, <2>2, <2>4, <2>5 DEF x
<1>9. Cardinality(S) \in K
  <2>1. \A k \in 0..Cardinality(S) : k \in K
    <3> HIDE DEF K
    <3> QED BY <1>6, <1>7, <1>8, Inductively
  <2>2. Cardinality(S) \in 0..Cardinality(S)
    BY <1>6
  <2> HIDE DEF K
  <2> QED BY <2>1, <2>2
<1> QED BY <1>4, <1>9

LEMMA SumFound ==
  ASSUME NEW f, NEW S, Summable(f, S)
  PROVE  \E sum \in [SUBSET S -> Nat] :
           /\ SumsUp(sum, f, S)
           /\ \A s \in SUBSET S : SumFunctionOnSet(f, s) = sum[s]
<1>0. PICK n \in Nat : S \subseteq 0..(n - 1) /\ \A x \in S : f[x] \in Nat
  BY DEF Summable
<1> DEFINE h == [x \in 0..(n - 1) |-> IF x \in S THEN f[x] ELSE 0]
<1>1. \A x \in 0..(n - 1) : h[x] \in Nat
  BY <1>0
<1>2. PICK all \in [SUBSET (0..(n - 1)) -> Nat] : SumsUp(all, h, 0..(n - 1))
  <2> HIDE DEF h
  <2> QED BY <1>1, SumsExist
<1> DEFINE sum == [s \in SUBSET S |-> all[s]]
<1>3. sum \in [SUBSET S -> Nat]
  BY <1>0
<1>4. \A x \in S : h[x] = f[x]
  BY <1>0
<1>5. SumsUp(sum, f, S)
  <2>1. sum[{}] = 0
    BY <1>2 DEF SumsUp
  <2>2. ASSUME NEW s \in SUBSET S, NEW x \in s PROVE sum[s] = f[x] + sum[s \ {x}]
    <3>1. all[s] = h[x] + all[s \ {x}] /\ s \ {x} \in SUBSET S
      <4> HIDE DEF h
      <4> QED BY <1>0, <1>2 DEF SumsUp
    <3> HIDE DEF h
    <3> QED BY <1>4, <3>1
  <2> HIDE DEF sum
  <2> QED BY <2>1, <2>2 DEF SumsUp
<1> HIDE DEF sum, h
<1>6. ASSUME NEW s \in SUBSET S PROVE SumFunctionOnSet(f, s) = sum[s]
  <2>1. SumsUp(sum, f, s) /\ Summable(f, s)
    BY <1>5, SummablePart DEF SumsUp
  <2> QED BY <2>1, SumIs
<1> QED BY <1>3, <1>5, <1>6

\* A sum over some numbers, and what one of them adds to it.
LEMMA SumOf ==
  ASSUME NEW f, NEW S, Summable(f, S)
  PROVE  /\ SumFunctionOnSet(f, S) \in Nat
         /\ S = {} => SumFunctionOnSet(f, S) = 0
         /\ \A x \in S : SumFunctionOnSet(f, S) = f[x] + SumFunctionOnSet(f, S \ {x})
<1>1. PICK sum \in [SUBSET S -> Nat] :
        /\ SumsUp(sum, f, S)
        /\ \A s \in SUBSET S : SumFunctionOnSet(f, s) = sum[s]
  BY SumFound
<1>2. ASSUME NEW x \in S PROVE SumFunctionOnSet(f, S) = f[x] + SumFunctionOnSet(f, S \ {x})
  <2>1. S \ {x} \in SUBSET S /\ sum[S] = f[x] + sum[S \ {x}]
    BY <1>1 DEF SumsUp
  <2> QED BY <1>1, <2>1
<1>3. SumFunctionOnSet(f, S) = sum[S] /\ sum[S] \in Nat /\ sum[{}] = 0
  BY <1>1 DEF SumsUp
<1> QED BY <1>2, <1>3

\* It depends on nothing else.
LEMMA SumSame ==
  ASSUME NEW f, NEW S, Summable(f, S),
         NEW g, \A x \in S : g[x] = f[x]
  PROVE  SumFunctionOnSet(g, S) = SumFunctionOnSet(f, S)
<1>1. PICK sum \in [SUBSET S -> Nat] :
        /\ SumsUp(sum, f, S)
        /\ \A s \in SUBSET S : SumFunctionOnSet(f, s) = sum[s]
  BY SumFound
<1>2. SumsUp(sum, g, S) /\ Summable(g, S)
  BY <1>1 DEF SumsUp, Summable
<1>3. SumFunctionOnSet(g, S) = sum[S]
  BY <1>2, SumIs
<1> QED BY <1>1, <1>3

\* More at one number.
LEMMA SumAdd ==
  ASSUME NEW f, NEW S, Summable(f, S),
         NEW b \in S, NEW more \in Nat, NEW g, g[b] = f[b] + more, \A y \in S : y # b => g[y] = f[y]
  PROVE  SumFunctionOnSet(g, S) = SumFunctionOnSet(f, S) + more
<1>1. Summable(f, S \ {b}) /\ f[b] \in Nat /\ Summable(g, S)
  <2>1. PICK n \in Nat : S \subseteq 0..(n - 1) /\ \A x \in S : f[x] \in Nat
    BY DEF Summable
  <2>2. ASSUME NEW x \in S PROVE g[x] \in Nat
    BY <2>1
  <2> QED BY <2>1, <2>2, SummablePart DEF Summable
<1>2. SumFunctionOnSet(g, S \ {b}) = SumFunctionOnSet(f, S \ {b})
  BY <1>1, SumSame
<1>3. SumFunctionOnSet(g, S) = g[b] + SumFunctionOnSet(g, S \ {b})
  BY <1>1, SumOf
<1>4. SumFunctionOnSet(f, S) = f[b] + SumFunctionOnSet(f, S \ {b})
  BY SumOf
<1>5. SumFunctionOnSet(f, S \ {b}) \in Nat
  BY <1>1, SumOf
<1> QED BY <1>1, <1>2, <1>3, <1>4, <1>5

\* One number more.
LEMMA SumGrow ==
  ASSUME NEW f, NEW S, Summable(f, S), NEW b \in Nat, b \notin S,
         NEW g, g[b] \in Nat, \A y \in S : g[y] = f[y], NEW T, T = S \cup {b}
  PROVE  SumFunctionOnSet(g, T) = SumFunctionOnSet(f, S) + g[b]
<1>1. T \ {b} = S /\ b \in T
  OBVIOUS
<1>2. Summable(g, T)
  <2>1. PICK n \in Nat : S \subseteq 0..(n - 1) /\ \A x \in S : f[x] \in Nat
    BY DEF Summable
  <2>2. PICK m \in Nat : n <= m /\ b < m
    <3>1. n + b + 1 \in Nat /\ n <= n + b + 1 /\ b < n + b + 1
      OBVIOUS
    <3> QED BY <3>1
  <2>3. T \subseteq 0..(m - 1)
    BY <2>1, <2>2
  <2>4. \A x \in T : g[x] \in Nat
    BY <2>1
  <2> QED BY <2>2, <2>3, <2>4 DEF Summable
<1>3. SumFunctionOnSet(g, S) = SumFunctionOnSet(f, S) /\ SumFunctionOnSet(f, S) \in Nat
  BY SumSame, SumOf
<1>4. SumFunctionOnSet(g, T) = g[b] + SumFunctionOnSet(g, S)
  BY <1>1, <1>2, SumOf
<1> QED BY <1>3, <1>4

LEMMA SumZero ==
  ASSUME NEW f, NEW S, Summable(f, S), \A x \in S : f[x] = 0
  PROVE  SumFunctionOnSet(f, S) = 0
<1> DEFINE sum == [s \in SUBSET S |-> 0]
<1>1. SumsUp(sum, f, S)
  BY DEF SumsUp
<1>2. sum[S] = 0
  OBVIOUS
<1> HIDE DEF sum
<1> QED BY <1>1, <1>2, SumIs

\* A sum over places of a sequence, when the sequence gets longer.
LEMMA SumNext ==
  ASSUME NEW N \in Nat, NEW S \in SUBSET (1..N), NEW f, \A x \in 1..N : f[x] \in Nat,
         NEW g, \A x \in 1..N : g[x] = f[x], g[N + 1] \in Nat
  PROVE  /\ SumFunctionOnSet(f, S) \in Nat
         /\ SumFunctionOnSet(g, S) = SumFunctionOnSet(f, S)
         /\ SumFunctionOnSet(g, S \cup {N + 1}) = SumFunctionOnSet(f, S) + g[N + 1]
<1> DEFINE b == N + 1
<1>1. b \in Nat /\ b \notin S /\ 1..N \subseteq 0..(b - 1) /\ g[b] \in Nat
  OBVIOUS
<1>2. g[N + 1] = g[b] /\ S \cup {N + 1} = S \cup {b}
  OBVIOUS
<1> HIDE DEF b
<1>3. Summable(f, S)
  BY <1>1 DEF Summable
<1>4. \A x \in S : g[x] = f[x]
  OBVIOUS
<1>5. SumFunctionOnSet(f, S) \in Nat
  BY <1>3, SumOf
<1>6. SumFunctionOnSet(g, S) = SumFunctionOnSet(f, S)
  BY <1>3, <1>4, SumSame
<1>7. SumFunctionOnSet(g, S \cup {b}) = SumFunctionOnSet(f, S) + g[b]
  <2>1. PICK s, T : s = S /\ T = S \cup {b}
    OBVIOUS
  <2>2. /\ Summable(f, s) /\ b \in Nat /\ b \notin s /\ g[b] \in Nat
        /\ \A x \in s : g[x] = f[x]
        /\ T = s \cup {b}
    BY <1>1, <1>3, <1>4, <2>1
  <2>3. SumFunctionOnSet(g, T) = SumFunctionOnSet(f, s) + g[b]
    BY ONLY <2>2, SumGrow
  <2> QED BY <2>1, <2>3
<1> QED BY <1>2, <1>5, <1>6, <1>7
===============================================================================
