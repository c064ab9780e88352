------------------------------- MODULE Histogram ------------------------------
(***************************************************************************)
(* SummaryWriter::Histogram: values are counted one by one into the        *)
(* buckets between given edges, or between the edges of the overload that  *)
(* has none, and the buckets that are not empty become a HistogramProto.   *)
(*                                                                         *)
(* A double is an integer, a float a multiple of Grain: a value is cut to  *)
(* a float before it is counted.  Sums and squares are left out.           *)
(***************************************************************************)
EXTENDS Integers, SequencesExt, FiniteSetsExt

CONSTANTS Values,     \* the doubles in a vector of values
          BinSets,    \* the edges a caller may give
          Grain,      \* the distance of two floats
          FloatMax,   \* the largest float
          DoubleMax,  \* the largest double
          MaxValues   \* bound: the length of the vector

Infinity == DoubleMax + 1
Lowest == -DoubleMax

Ascending(s) == \A i, j \in DOMAIN s : i < j => s[i] < s[j]

HistogramAssumption ==
  /\ Grain \in Nat \ {0} /\ MaxValues \in Nat
  /\ FloatMax \in Nat /\ FloatMax % Grain = 0 /\ DoubleMax \in Nat /\ FloatMax < DoubleMax
  /\ Values \subseteq Lowest..DoubleMax
  /\ BinSets \subseteq Seq(Lowest..DoubleMax) /\ \A edges \in BinSets : Ascending(edges)

VARIABLES bins, values,  \* the arguments; values as far as the loop has come
          counts,        \* counts[k]: values in the bucket that ends at edge k
          min, max,
          overrun        \* counts was indexed past its end

vars == <<bins, values, counts, min, max, overrun>>

\* Some numbers from the least to the greatest.
InOrder(S) ==
  [n \in 1..Cardinality(S) |-> CHOOSE k \in S : Cardinality({j \in S : j <= k}) = n]

\* The overload without bins: edges that double from 1, in place of 1.1 from
\* 1e-12, and their negatives.
Edges(pos) == Reverse([i \in DOMAIN pos |-> -pos[i]]) \o pos

Powers(limit) == {2^k : k \in 0..limit} \cap 1..(limit - 1)
DefaultEdges == Edges(Append(InOrder(Powers(FloatMax)), DoubleMax))

Init ==
  /\ bins \in BinSets \cup {DefaultEdges} /\ values = <<>>
  /\ counts = [k \in DOMAIN bins |-> 0]
  /\ min = DoubleMax /\ max = Lowest /\ overrun = FALSE

-------------------------------------------------------------------------------
\* double to float: the nearest multiple, of two the even one.
Narrow(v) ==
  LET q == v \div Grain
      r == 2 * (v % Grain)
      f == (IF r > Grain \/ (r = Grain /\ q % 2 = 1) THEN q + 1 ELSE q) * Grain
  IN IF f > FloatMax THEN Infinity ELSE IF f < -FloatMax THEN -Infinity ELSE f

\* The first edge that is not below the value, or the end of the bins.
LowerBound(v) == Cardinality({k \in DOMAIN bins : bins[k] < v}) + 1

Count(k) ==
  IF k \in DOMAIN counts
  THEN counts' = [counts EXCEPT ![k] = @ + 1] /\ UNCHANGED overrun
  ELSE overrun' = TRUE /\ UNCHANGED counts

Extremes(v) ==
  IF v > max THEN max' = v /\ UNCHANGED min
  ELSE UNCHANGED max /\ min' = IF v < min THEN v ELSE min

\* One round of the loop.
Take(v) ==
  /\ Len(values) < MaxValues /\ values' = Append(values, v)
  /\ Count(LowerBound(Narrow(v))) /\ Extremes(Narrow(v))
  /\ UNCHANGED bins

Next == \E v \in Values : Take(v)

Spec == Init /\ [][Next]_vars

\* The buckets of the HistogramProto that is logged if the values end here.

\* Slip: every edge becomes a limit, only the counts are compacted.
BucketsOfAll == [i \in DOMAIN SelectSeq(counts, LAMBDA n : n > 0) |->
                   [limit |-> bins[i], count |-> SelectSeq(counts, LAMBDA n : n > 0)[i]]]

Buckets ==
  LET full == InOrder({k \in DOMAIN counts : counts[k] > 0})
  IN [i \in DOMAIN full |-> [limit |-> bins[full[i]], count |-> counts[full[i]]]]

-------------------------------------------------------------------------------
TypeOK ==
  /\ bins \in BinSets \cup {DefaultEdges} /\ values \in Seq(Values)
  /\ counts \in [DOMAIN bins -> Nat] /\ min \in Int /\ max \in Int /\ overrun \in BOOLEAN

\* What the loop keeps: the counts are those of the values so far, and so are
\* the extremes, except that a value above all before it is no minimum.
Tallied ==
  /\ \A k \in DOMAIN bins :
       counts[k] = Cardinality({j \in DOMAIN values : LowerBound(Narrow(values[j])) = k})
  /\ overrun <=> \E j \in DOMAIN values : LowerBound(Narrow(values[j])) \notin DOMAIN bins

Bounds ==
  /\ \A j \in DOMAIN values : Narrow(values[j]) <= max
  /\ max = Lowest \/ \E j \in DOMAIN values : max = Narrow(values[j])
  /\ min = DoubleMax \/ \E j \in DOMAIN values : min = Narrow(values[j])
  /\ \A i, j \in DOMAIN values :
       i < j /\ Narrow(values[j]) <= Narrow(values[i]) => min <= Narrow(values[j])

\* The ranges summary.proto gives the buckets, and no value left out.
InRange(v, i) == v <= Buckets[i].limit /\ (i > 1 => Buckets[i - 1].limit < v)

Match(vs) ==
  /\ \A i \in DOMAIN Buckets :
       Buckets[i].count = Cardinality({j \in DOMAIN vs : InRange(vs[j], i)})
  /\ \A j \in DOMAIN vs : \E i \in DOMAIN Buckets : InRange(vs[j], i)

\* Histogram's buckets, the empty ones of which are not written: each counts
\* the values of its range, cut to floats, and every value is counted.
BucketRange ==
  ~overrun => Match([j \in DOMAIN values |-> Narrow(values[j])])

\* Histogram indexes past the end of counts when, and only when, a value is
\* above the caller's last edge as a float, or, with the default edges, is too
\* large for a float.
OverrunAbove ==
  overrun <=> \E v \in ToSet(values) :
    IF bins = DefaultEdges THEN Narrow(v) = Infinity
                           ELSE \A k \in DOMAIN bins : bins[k] < Narrow(v)

\* The extremes Histogram logs of values that fit a float: the maximum always,
\* the minimum unless it is the first value and no other, for the first is
\* taken as a maximum only.
ExtremesButFirst ==
  LET floats == {Narrow(v) : v \in ToSet(values)} IN
  floats # {} /\ floats \subseteq -FloatMax..FloatMax =>
    /\ max = Max(floats)
    /\ (\E j \in 2..Len(values) : Narrow(values[j]) = Min(floats)) => min = Min(floats)

\* What Histogram logs of any vector of values: buckets that count it, the
\* counts of which are overrun for no other value than those too large, and its
\* extremes but for a minimum that comes first.
SummaryOfValues == BucketRange /\ OverrunAbove /\ ExtremesButFirst

\* summary.proto: the field min is the minimum of the values.
MinIsMinimum ==
  values # <<>> => \A v \in ToSet(values) : min <= Narrow(v)
===============================================================================
