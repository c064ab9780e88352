-------------------------------- MODULE PRCurve -------------------------------
(***************************************************************************)
(* SummaryWriter::PRCurve: predictions are put, one by one, between edges  *)
(* that histogramEdges makes of the number of thresholds, and the weights  *)
(* summed up from the last edge to the first.                              *)
(*                                                                         *)
(* A prediction is a multiple of 1/Unit.  Edge i lies at i*(T-1)/T for T   *)
(* thresholds.  The edges are added up in floating point: the last one, at *)
(* i = T, is exactly T-1 for some T, a little below it for others, and for *)
(* others, 127 among them, a little above the range and left out.  Which,  *)
(* is chosen at the start; other edges are too far from an integer for the *)
(* rounding to matter, and so are the predictions taken to be.             *)
(***************************************************************************)
EXTENDS Integers, SequencesExt, FiniteSetsExt

CONSTANTS Thresholds,  \* numbers of thresholds
          Unit,        \* predictions are 0, 1/Unit, ..., 1
          Weights,     \* vectors of weights, which may be too short
          MaxSamples   \* bound: labels and predictions

CurveAssumption ==
  /\ Thresholds \subseteq Nat \ {0} /\ Unit \in Nat \ {0} /\ MaxSamples \in Nat
  /\ Weights \subseteq Seq(Nat)

VARIABLES threshold, last, weights,  \* the arguments, and the last edge
          samples,                   \* labels and predictions read so far
          truePositives, falsePositives,
          overrun                    \* the vectors were indexed past their end

vars == <<threshold, last, weights, samples, truePositives, falsePositives, overrun>>

\* histogramEdges: with one threshold the range is empty and has one edge.
Edges(t, l) == 0..(IF t = 1 \/ l = "missing" THEN t - 1 ELSE t)

Init ==
  /\ threshold \in Thresholds /\ last \in {"exact", "below", "missing"}
  /\ weights \in Weights /\ samples = <<>>
  /\ truePositives = [e \in Edges(threshold, last) |-> 0]
  /\ falsePositives = [e \in Edges(threshold, last) |-> 0]
  /\ overrun = FALSE

-------------------------------------------------------------------------------
\* The prediction, cut to an int.
Item(t, p) == (p * (t - 1)) \div Unit

\* The first edge that is not below the item, Cardinality(Edges) for none, and
\* whether it is the item.  What is compared past the end may be anything.
Below(t, l, e, item) == e * (t - 1) < item * t \/ (e = t /\ l = "below" /\ item = t - 1 /\ t > 1)

LowerBound(t, l, item) == Cardinality({e \in Edges(t, l) : Below(t, l, e, item)})

IsItem(t, l, e, item) ==
  IF e \in Edges(t, l) THEN {e * (t - 1) = item * t} ELSE BOOLEAN

\* Slip: an item counts for the edge behind it.
BucketsAfter(t, l, item) == {LowerBound(t, l, item)}

\* The buckets the item may be counted in: the edge's, or the one before.
Buckets(t, l, item) ==
  LET e == LowerBound(t, l, item) IN
  {IF exact THEN e ELSE e - 1 : exact \in IsItem(t, l, e, item)}

Weight(i) == IF i <= Len(weights) THEN weights[i] ELSE 1

Add(counts, b, n) == IF b \in DOMAIN counts THEN [counts EXCEPT ![b] = @ + n] ELSE counts

\* One round of the loop over the labels.
Take(label, p) ==
  LET w == Weight(Len(samples) + 1) IN
  /\ Len(samples) < MaxSamples
  /\ samples' = Append(samples, [label |-> label, item |-> Item(threshold, p), p |-> p])
  /\ \E b \in Buckets(threshold, last, Item(threshold, p)) :
       /\ truePositives' = Add(truePositives, b, label * w)
       /\ falsePositives' = Add(falsePositives, b, (1 - label) * w)
       /\ overrun' = (overrun \/ b \notin DOMAIN truePositives)
  /\ UNCHANGED <<threshold, last, weights>>

Next == \E label \in {0, 1}, p \in 0..Unit : Take(label, p)

Spec == Init /\ [][Next]_vars

\* What is logged if the samples end here: sums from the last edge down.
Cumulative(counts) ==
  [e \in DOMAIN counts |-> SumFunctionOnSet(counts, {f \in DOMAIN counts : e <= f})]

Negatives(counts) == [e \in DOMAIN counts |-> Cumulative(counts)[0] - Cumulative(counts)[e]]

-------------------------------------------------------------------------------
TypeOK ==
  /\ threshold \in Thresholds /\ last \in {"exact", "below", "missing"} /\ weights \in Weights
  /\ samples \in Seq([label : {0, 1}, item : 0..(threshold - 1), p : 0..Unit])
  /\ truePositives \in [Edges(threshold, last) -> Nat]
  /\ falsePositives \in [Edges(threshold, last) -> Nat]
  /\ overrun \in BOOLEAN

\* The definition: the weight of the samples of a label that a threshold
\* accepts, or rejects.
Weighed(which) == SumFunctionOnSet([s \in DOMAIN samples |-> Weight(s)], which)
Accepted(label, i) ==
  Weighed({s \in DOMAIN samples : samples[s].label = label /\ i <= samples[s].item})
Rejected(label, i) ==
  Weighed({s \in DOMAIN samples : samples[s].label = label /\ i > samples[s].item})

\* PRCurve's confusion matrix, at each of the thresholds 0, ..., T-1, however
\* the edges are rounded: true and false positives and negatives are the
\* weights of the predictions at or above the threshold, and below.
ThresholdsMatch ==
  ~overrun => \A i \in 0..(threshold - 1) :
    /\ Cumulative(truePositives)[i] = Accepted(1, i)
    /\ Cumulative(falsePositives)[i] = Accepted(0, i)
    /\ Negatives(truePositives)[i] = Rejected(1, i)
    /\ Negatives(falsePositives)[i] = Rejected(0, i)

\* PRCurve reads past the last edge, and may write past the vectors, only if a
\* prediction is 1 and the last edge is not exact.
OverrunAtOne == overrun => last # "exact" /\ \E s \in ToSet(samples) : s.p = Unit

\* What PRCurve logs of any samples: the confusion matrix of each threshold,
\* unless a prediction of 1 has led it past the last edge.
CurveOfSamples == ThresholdsMatch /\ OverrunAtOne
===============================================================================
