------------------------------ MODULE MCHistogram -----------------------------
(* Edges that leave out values below, between and above. *)
EXTENDS Histogram

MCBinSets == {<<0>>, <<-4, 4>>, <<-3, 0, 5, 6>>, <<-4, 0, 8, 17>>}
MCValues == {-17, -4, -3, 0, 1, 2, 4, 6, 11, 17}
MCFloats == {v \in MCValues : v % Grain = 0}
===============================================================================
