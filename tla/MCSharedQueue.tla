---------------------------- MODULE MCSharedQueue ----------------------------
(* Model-checking instance of SharedQueue. *)
EXTENDS SharedQueue, TLC

CONSTANTS p1, p2, c1, c2, x, y

Symmetry == Permutations({p1, p2}) \cup Permutations({c1, c2}) \cup Permutations({x, y})
==============================================================================
