---------------------------- MODULE MCFileWriter ----------------------------
(* Model-checking instance of FileWriter. *)
EXTENDS FileWriter, TLC

CONSTANTS p1, p2, w

MCItems == {p1, p2} \X (1..MaxEvents)
MCItems1 == {p1} \X (1..MaxEvents)

Symmetry == Permutations({p1, p2})
=============================================================================
