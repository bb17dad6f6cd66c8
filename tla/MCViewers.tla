----------------------------- MODULE MCViewers -----------------------------
(* Viewers on small instances. *)
EXTENDS Viewers, TLC

Symmetry == Permutations(Viewers)
=============================================================================
