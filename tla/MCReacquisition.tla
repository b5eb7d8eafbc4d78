--------------------------- MODULE MCReacquisition ---------------------------
(* Instances of Reacquisition for TLC: a video gate and an audio gate. *)
EXTENDS Reacquisition, TLC

Symmetry == Permutations(Gates)
=============================================================================
