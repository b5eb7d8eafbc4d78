--------------------------- MODULE MCRuntimeBranch ---------------------------
(* Small instances of RuntimeBranch for TLC.                               *)
EXTENDS RuntimeBranch, TLC

CONSTANTS w1, w2
=============================================================================
