--------------------------- MODULE MCOutputControl ---------------------------
(* Small instances of OutputControl for TLC.                               *)
EXTENDS OutputControl
=============================================================================
