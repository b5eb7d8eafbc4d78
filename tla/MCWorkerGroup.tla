--------------------------- MODULE MCWorkerGroup ---------------------------
(* WorkerGroup for TLC: the number of workers is given in the .cfg. *)
EXTENDS WorkerGroup

=============================================================================
