------------------------------ MODULE MCQueue ------------------------------
(* Queue on a small instance: see MCQueue.cfg. *)
EXTENDS Queue
=============================================================================
