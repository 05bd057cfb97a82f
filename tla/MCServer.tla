------------------------------ MODULE MCServer ------------------------------
(* Server and DataKey on a small instance. *)
EXTENDS Server
=============================================================================
