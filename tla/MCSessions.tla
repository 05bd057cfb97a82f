----------------------------- MODULE MCSessions -----------------------------
(* Sessions on a small instance: see MCSessions.cfg. *)
EXTENDS Sessions
=============================================================================
