------------------------------ MODULE MCUsers ------------------------------
(* Users on small instances: see MCUsers*.cfg. *)
EXTENDS Users, TLC

MCFirst == [name |-> "alice", password |-> "p", level |-> 3]

\* Clients do not differ.
MCSymmetry == Permutations(Clients)
=============================================================================
