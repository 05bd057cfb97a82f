---------------------------- MODULE MCMigrations ----------------------------
(* Migrations on small instances: see MCMigrations*.cfg. *)
EXTENDS Migrations
=============================================================================
