---------------------------- MODULE MCMigrations ----------------------------
(* Migrations with the versions of this release. *)
EXTENDS Migrations, Schema
=============================================================================
