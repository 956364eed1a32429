---------------------------- MODULE SchemaVersion ----------------------------
(***************************************************************************)
(* What the migrations of the database promise: the schema is at one       *)
(* version, moves up one version at a time, never past the release's own   *)
(* and never back. A database may be newer than the release.               *)
(***************************************************************************)
EXTENDS Integers

CONSTANT Supported          \* CURRENT_SCHEMA_VERSION, a positive number

VARIABLE version

Init == version \in 0 .. Supported + 1

Migrate == version < Supported /\ version' = version + 1

Spec == Init /\ [][Migrate]_version
=============================================================================
