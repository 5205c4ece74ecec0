---------------------------- MODULE MCVersionSet ----------------------------
(* The version set, for TLC. *)
EXTENDS VersionSet
=============================================================================
