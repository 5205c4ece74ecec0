---------------------------- MODULE MCDurability ----------------------------
(* The storage engine's path to disk, for TLC. *)
EXTENDS Durability
=============================================================================
