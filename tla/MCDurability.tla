---------------------------- MODULE MCDurability ----------------------------
(* Durability for TLC.                                                     *)
EXTENDS Durability
=============================================================================
