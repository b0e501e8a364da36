------------------------------- MODULE MCPages -------------------------------
(* Pages on small instances, for TLC.                                       *)
EXTENDS Pages, TLC

Readers == Permutations(Reader)
=============================================================================
