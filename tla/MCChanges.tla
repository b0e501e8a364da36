----------------------------- MODULE MCChanges -----------------------------
(* Changes on a small instance, for TLC.                                   *)
EXTENDS Changes, TLC

Alike == Permutations(Collection) \cup Permutations(Id)
           \cup Permutations(Value)
=============================================================================
