----------------------------- MODULE MCFileStore -----------------------------
(* FileStore on a small instance, for TLC.                                 *)
EXTENDS FileStore, TLC

Values == Permutations(Value)
=============================================================================
