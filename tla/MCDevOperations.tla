--------------------------- MODULE MCDevOperations ---------------------------
(* DevOperations for TLC: everything is interchangeable.                   *)
EXTENDS DevOperations, TLC

Symm == Permutations(Cert) \cup Permutations(Run) \cup Permutations(User) \cup Permutations(Hardware)
=============================================================================
