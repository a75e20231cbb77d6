---------------------------- MODULE MCCommandApi ----------------------------
(* CommandApi for TLC: requests are interchangeable.                       *)
EXTENDS CommandApi, TLC

MCSymmetry == Permutations(Request)
=============================================================================
