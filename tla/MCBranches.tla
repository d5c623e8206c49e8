---------------------------- MODULE MCBranches ----------------------------
(* Branches for TLC: the requests are interchangeable, and so are the fixes. *)
EXTENDS Branches, TLC

Symmetry == Permutations(Requests) \cup Permutations(Fixes)
=============================================================================
