---------------------------- MODULE MCUserAdmin ----------------------------
(* UserAdmin on small instances.                                           *)
EXTENDS UserAdmin, TLC

Symmetry == Permutations(Ids) \cup Permutations(Requests)
=============================================================================
