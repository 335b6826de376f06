----------------------------- MODULE MCLineDiff -----------------------------
(* LineDiff on all pairs of short configurations.                           *)
EXTENDS LineDiff, TLC

Symmetry == Permutations(Lines)
=============================================================================
