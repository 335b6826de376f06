----------------------------- MODULE MCAlerting -----------------------------
(* Alerting on small instances: two nodes, one of them in the rule's group.*)
EXTENDS Alerting, TLC

HashSymmetry == Permutations(Hashes)
=============================================================================
