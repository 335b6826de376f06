---------------------------- MODULE MCScheduler ----------------------------
(* Scheduler on small instances.                                           *)
EXTENDS Scheduler, TLC

Symmetry == Permutations(Nodes) \cup Permutations(Hashes)
HashSymmetry == Permutations(Hashes)

(* Liveness is checked without symmetry; which configuration the devices   *)
(* begin with makes no difference.                                         *)
FirstHash == CHOOSE h \in Hashes : TRUE
MCInit    == Init /\ \A n \in Nodes : device[n] = <<FirstHash>>
MCFairSpec == MCInit /\ [][Next]_vars /\ Fairness
=============================================================================
