-------------------------- MODULE MCNodeInventory --------------------------
(* NodeInventory on small instances: who acts together.                    *)
EXTENDS NodeInventory, TLC

CONSTANTS e1, e2, m1, m2, w1, w2

MCCasts == {{e1, m1}, {m1, m2}, {e1, e2}, {e1, w1}, {w1, w2}}
=============================================================================
