------------------------- MODULE MCDemoDistribution -------------------------
(* Instances of DemoDistribution for TLC.                                  *)
EXTENDS DemoDistribution, TLC

CONSTANTS c1, c2, a1, a2, a3

Symmetry == Permutations(Attempt) \cup Permutations(Customer)
=============================================================================
