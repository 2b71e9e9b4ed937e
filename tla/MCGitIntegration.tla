--------------------------- MODULE MCGitIntegration ---------------------------
(* Three deliveries, two of which conflict, and two callers. *)
EXTENDS GitIntegration, TLC

CONSTANTS op1, op2, op3, c1, c2

Clash == {{op1, op2}}
Symmetry == Permutations(Callers)
=============================================================================
