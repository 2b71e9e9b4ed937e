-------------------------- MODULE MCSchedulerRecovery --------------------------
(* One card, two processes that admit it and one that recovers it. *)
EXTENDS SchedulerRecovery, TLC

CONSTANTS c1, p1, p2, r1

Symmetry == Permutations(Processes)
=============================================================================
