--------------------------- MODULE MCTaskAdmission ---------------------------
(* Two cards, which may depend on one another, and two threads. *)
EXTENDS TaskAdmission, TLC

CONSTANTS c1, c2, p1, p2

Symmetry == Permutations(Cards) \cup Permutations(Processes)
=============================================================================
