------------------------- MODULE MCWorkerSlotLease -------------------------
(***************************************************************************)
(* WorkerSlotLease on a small instance: one kind with its two slots and    *)
(* two worktrees, so that an acquire can be refused for a duplicate        *)
(* worktree as well as for want of a slot.                                 *)
(***************************************************************************)
EXTENDS WorkerSlotLease, TLC

CONSTANT k1

MCKindOf == <<k1, k1>>

MCSymmetry == Permutations(Clients) \cup Permutations(Worktrees)
=============================================================================
