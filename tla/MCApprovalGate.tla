--------------------------- MODULE MCApprovalGate ---------------------------
(***************************************************************************)
(* ApprovalGate on a small instance: two callers, two approval ids and     *)
(* three file names, so that a grant, its revoke and a second grant fit.   *)
(***************************************************************************)
EXTENDS ApprovalGate, TLC

MCSymmetry == Permutations(Callers) \cup Permutations(Approvals)
                \cup Permutations(Events)
=============================================================================
