-------------------------- MODULE MCActiveDispatch --------------------------
(***************************************************************************)
(* ActiveDispatch on small instances.  Orchestrator processes and dispatch *)
(* ids are interchangeable; the runs of safety properties use that.        *)
(***************************************************************************)
EXTENDS ActiveDispatch, TLC

MCSymmetry == Permutations(Orchestrators) \cup Permutations(Dispatches)
=============================================================================
