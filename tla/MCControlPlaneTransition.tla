---------------------- MODULE MCControlPlaneTransition ----------------------
(***************************************************************************)
(* ControlPlaneTransition on small instances.  Two callers are enough for  *)
(* every race on the state lock; the two passing runs differ in the event  *)
(* types that are asked for, so that each goes far enough in its own       *)
(* direction, and together they ask for all sixteen.                       *)
(***************************************************************************)
EXTENDS ControlPlaneTransition, TLC

\* From the draft to the integrated task, with a second dispatch after a
\* failure or a returned delivery.
DeliveryTypes ==
  {"TASK_SPECIFIED", "TASK_DISPATCHED", "DISPATCH_ACKNOWLEDGED",
   "DELIVERY_SUBMITTED", "DELIVERY_ACCEPTED", "DELIVERY_RETURNED",
   "TASK_REQUEUED", "DISPATCH_FAILED", "CHANGE_INTEGRATED",
   "INTEGRATION_FAILED"}

\* A task that is blocked anywhere and unblocked in every way, cancelled or
\* superseded.
BlockerTypes ==
  {"TASK_SPECIFIED", "TASK_DISPATCHED", "DISPATCH_ACKNOWLEDGED",
   "TASK_BLOCKED", "BLOCKER_RESOLVED", "BLOCKER_RESCOPED",
   "BLOCKER_CANCELLED", "TASK_CANCELLED", "TASK_SUPERSEDED"}

AllTypes == DOMAIN From

\* A blocked attempt that is declared valid or not, and as the Orchestrator's
\* input checks allow: not valid, except where an integration has failed.
AnyBlock == [type \in Blocking |-> BOOLEAN]
OrchestratorBlock ==
  [TASK_BLOCKED |-> {FALSE}, INTEGRATION_FAILED |-> {TRUE}]

MCSymmetry == Permutations(Callers)
=============================================================================
