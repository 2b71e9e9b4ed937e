--------------------------- MODULE MCDeliveryReview ---------------------------
(* Two deliveries of two tasks, and a rework of the first; two callers. *)
EXTENDS DeliveryReview, TLC

CONSTANTS op1, op2, op3, c1, c2

NoClash == {}
Clash == {{op1, op2}}
ThirdReworksFirst == op3 :> op1 @@ op1 :> None @@ op2 :> None
\* Bound: HEAD moves or there is a fault, and not both.
OneTrouble == faults + head <= 1

Symmetry == Permutations(Callers)
=============================================================================
