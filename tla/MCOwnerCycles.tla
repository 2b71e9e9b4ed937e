---------------------------- MODULE MCOwnerCycles ----------------------------
(***************************************************************************)
(* OwnerCycles on small instances: two callers, so that any cycle can be   *)
(* overtaken by another one.                                               *)
(***************************************************************************)
EXTENDS OwnerCycles, TLC

MCSymmetry == Permutations(Callers)

\* Bound: there are two audit results only in the first two attempts of the
\* first revision, and in the second of them one cycle at a time; after that
\* there is one result.
TwoAuditsEarly ==
  \/ Cardinality(audits) <= 1
  \/ /\ ledger.revision = 1
     /\ \/ ledger.attempt <= 1
        \/ ledger.attempt = 2 /\ \E c \in Callers : pc[c] = "idle"
=============================================================================
