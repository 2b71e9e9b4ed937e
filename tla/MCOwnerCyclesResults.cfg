\* Two properties that do not hold: with both, TLC shows the first; without the
\* line of the first, the second.
CONSTANTS
  Callers = {c1, c2}
  Kinds = {"STANDARD_AGENT", "ADVANCED_AGENT"}
  MaxAttempt = 3
  MaxRevision = 1
  MaxAudits = 2
  NoCycle = NoCycle
  Free = Free
SPECIFICATION Spec
SYMMETRY MCSymmetry
INVARIANT VerdictOfDelivery
INVARIANT EscalatesKind
CHECK_DEADLOCK FALSE
