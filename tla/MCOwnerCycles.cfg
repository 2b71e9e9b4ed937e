CONSTANTS
  Callers = {c1, c2}
  Kinds = {"ADVANCED_AGENT"}
  MaxAttempt = 3
  MaxRevision = 2
  MaxAudits = 2
  NoCycle = NoCycle
  Free = Free
SPECIFICATION Spec
SYMMETRY MCSymmetry
CONSTRAINT TwoAuditsEarly
INVARIANTS VerdictCarriedOut EscalatesLast
PROPERTIES NeverCancelsRunning
CHECK_DEADLOCK FALSE
