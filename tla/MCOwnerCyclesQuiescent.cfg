CONSTANTS
  Callers = {c1, c2}
  Kinds = {"ADVANCED_AGENT"}
  MaxAttempt = 2
  MaxRevision = 1
  MaxAudits = 2
  NoCycle = NoCycle
  Free = Free
SPECIFICATION Spec
SYMMETRY MCSymmetry
PROPERTIES EndsQuiescent
CHECK_DEADLOCK FALSE
