CONSTANTS
  Callers = {c1}
  Kinds = {"ADVANCED_AGENT"}
  MaxAttempt = 3
  MaxRevision = 1
  MaxAudits = 3
  NoCycle = NoCycle
  Free = Free
SPECIFICATION Spec
INVARIANTS IntegratesAccepted
CHECK_DEADLOCK FALSE
