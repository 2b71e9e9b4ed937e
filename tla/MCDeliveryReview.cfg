SPECIFICATION ReviewSpec
CONSTANTS
  op1 = op1
  op2 = op2
  op3 = op3
  c1 = c1
  c2 = c2
  Ops = {op1, op2, op3}
  Callers = {c1, c2}
  FastForward = {}
  Clashes <- Clash
  Rework <- ThirdReworksFirst
  None = None
  MaxPushes = 1
  MaxFaults = 1
  MaxHead = 1
SYMMETRY Symmetry
CONSTRAINT OneTrouble
INVARIANT IntegratedIsInTarget
INVARIANT MergedWasAccepted
INVARIANT ReviewFollowsLedger
CHECK_DEADLOCK FALSE
