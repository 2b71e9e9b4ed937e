SPECIFICATION ReviewSpec
CONSTANTS
  op1 = op1
  op2 = op2
  op3 = op3
  c1 = c1
  c2 = c2
  Ops = {op1, op2, op3}
  Callers = {c1, c2}
  FastForward = {}
  Clashes <- NoClash
  Rework <- ThirdReworksFirst
  None = None
  MaxPushes = 0
  MaxFaults = 0
  MaxHead = 0
SYMMETRY Symmetry
INVARIANT UserActionable
CHECK_DEADLOCK FALSE
