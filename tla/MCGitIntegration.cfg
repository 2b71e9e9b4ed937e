SPECIFICATION Spec
CONSTANTS
  op1 = op1
  op2 = op2
  op3 = op3
  c1 = c1
  c2 = c2
  Ops = {op1, op2, op3}
  Callers = {c1, c2}
  FastForward = {op3}
  Clashes <- Clash
  None = None
  MaxPushes = 1
  MaxFaults = 1
SYMMETRY Symmetry
INVARIANT FinalizedIsInTarget
INVARIANT ClashesKeptApart
PROPERTY NothingLost
CHECK_DEADLOCK FALSE
