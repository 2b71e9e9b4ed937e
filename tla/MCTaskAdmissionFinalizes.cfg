SPECIFICATION FairSpec
CONSTANTS
  c1 = c1
  c2 = c2
  p1 = p1
  p2 = p2
  Cards = {c1}
  Processes = {p1}
  Capacity = 1
  None = None
  Orphan = Orphan
  MaxGen = 1
  MaxHead = 2
  MaxMoves = 1
  MaxSeq = 1
  MaxFaults = 0
PROPERTY AdmittedFinalizes
CHECK_DEADLOCK FALSE
