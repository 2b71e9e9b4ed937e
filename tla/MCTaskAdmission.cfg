SPECIFICATION AdmissionSpec
CONSTANTS
  c1 = c1
  c2 = c2
  p1 = p1
  p2 = p2
  Cards = {c1, c2}
  Processes = {p1, p2}
  Capacity = 1
  None = None
  Orphan = Orphan
  MaxGen = 1
  MaxHead = 4
  MaxMoves = 1
  MaxSeq = 2
  MaxFaults = 0
SYMMETRY Symmetry
INVARIANTS OneCommit ReceiptsTruthful InOrder
PROPERTY ImplementsScheduler
CHECK_DEADLOCK FALSE
