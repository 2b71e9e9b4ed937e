SPECIFICATION RecoverySpec
CONSTANTS
  c1 = c1
  p1 = p1
  p2 = p2
  r1 = r1
  Cards = {c1}
  Processes = {p1, p2}
  Recoverers = {r1}
  Capacity = 1
  None = None
  Orphan = Orphan
  MaxGen = 2
  MaxHead = 1
  MaxFaults = 1
SYMMETRY Symmetry
INVARIANTS GenerationFenced EvidenceFollowsLedger
PROPERTY NeverRepeated
CHECK_DEADLOCK FALSE
