SPECIFICATION Spec
CONSTANTS
  r1 = r1
  r2 = r2
  m1 = m1
  m2 = m2
  None = None
  Runs = {r1}
  Managers <- MCManagers
  MaxFaults = 2
SYMMETRY SymmetricManagers
INVARIANTS
  LeasedKept
