SPECIFICATION Spec
CONSTANTS
  r1 = r1
  r2 = r2
  m1 = m1
  m2 = m2
  None = None
  Runs <- MCRuns
  Managers <- MCManagers
  MaxFaults = 1
SYMMETRY Symmetric
INVARIANTS
  Resumable
