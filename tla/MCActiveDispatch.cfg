CONSTANTS
  Orchestrators = {o1, o2, o3}
  Dispatches = {d1, d2}
  MaxAttempt = 2
  Platforms = {"posix", "win32"}
  NoDispatch = NoDispatch
  NoOrchestrator = NoOrchestrator
  Free = Free
SPECIFICATION Spec
SYMMETRY MCSymmetry
INVARIANTS EvidenceBacksLedger TombstoneIsFinal RecoveredWasDead OnlyCurrentWorkerRuns RetryTruthful
CHECK_DEADLOCK FALSE
