CONSTANTS
  Orchestrators = {o1, o2}
  Dispatches = {d1, d2}
  MaxAttempt = 2
  Platforms = {"posix"}
  NoDispatch = NoDispatch
  NoOrchestrator = NoOrchestrator
  Free = Free
SPECIFICATION Spec
SYMMETRY MCSymmetry
INVARIANTS NoRecoveryOfRunningWorker
CHECK_DEADLOCK FALSE
