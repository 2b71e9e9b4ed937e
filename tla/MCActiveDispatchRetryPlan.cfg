CONSTANTS
  Orchestrators = {o1, o2}
  Dispatches = {d1, d2, d3}
  MaxAttempt = 3
  Platforms = {"posix"}
  NoDispatch = NoDispatch
  NoOrchestrator = NoOrchestrator
  Free = Free
SPECIFICATION Spec
SYMMETRY MCSymmetry
INVARIANTS RetryReadsItsOwnReceipt
CHECK_DEADLOCK FALSE
