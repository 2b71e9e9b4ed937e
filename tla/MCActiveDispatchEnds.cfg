CONSTANTS
  Orchestrators = {o1, o2}
  Dispatches = {d1, d2}
  MaxAttempt = 2
  Platforms = {"posix", "win32"}
  NoDispatch = NoDispatch
  NoOrchestrator = NoOrchestrator
  Free = Free
SPECIFICATION FairSpec
PROPERTIES CycleEnds
CHECK_DEADLOCK FALSE
