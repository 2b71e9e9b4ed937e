CONSTANTS
  Callers = {c1, c2}
  Types <- AllTypes
  BlockValid <- OrchestratorBlock
  ResumeTo = {"ready"}
  Reviews = {1}
  MaxEvents = 4
  MaxHead = 0
  NoFile = NoFile
  NoRequest = NoRequest
  NotRead = NotRead
  Free = Free
SPECIFICATION Spec
SYMMETRY MCSymmetry
INVARIANTS ReplayedWasCommitted
