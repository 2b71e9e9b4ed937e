CONSTANTS
  Callers = {c1, c2}
  Types <- BlockerTypes
  BlockValid <- OrchestratorBlock
  ResumeTo = {"ready"}
  Reviews = {1}
  MaxEvents = 5
  MaxHead = 0
  NoFile = NoFile
  NoRequest = NoRequest
  NotRead = NotRead
  Free = Free
SPECIFICATION Spec
SYMMETRY MCSymmetry
INVARIANTS DispatchMatchesState
PROPERTIES EvidenceImmutable
