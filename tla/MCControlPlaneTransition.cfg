CONSTANTS
  Callers = {c1, c2}
  Types <- DeliveryTypes
  BlockValid <- AnyBlock
  ResumeTo = {"ready"}
  Reviews = {1}
  MaxEvents = 6
  MaxHead = 1
  NoFile = NoFile
  NoRequest = NoRequest
  NotRead = NotRead
  Free = Free
SPECIFICATION Spec
SYMMETRY MCSymmetry
INVARIANTS DispatchTraceable AcceptedWasDelivered OneDispatchPerAttempt
PROPERTIES LedgerFollowsEvents StaleDispatchFenced ImplementsTaskLog
