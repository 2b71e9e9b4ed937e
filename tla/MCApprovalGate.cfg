CONSTANTS
  Callers = {c1, c2}
  Actions = {dispatch}
  Approvals = {a1, a2}
  Events = {e1, e2, e3}
  MaxClock = 1
  MaxHead = 1
  Lifetime = 1
  NoFile = NoFile
  NoCall = NoCall
  NotRead = NotRead
  Free = Free
SPECIFICATION Spec
SYMMETRY MCSymmetry
INVARIANTS EvidenceLoadable OneActiveGrant
PROPERTIES UsesApproved
