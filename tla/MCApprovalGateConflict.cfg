CONSTANTS
  Callers = {c1, c2}
  Actions = {dispatch, accept}
  Approvals = {a1, a2}
  Events = {e1, e2, e3}
  MaxClock = 2
  MaxHead = 1
  Lifetime = 1
  NoFile = NoFile
  NoCall = NoCall
  NotRead = NotRead
  Free = Free
SPECIFICATION Spec
SYMMETRY MCSymmetry
INVARIANTS ConflictMeansActive
