CONSTANTS
  Clients = {c1, c2}
  k1 = k1
  Kinds = {k1}
  KindOf <- MCKindOf
  Worktrees = {w1, w2}
  TTL = 2
  MaxClock = 2
  MaxEpoch = 2
  NoLease = NoLease
  Raised = Raised
  NoStore = NoStore
  NoCall = NoCall
  Free = Free
  Orphan = Orphan
SPECIFICATION Spec
SYMMETRY MCSymmetry
INVARIANTS OwnersExclusive FencedBodyOwnsSlot
PROPERTIES EpochsFence NoLiveEviction
