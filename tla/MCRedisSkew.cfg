SPECIFICATION Spec
CONSTANTS
  o1 = o1
  o2 = o2
  Owners = {o1, o2}
  NoOwner = NoOwner
  Leases = {0, 2}
  Offset <- Ahead
  MaxDelay = 1
  MaxCalls = 2
  MaxFence = 2
  MaxCount = 1
  MaxTime = 4
INVARIANTS
  ExclusionUpToSkew
  RunningLeasesAreKept
PROPERTIES
  OldCallsTouchNothing
CHECK_DEADLOCK FALSE
