SPECIFICATION Spec
CONSTANTS
  h1 = h1
  h2 = h2
  h3 = h3
  a = a
  b = b
  Owners = {a, b}
  Handles <- TrioHandles
  OwnerOf <- TrioOwner
  ModeOf <- TrioMode
  LeaseOf <- TrioLease
  Watched <- FirstWatched
  Ops <- TrioOps
  Concurrent = TRUE
  Faults = {"timeout", "drop"}
  MaxFaults = 1
INVARIANT TypeOK
INVARIANT FencingOrdersConflict
INVARIANT OneRenewalPerHold
INVARIANT EveryHoldIsReleasable
INVARIANT AlarmMeansLoss
INVARIANT CountIsUnreleased
CHECK_DEADLOCK FALSE
