SPECIFICATION FairSpec
CONSTANTS
  h1 = h1
  h2 = h2
  h3 = h3
  a = a
  b = b
  Owners = {a}
  Handles <- PairHandles
  OwnerOf <- PairOwner
  ModeOf <- PairMode
  LeaseOf <- PairLease
  Watched <- PairHandles
  Ops <- PairOps
  Concurrent = FALSE
  Faults = {"timeout", "drop", "crash"}
  MaxFaults = 1
CHECK_DEADLOCK FALSE
PROPERTY LossIsNoticed
PROPERTY CallsReturn
PROPERTY CrashFreesTheKey
