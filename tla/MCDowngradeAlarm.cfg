SPECIFICATION Spec
CONSTANTS
  h1 = h1
  h2 = h2
  h3 = h3
  a = a
  b = b
  Owners = {a}
  Handles <- OneHandle
  OwnerOf <- OneOwner
  ModeOf <- OneWrite
  LeaseOf <- OneLease
  Watched <- OneHandle
  Ops <- OneDowngrade
  Concurrent = FALSE
  Faults = {}
  MaxFaults = 0
INVARIANT NoAlarmFromDowngrade
CHECK_DEADLOCK FALSE
