SPECIFICATION Spec
CONSTANTS
  o1 = o1
  o2 = o2
  Owners = {o1, o2}
  NoOwner = NoOwner
  Leases = {1, 2}
  Offset <- NoOffset
  MaxDelay = 0
  MaxCalls = 1
  MaxFence = 2
  MaxCount = 2
  MaxTime = 3
SYMMETRY OwnerSymmetry
INVARIANTS
  TypeOK
PROPERTIES
  Contract
CHECK_DEADLOCK FALSE
