SPECIFICATION Spec
CONSTANTS
  o1 = o1
  o2 = o2
  o3 = o3
  Owners <- MCOwners
  Leases <- MCLeases
  MaxFence = 4
  MaxCount = 2
INVARIANT TypeOK
INVARIANT MutualExclusion
INVARIANT FenceNamesOneHold
PROPERTY FencesRise
SYMMETRY MCSymmetry
CHECK_DEADLOCK FALSE
