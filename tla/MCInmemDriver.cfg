SPECIFICATION Spec
CONSTANTS
  o1 = o1
  o2 = o2
  none = none
  Owners <- MCOwners
  NoOwner = none
  Leases <- MCLeases
  MaxFence = 2
  MaxCount = 2
  MaxTime = 3
INVARIANT TypeOK
INVARIANT AnswersAreTrue
PROPERTY Contract
PROPERTY CallsAreSteps
SYMMETRY MCSymmetry
CHECK_DEADLOCK FALSE
