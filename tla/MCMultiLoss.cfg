SPECIFICATION FairSpec
CONSTANTS
  g1 = g1
  g2 = g2
  g3 = g3
  a = a
  b = b
  Groups <- TwoGroups
  Keys = {1, 2}
  KeysOf <- Crossed
  Owners = {a, b}
  OwnerOf <- TwoOwners
  LeaseOf <- TwoLeases
  Watched <- OneWatched
  Lapses = TRUE
  Faults = {"timeout", "drop"}
  MaxFaults = 1
INVARIANT NothingLeftBehind
INVARIANT GroupsAreFenced
PROPERTY GroupLossIsTotal
PROPERTY ReleaseReturns
CHECK_DEADLOCK FALSE
