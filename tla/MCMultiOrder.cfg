SPECIFICATION DiligentSpec
CONSTANTS
  g1 = g1
  g2 = g2
  g3 = g3
  a = a
  b = b
  Groups <- ThreeGroups
  Keys = {1, 2}
  KeysOf <- Twisted
  Owners = {a, b}
  OwnerOf <- ThreeOwners
  LeaseOf <- ThreeLeases
  Watched <- NoneWatched
  Lapses = FALSE
  Faults = {"timeout"}
  MaxFaults = 1
INVARIANT HeldGroupsAreBacked
INVARIANT NoCircularWait
PROPERTY EveryoneGetsThrough
CHECK_DEADLOCK FALSE
