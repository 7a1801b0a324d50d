SPECIFICATION FairSpec
CONSTANTS
  o1 = o1
  o2 = o2
  c1 = c1
  c2 = c2
  Owners = {o1, o2}
  Calls = {c1, c2}
  Reaper = Reaper
  Nobody = Nobody
  Leases = {1,2}
  Reaping = TRUE
  MaxCalls = 3
  MaxTime = 1
  MaxFaults = 1
INVARIANT TypeOK
INVARIANT RowsExclude
INVARIANT GrantsAreBacked
INVARIANT AnswersAreTrue
PROPERTY LiveRowsAreSafe
PROPERTY EverythingSettles
CHECK_DEADLOCK FALSE
