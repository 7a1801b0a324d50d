SPECIFICATION Spec
CONSTANTS
  o1 = o1
  o2 = o2
  c1 = c1
  c2 = c2
  Owners = {o1}
  Calls = {c1, c2}
  Reaper = Reaper
  Nobody = Nobody
  Leases = {1,2}
  Reaping = TRUE
  MaxCalls = 2
  MaxTime = 1
  MaxFaults = 0
INVARIANT NoGrantWithoutRow
CHECK_DEADLOCK FALSE
