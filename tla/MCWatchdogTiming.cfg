SPECIFICATION Spec
CONSTANTS
  Size = 3
  Lease = 30
  Swing = 2
  MaxTrip = 1
  MaxWait = 2
  MaxFaults = 2
INVARIANT TypeOK
INVARIANT NoSilentLapse
INVARIANT HealthyGroupsLast
INVARIANT AlarmInTime
INVARIANT ReleaseIsPrompt
CHECK_DEADLOCK FALSE
