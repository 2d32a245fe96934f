SPECIFICATION Spec
CONSTANTS
  MaxDevices = 2
  MaxStarts = 3
  MaxFaults = 0
INVARIANT RenewsWithoutYou
CHECK_DEADLOCK FALSE
