SPECIFICATION Spec
CONSTANTS
  MaxDevices = 3
  MaxStarts = 4
  MaxFaults = 1
INVARIANTS
  TypeOK
  CodeOnce
  RenewsAlone
  AccountIsWhole
CHECK_DEADLOCK FALSE
