SPECIFICATION TfaSpec
CONSTANTS
  Posters <- MCPosters
  MaxPrompts = 1
INVARIANT AcknowledgedIsUsed
CHECK_DEADLOCK FALSE
