SPECIFICATION Spec
CONSTANTS
  Rounds = 15
  ButtonAt = 5
  EmergencyAt = 10
  Lag = 3
CHECK_DEADLOCK FALSE
INVARIANT NoConflictingGreens
