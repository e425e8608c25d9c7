SPECIFICATION MachineSpec
CONSTANTS
  None = None
  States <- AllStates
  Moves <- AllMoves
  PlainStates <- FivePlain
  HookPanics = TRUE
  MaxRetries = 3
  Users <- TwoUsers
  Pins <- TwoUsers
  Amounts <- ThreeAmounts
  Readings <- ThreeReadings
  Limit = 2
  CountBound = 3
INVARIANTS
  TypeOK
  HooksBracketed
  AtMostOneInside
  ContextMatchesState
  WaitingHasTimer
  AttemptsBounded
  CountsMatchEvents
  LimitsHold
PROPERTIES
  SwitchOnlyAfterEntry
  TimeoutsResolve
