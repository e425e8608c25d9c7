SPECIFICATION IsrFairSpec
CONSTANTS
  main = main  low = low  high = high
  m1 = m1
  Off = Off  On = On
  None = None
  Callers = {main, low, high}
  Priority <- Levels
  Instances <- OneInstance
  Target <- Shared
  States <- TwoStates
  InitStates <- StartOff
  Moves <- Toggle
  QueueCapacity = 1
  CounterSize = 256
  HookPanics = FALSE
  MaxCalls = 2
CHECK_DEADLOCK FALSE
INVARIANTS
  IsrInv
PROPERTY EveryCallReturns
