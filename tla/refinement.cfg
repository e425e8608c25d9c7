SPECIFICATION FairSpec
CONSTANTS
  t1 = t1  t2 = t2  t3 = t3
  m1 = m1  m2 = m2
  Off = Off  On = On  Fault = Fault
  None = None
  Callers = {t1, t2}
  Instances <- TwoInstances
  Target <- Apart
  States <- ThreeStates
  InitStates <- StartOff
  Moves <- Cycle
  QueueCapacity = 1
  CounterSize = 256
  HookPanics = TRUE
  MaxCalls = 3
CHECK_DEADLOCK FALSE
PROPERTIES
  ImplementsSerial
  EveryCallReturns
  DrainedByHolder
