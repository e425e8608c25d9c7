SPECIFICATION FairSpec
CONSTANTS
  t1 = t1  t2 = t2  t3 = t3
  m1 = m1  m2 = m2
  Off = Off  On = On  Fault = Fault
  None = None
  Callers = {t1, t2}
  Instances <- OneInstance
  Target <- Shared
  States <- TwoStates
  InitStates <- StartOff
  Moves <- Toggle
  QueueCapacity = 1
  CounterSize = 256
  HookPanics = FALSE
  MaxCalls = 2
CHECK_DEADLOCK FALSE
PROPERTY QueuedIsHandledLater
