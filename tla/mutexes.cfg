SPECIFICATION MutexFairSpec
CONSTANTS
  t1 = t1  t2 = t2  t3 = t3
  m1 = m1  m2 = m2
  Off = Off  On = On
  None = None
  Callers = {t1, t2, t3}
  Instances <- TwoInstances
  Target <- Apart
  States <- OneState
  InitStates <- StartOff
  Moves <- ToItself
  QueueCapacity = 1
  CounterSize = 256
  HookPanics = TRUE
  MaxCalls = 2
CHECK_DEADLOCK FALSE
INVARIANTS
  MutexInv
  ContendedOnlyAcross
PROPERTY GuardsAreDropped
