SPECIFICATION MonitorSpec
CONSTANTS
  t1 = t1  t2 = t2  t3 = t3
  m1 = m1
  Off = Off  On = On
  None = None
  Callers = {t1, t2, t3}
  Instances <- OneInstance
  Target <- Shared
  States <- TwoStates
  InitStates <- StartOff
  Moves <- Toggle
  QueueCapacity = 2
  CounterSize = 3
  HookPanics = TRUE
  MaxCalls = 2
  MaxPeriods = 2
CHECK_DEADLOCK FALSE
SYMMETRY Symmetry
INVARIANTS
  TypeOK
  LockInv
  ExactlyOnce
  OvertakenOnlyIfStranded
  DropsAccounted
PROPERTIES
  FailStop
  ImplementsLifecycle
