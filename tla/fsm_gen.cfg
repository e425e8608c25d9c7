SPECIFICATION Spec
CONSTANTS
  Unset = Unset
  LowerCase <- Lower
  Workspaces <- AllWorkspaces
  Settings <- SomeSettings
  OldDiagrams <- Leftovers
  OtherFiles <- Notes
  StackDepth = 4
CHECK_DEADLOCK FALSE
INVARIANTS
  FilesSurvive
  NothingStale
  AcyclicAllDrawn
  LastDefinitionDrawn
  CrashOnlyOnCycle
PROPERTY Terminates
