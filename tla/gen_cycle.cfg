SPECIFICATION Spec
CONSTANTS
  Unset = Unset
  LowerCase <- Lower
  Workspaces <- AllWorkspaces
  Settings <- SomeSettings
  OldDiagrams <- Leftovers
  OtherFiles <- Notes
  StackDepth = 4
CHECK_DEADLOCK FALSE
INVARIANT EveryMachineDrawn
