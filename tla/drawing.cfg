SPECIFICATION Spec
CONSTANTS
  Sources <- AllSources
  Events <- TwoEvents
  Conditions <- TwoConditions
  Capitalised <- Names
CHECK_DEADLOCK FALSE
INVARIANTS
  ParsesDeclaration
  EveryMoveDrawn
  EdgesSound
  LabelsRetrace
PROPERTY EveryMacroEnds
