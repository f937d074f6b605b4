SPECIFICATION FairPanelSpec
CONSTANTS
  Count = 2
  MaxLines = 4
  MaxRuns = 2
  PanelLines = 2
INVARIANTS NothingLost EveryProbeCounted ProcessStopped PanelTellsTruth
PROPERTIES ButtonsReturn
CHECK_DEADLOCK FALSE
