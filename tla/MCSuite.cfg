SPECIFICATION FairSpec
CONSTANTS
  Plan <- MCPlan
  Options <- MCOptions
  Throughputs = {0, 1, 2}
  MaxInvocations = 2
INVARIANTS
  TypeOK
  OneBrokerAtATime
  UpInsideWindow
  LeavesNothing
  WindowsDisjoint
  ReportsLastUnlessDry
  AbortMarksLastRow
  UnfinishedHasNoNumbers
  AverageIsSound
  RowsOnce
PROPERTIES
  InvocationEnds
CHECK_DEADLOCK FALSE
