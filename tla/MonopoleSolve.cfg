SPECIFICATION Spec
CONSTANTS
  r1 = r1
  r2 = r2
  Ranks = {r1, r2}
  NParts = 1
  LastStage = 4
  RunNTimes = 2
  HostBuild = FALSE
INVARIANTS
  WholeStar
  SameSpacetime
  LapseOfLastCycle
PROPERTIES
  StagesComplete
