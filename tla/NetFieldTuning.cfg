SPECIFICATION Spec
CONSTANTS
  r1 = r1
  r2 = r2
  Ranks = {r1, r2}
  NParts = 1
  NStages = 2
  NSteps = 5
  InitialTime = 0
  Dt = 2
  Cadence = 3
  StartTime = 1
INVARIANTS
  FiducialRemoved
  TotalsOfTheStep
  SameScaleEverywhere
  NoReductionLeftActive
PROPERTIES
  TuningCompletes
