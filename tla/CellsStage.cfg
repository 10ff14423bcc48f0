SPECIFICATION Spec
CONSTANTS
  RhoFloor = 4
  SieFloor = 1
  SieMax = 3
  WMax = 4
  One = 2
  Width = 2
  Updated <- UpdatedStates
  Options <- ConsideredOptions
INVARIANTS
  RepairsInterpolate
  PrimitivesMatchConserved
  RobustCellsBounded
  GhostsMatchOwners
  HealthyCellsKept
