SPECIFICATION Spec
CONSTANTS
  nue = nue
  nuebar = nuebar
  Species = {nue}
  Width = 2
  MaxIter = 2
  EMax = 9
  Updates <- UpdatesConsidered
  Options <- ConsideredOptions
INVARIANTS
  MomentsInFluidFrame
  LoneFailuresFixedUp
  SensibleStateReturned
  SourceConserves
  RadiationAboveFloors
