SPECIFICATION Spec
CONSTANTS
  r1 = r1
  r2 = r2
  b1 = b1
  b2 = b2
  b3 = b3
  Ranks = {r1, r2}
  Blocks <- AmrBlocks
  RankOf <- AmrRankOf
  Partitions <- AmrPartitions
  Neighbors <- AmrNeighbors
  Finer <- AmrFiner
  Phys = phys
  NStages = 2
  NSteps = 1
  BcPrimitive = TRUE
  MomentsActive = TRUE
  PhiEnforced = TRUE
  CoolingFunction = FALSE
INVARIANTS
  TypeOK
  FluxesFromOneState
  CorrectedFluxes
  NoStaleSources
  GhostZonesCurrent
