SPECIFICATION Spec
CONSTANTS
  r1 = r1
  r2 = r2
  b1 = b1
  b2 = b2
  b3 = b3
  Ranks = {r1, r2}
  Blocks <- PairBlocks
  RankOf <- TwoRankOf
  Partitions <- PairPartitions
  Neighbors <- PairNeighbors
  Finer <- TwoFiner
  Phys = phys
  NStages = 2
  NSteps = 2
  BcPrimitive = FALSE
  MomentsActive = FALSE
  PhiEnforced = TRUE
  CoolingFunction = FALSE
INVARIANTS
  CurrentPhi
