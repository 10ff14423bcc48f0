SPECIFICATION Spec
CONSTANTS
  r1 = r1
  r2 = r2
  b1 = b1
  b2 = b2
  b3 = b3
  Ranks = {r1}
  Blocks <- PairBlocks
  RankOf <- PairRankOf
  Partitions <- PairPartitions
  Neighbors <- PairNeighbors
  Finer <- PairFiner
  Phys = phys
  NStages = 2
  NSteps = 1
  BcPrimitive = FALSE
  MomentsActive = FALSE
  PhiEnforced = TRUE
  CoolingFunction = FALSE
INVARIANTS
  LowStorageCombination
