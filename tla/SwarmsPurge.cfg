SPECIFICATION Spec
CONSTANTS
  r1 = r1
  r2 = r2
  Mu = 4
  Quarter = 3
  NBlocks = 3
  RankOf <- Owners
  Particles <- Ids
  Reserve = {3}
  NRounds = 2
  NStages = 2
  Options <- Considered
  Starts <- StartsConsidered
  Directions <- DirectionsConsidered
  Exchanges = {1}
  Dt = 2
  DtTune = 1
INVARIANTS
  HorizonPurged
