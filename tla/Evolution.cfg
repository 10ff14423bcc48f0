\* Two ranks of one partition, the second-order integrator, one restart
CONSTANTS
  Ranks = {r1, r2}
  NParts = 1
  NStages = 2
  beta <- Rk2Beta
  BetaUnit = 1
  tlim = 5
  dt_init = 3
  FactDen = 2
  Limits = {2, 4}
  always_gain = FALSE
  MaxRestarts = 1
  r1 = r1
  r2 = r2
SPECIFICATION Spec
INVARIANTS GainOfTheMesh MetricAlike
PROPERTIES ReachesTlim
