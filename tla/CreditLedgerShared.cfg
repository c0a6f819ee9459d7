SPECIFICATION Spec
CONSTANTS
  Workers = {w1, w2}
  w1 = w1
  w2 = w2
  Initial = 3
  MeterCharges <- MCMeterCharges
  FeatureCosts = {3}
  Grants = {2}
  MaxRows = 3
  MaxWork = 4
SYMMETRY Symmetry
INVARIANTS
  NeverOvercharged
  NeverOvergranted
  WorkBilledOnce
