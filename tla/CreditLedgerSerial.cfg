SPECIFICATION Spec
CONSTANTS
  Workers = {w1}
  w1 = w1
  Initial = 3
  MeterCharges <- MCMeterCharges
  FeatureCosts = {3}
  Grants = {2}
  MaxRows = 5
  MaxWork = 6
INVARIANTS
  SerialAgreement
PROPERTIES
  WalletSpec
  BillingNeverFailsFeature
