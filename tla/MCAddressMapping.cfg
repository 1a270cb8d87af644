SPECIFICATION Spec
CONSTANTS
  Configs <- MCConfigs
  Kilo = 2
INVARIANTS
  CoordinateInBounds
  SweepRoundTrip
  FieldsFillAddress
CHECK_DEADLOCK FALSE
