SPECIFICATION FairSpec
CONSTANTS
  Setups <- MCSetups
  Places <- MCPlaces
  Bits <- MCBits
  NaiveCount = 3
  ClassCounts <- MCClassCounts
  SizeModulus = 2
INVARIANTS
  GeneratorsTypeOK
  AloneNothingIsLost
  RacesOnlyLose
  ClassesKept
PROPERTIES
  GenerationEnds
CHECK_DEADLOCK FALSE
