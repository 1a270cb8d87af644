SPECIFICATION Spec
CONSTANTS
  Configs <- MCWideBurst
  Kilo = 2
INVARIANTS
  RandomCoversMemory
CHECK_DEADLOCK FALSE
