SPECIFICATION FairSpec
CONSTANTS
  Addresses <- MCAddresses
  Cells <- MCCells
  Decode <- MCDecode
  BL = 2
  BusWidth = 2
  FaultModel = "NaiveFaultModel"
  RollMax = 2
  FaultMaps <- MCSureMaps
  DataPatterns <- MCDataPatterns
  FaultTraceOn = TRUE
  MaxCarried = 0
  MaxRequests = 3
  Sweep <- MCSweep
  StartRound = 1
  MaxRounds = 2
  CommandLines <- MCTwoRequests
  InitialStats <- MCGarbageStats
  Signals = {"SIGINT", "SIGTERM"}
  OpenMayFail = TRUE
INVARIANTS
  GarbageWashedOut
  EntriesFireByProbability
PROPERTIES
  Termination
CHECK_DEADLOCK FALSE
