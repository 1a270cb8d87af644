SPECIFICATION Spec
CONSTANTS
  Addresses <- MCAddresses
  Cells <- MCCells
  Decode <- MCDecode
  BL = 2
  BusWidth = 4
  FaultModel = "BetaDistFaultModel"
  RollMax = 2
  FaultMaps <- MCFaultMaps
  DataPatterns <- MCDataPatterns
  FaultTraceOn = TRUE
  MaxCarried = 0
  MaxRequests = 3
PROPERTIES
  ImplementsFaultyMemory
INVARIANTS
  TypeOK
  RequestsBalance
  ColumnsNotOvercounted
  FaultCountsNested
  FaultBitsExplained
  MaskMatchesFaultMap
  VerdictMatchesData
  EntriesFireByProbability
CHECK_DEADLOCK FALSE
