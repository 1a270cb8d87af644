SPECIFICATION Spec
CONSTANTS
  Addresses <- MCAddresses
  Cells <- MCCells
  Decode <- MCDecode
  BL = 2
  BusWidth = 4
  FaultModel = "NaiveFaultModel"
  RollMax = 2
  FaultMaps <- MCFaultMaps
  DataPatterns <- MCDataPatterns
  FaultTraceOn = TRUE
  MaxCarried = 0
  MaxRequests = 3
PROPERTIES
  OthersMeansFourOrMore
CHECK_DEADLOCK FALSE
