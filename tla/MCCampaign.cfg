SPECIFICATION FairSpec
CONSTANTS
  Addresses <- MCAddresses
  Cells <- MCCells
  Decode <- MCDecode
  BL = 2
  BusWidth = 2
  FaultModel = "NaiveFaultModel"
  RollMax = 2
  FaultMaps <- MCFaultMaps
  DataPatterns <- MCDataPatterns
  FaultTraceOn = TRUE
  MaxCarried = 0
  MaxRequests = 3
  Sweep <- MCSweep
  StartRound = 1
  MaxRounds = 2
  CommandLines <- MCCommandLines
  InitialStats <- MCCleanStats
  Signals = {"SIGINT", "SIGTERM"}
  OpenMayFail = FALSE
INVARIANTS
  SimTypeOK
  CompletedRounds
  RoundLength
  HandlerReport
  AbortedOnlyByReentry
  ReturnedMeansAllDone
PROPERTIES
  FinishedReportKept
  Termination
  SignalEndsProcess
CHECK_DEADLOCK FALSE
