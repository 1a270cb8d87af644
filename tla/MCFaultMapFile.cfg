SPECIFICATION Spec
CONSTANTS
  Configs <- MCConfigs
  Structs <- MCStructs
  Junk <- MCJunk
  DiskMayFill = TRUE
INVARIANTS
  FileTypeOK
  LoadedSizesMatch
  HardFaultsSurvive
  NoForeignEntries
  PartialMapIsPrefix
CHECK_DEADLOCK FALSE
