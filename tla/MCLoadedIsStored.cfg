SPECIFICATION Spec
CONSTANTS
  Configs <- MCOneChannel
  Structs <- MCStructs
  Junk <- MCJunk
  DiskMayFill = FALSE
INVARIANTS
  LoadedIsStored
CHECK_DEADLOCK FALSE
