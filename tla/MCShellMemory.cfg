CONSTANTS
  a = a
  b = b
  c = c
  NoScript = NoScript
  Scripts <- MCScripts
  LineCount <- MCLineCount
  Pids <- MCPids
  MAX_FRAMES = 3
  PAGE_SIZE = 1
  MAX_PROCESSES = 2
  MaxClock = 7
SPECIFICATION BoundedSpec
INVARIANTS
  MemTypeOK
  TablesAgree
  NoDanglingEntry
  NoOrphanFrame
  FreeFramesClear
  UsersTracked
  StampsFollowUse
PROPERTIES
  EvictsLeastRecent
  EvictsLongestUnused
CHECK_DEADLOCK FALSE
