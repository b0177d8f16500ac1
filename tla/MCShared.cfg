CONSTANTS
  a = a
  b = b
  c = c
  NoScript = NoScript
  NoPid = NoPid
  Scripts <- MCScripts
  Program <- PlainProgram
  LineCount <- PlainLineCount
  Pids <- MCPids
  Typed <- SharedTyped
  IOFails = FALSE
  Once = FALSE
  MAX_FRAMES = 3
  PAGE_SIZE = 2
  MAX_PROCESSES = 2
  MaxPid = 6
  Spare = 3
  MaxClock = 60
  ClockCap = 100
SPECIFICATION BoundedSpec
PROPERTY
  NoLineSkipped
