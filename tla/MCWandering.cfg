CONSTANTS
  a = a
  b = b
  c = c
  NoScript = NoScript
  NoPid = NoPid
  Scripts <- MCScripts
  Program <- WanderingProgram
  LineCount <- WanderingLineCount
  Pids <- MCPids
  Typed <- WanderingTyped
  IOFails = FALSE
  Once = TRUE
  MAX_FRAMES = 4
  PAGE_SIZE = 2
  MAX_PROCESSES = 2
  MaxPid = 6
  Spare = 3
  MaxClock = 60
  ClockCap = 100
SPECIFICATION BoundedSpec
PROPERTY
  NoLineSkipped
