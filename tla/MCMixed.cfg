CONSTANTS
  a = a
  b = b
  c = c
  NoScript = NoScript
  NoPid = NoPid
  Scripts <- MCScripts
  Program <- MixedProgram
  LineCount <- MixedLineCount
  Pids <- MCPids
  Typed <- MixedTyped
  IOFails = FALSE
  Once = TRUE
  MAX_FRAMES = 6
  PAGE_SIZE = 2
  MAX_PROCESSES = 2
  MaxPid = 6
  Spare = 3
  MaxClock = 60
  ClockCap = 100
SPECIFICATION BoundedSpec
INVARIANT
  AgingSorted
