CONSTANTS
  a = a
  b = b
  c = c
  NoScript = NoScript
  NoPid = NoPid
  Scripts <- MCScripts
  Program <- PlainProgram
  LineCount <- PlainLineCount
  Pids <- MCPids
  Typed <- PlainTyped
  IOFails = FALSE
  Once = TRUE
  MAX_FRAMES = 5
  PAGE_SIZE = 2
  MAX_PROCESSES = 2
  MaxPid = 6
  Spare = 3
  MaxClock = 60
  ClockCap = 40
SPECIFICATION RecordingSpec
INVARIANTS
  MyshTypeOK
  AgingSorted
  ShortestFirst
PROPERTIES
  NoLineSkipped
  NoLineTwice
  RunsEveryLine
  MemSpec
  Termination
