CONSTANTS
  a = a
  b = b
  c = c
  NoScript = NoScript
  NoPid = NoPid
  Scripts <- MCScripts
  Program <- NestingProgram
  LineCount <- NestingLineCount
  Pids <- MCPids
  Typed <- NestingTyped
  IOFails = TRUE
  Once = FALSE
  MAX_FRAMES = 5
  PAGE_SIZE = 2
  MAX_PROCESSES = 2
  MaxPid = 11
  Spare = 9
  MaxClock = 10
  ClockCap = 40
SPECIFICATION SavingSpec
INVARIANTS
  LiveAccounted
  AdmittedFits
  NestedLoadKeepsLine
  CallsAreLegal
  UsersSound
  UsersFit
PROPERTIES
  RollbackRestores
  Termination
