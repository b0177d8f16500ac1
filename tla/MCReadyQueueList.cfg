CONSTANTS
  p1 = p1
  p2 = p2
  p3 = p3
  p4 = p4
  NULL = NULL
  Processes <- MCProcesses
  job_time <- MCJobTime
  MaxScore = 1
SPECIFICATION Spec
INVARIANTS
  TypeOK
  ListIntact
PROPERTIES
  ImplementsQueue
  CallsReturn
