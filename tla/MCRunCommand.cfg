CONSTANTS
  Length = 6
  BlockSize = 3
  OutSize = 2
SPECIFICATION Spec
CHECK_DEADLOCK FALSE
INVARIANTS
  TypeOK
  LinesOnce
  OutputOnce
PROPERTY
  Terminates
