CONSTANT
  MaxLength = 6
SPECIFICATION Spec
CHECK_DEADLOCK FALSE
INVARIANT
  CommandsInOrder
PROPERTY
  Ends
