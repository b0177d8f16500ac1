CONSTANTS
  NULL = NULL
  NoValue = NULL
  none <- MCNone
  Names <- MCNames
  Values <- DigitValues
  VAR_STORE_SIZE = 2
  Words <- DigitWords
  MaxEntries = 2
  MaxDepth = 1
SPECIFICATION PlainSpec
CHECK_DEADLOCK FALSE
INVARIANT
  ListingInOrder
