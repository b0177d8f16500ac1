CONSTANTS
  NULL = NULL
  NoValue = NULL
  none <- MCNone
  Names <- MCNames
  Values <- MCValues
  VAR_STORE_SIZE = 2
  Words <- LetterWords
  MaxEntries = 3
  MaxDepth = 2
SPECIFICATION PlainSpec
CHECK_DEADLOCK FALSE
INVARIANTS
  TypeOK
  OneEntryEach
  TreeWellFormed
  ListingInOrder
PROPERTY
  ImplementsMap
