SPECIFICATION MCSpec
CONSTANTS
  Size = 10
  Bytes = 2
  Indexes <- MCIndexes
  MaxWant = 2
  a = a
  b = b
  Names <- MCNames
  NoName = NoName
  UNKNOWN = 5
  IdHash <- MCIdHash
  NameHash <- MCNameHash
  MIN_SIZE = 2
  MERGES = 2
  MaxGeneration = 1
CHECK_DEADLOCK FALSE
INVARIANTS
FoundAreLowest
PROPERTIES
ImplementsBitSet ImplementsNodeMap NumbersFresh
