SPECIFICATION FairSpec
CONSTANTS
  a = a
  b = b
  Elem = {a, b}
  NULL = NULL
  Junk = Junk
  VECTOR_DEFAULT_SIZE = 2
  Many = 3
  ManySize = 4
  NewSizes <- MCNewSizes
  Index <- MCIndex
  MaxLen = 4
CHECK_DEADLOCK FALSE
INVARIANTS
  TypeOK
  WalkVisitsEach
  DeleteRemoves
PROPERTIES
  StaysInside
  ImplementsList
  LoopsEnd
