CONSTANTS
  LINES = 2
  TAGS = 2
  BLOCKS = 4
  NUM_MEM_TAGS = 2
  TightLoops = FALSE
SPECIFICATION FairSpec
INVARIANTS
  ValueIsMemory
  TagIsOwn
  MissPending
PROPERTY HeldIsFetched
