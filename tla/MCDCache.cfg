CONSTANTS
  WAYS = 2
  SETS = 1
  BLOCKS = 3
  NUM_MEM_TAGS = 2
  Value = {0, 1}
  None = None
SPECIFICATION FairSpec
INVARIANTS
  LoadsFresh
  LinesExact
  VictimExists
PROPERTY LoadAnswered
CONSTRAINT UntilDefect
