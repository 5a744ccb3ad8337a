CONSTANTS
  ROB_SIZE = 4
  NUM_RS_ENTRIES = 2
  STAGES = 2
  DELAY = 2
  Programs <- MCPrograms
SPECIFICATION FairSpec
INVARIANTS
  OnePlace
  OperandsRight
PROPERTY AlwaysRetires
CONSTRAINT UntilDefect
