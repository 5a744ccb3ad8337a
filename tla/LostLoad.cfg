CONSTANTS
  ROB_SIZE = 4
  NUM_ARCH = 3
  NUM_PC = 12
  Programs <- OnlyMemory
SPECIFICATION Spec
INVARIANT PrecisePath
