CONSTANTS
  ROB_SIZE = 4
  LSQ_SIZE = 4
  LOAD_BUFFER_NUM = 8
  Addr = {0, 1, 2}
  NUM_OPS = 4
  Programs <- Twice
SPECIFICATION Spec
INVARIANT LoadsRight
