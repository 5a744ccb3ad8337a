CONSTANTS
  NUM_HISTORY = 3
  MAX_FRAMES = 5
SPECIFICATION FairSpec
INVARIANTS
  InStep
  ShowsSelected
PROPERTIES
  KeysShow
  SessionsEnd
CONSTRAINT UntilDefect
