CONSTANTS
  ROB_SIZE = 4
  NUM_ARCH = 3
  NUM_PC = 12
  Programs <- MCPrograms
SPECIFICATION FairSpec
INVARIANTS
  TypeOK
  NoRegisterLost
  ProgramOrder
  MappingsExact
  WakeupExact
  PrecisePath
PROPERTIES
  PreciseRollback
  CommitsInProgramOrder
  Terminates
CONSTRAINT UntilLost
