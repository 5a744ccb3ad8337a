CONSTANTS
  ROB_SIZE = 4
  br = br
  ld = ld
  Instr <- MCInstr
  Inputs <- MCInputs
SPECIFICATION Spec
INVARIANTS
  TypeOK
  WindowExact
  NoStaleCompletion
PROPERTY ImplementsCommitQueue
