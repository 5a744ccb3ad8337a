CONSTANTS
  XLEN = 4
  STAGES = 4
  CHUNK = 2
SPECIFICATION Spec
CHECK_DEADLOCK FALSE
INVARIANTS
  DecodersAgree
  ProductsRight
  BytesLoaded
  SearchesRight
  ProgramsMultiply
