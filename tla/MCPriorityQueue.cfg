CONSTANTS
  HEAP_SIZE = 17
  BASE = 40
  Priorities = {1, 2, 3}
SPECIFICATION Spec
INVARIANTS
  HeapExact
  Ordered
