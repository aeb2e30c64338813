CONSTANTS
  Slots = {1, 2}
  Blocks = {1, 2, 3}
  MaxBatches = 3
SPECIFICATION Spec
INVARIANTS
  ReadsIntended
CHECK_DEADLOCK FALSE
