SPECIFICATION GmonSpec
CONSTANTS
  heap_start = 4
  heap_limit = 70
  Align = 4
  Increments = {3, 99}
  SLAB_INCREMENT = 3
  SAMPLES = 2
  CallSites <- MCCallSites
  MaxCalls = 3
  MaxBlocks = 2
INVARIANTS
  SamplerOnce
CHECK_DEADLOCK FALSE
