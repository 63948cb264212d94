CONSTANTS
  nb_bits = 4
  Arguments <- MCArguments
SPECIFICATION FairSpec
INVARIANTS
  LoopInvariant
  RootReturned
PROPERTIES
  Returns
CHECK_DEADLOCK FALSE
