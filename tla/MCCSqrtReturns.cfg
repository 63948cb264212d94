CONSTANTS
  nb_bits = 4
  Arguments <- MCArguments
SPECIFICATION FairSpec
PROPERTIES
  Sqrt1Returns
CHECK_DEADLOCK FALSE
