SPECIFICATION FairSpec
CONSTANTS
  Depth = 1
  Threshold = 0
  BUF_LEN = 3
  DEFAULT_TIMEOUT = 2
  INT_MAX = 4
  MaxCount = 2
  Programs <- MCPrograms
INVARIANTS
  TypeOK
  TxInOrder
  RxInOrder
  NoneStranded
PROPERTIES
  WriteReturns
CHECK_DEADLOCK FALSE
