SPECIFICATION HalSpec
CONSTANTS
  NIRQ = 3
  Handlers <- MCHandlers
  NULL = NULL
  Word = 6
  Alarms = {a1, a2}
  alt_alarm_list = alt_alarm_list
  Intervals = {0, 4}
  Periods = {0, 3, 5}
  TickRate = 2
  TIMER_IRQ = 1
  UserIrqs = {2}
  timer_sc = timer_sc
  user = user
  ALT_MAX_FD = 5
  Nil = Nil
  alt_dev_null = alt_dev_null
  Devices <- MCDevices
  FileSystems <- MCFileSystems
  path <- MCPath
  Provides <- MCProvides
  Console <- MCConsole
  FileNames <- MCFileNames
  heap_start = 4
  heap_limit = 70
  Align = 4
  Increments = {3, 99}
  SLAB_INCREMENT = 3
  SAMPLES = 2
  CallSites <- MCCallSites
  MaxCalls = 3
  MaxBlocks = 2
  U32 = 12
  ALT_US = 6
  TICK_RATE = 2
  SetTimes <- MCSetTimes
  LONGEST = 7
  Sleeps = {0, 1, 2, 3, 7, 8}
  LINE_SIZE = 2
  Lines = 2
  MemLines = 5
  Data = {1, 2, 4}
  Section <- MCSection
  Buffers <- MCBuffers
  Ranges <- MCRanges
  Flash = {6, 7}
  Blocks <- MCBlocks
  Nibbles = 2
  PrintfCalls <- MCPrintfCalls
  Half = 4
  LOAD_VALUE = 9
  TIMER_FREQ = 3
  Rounds = 2
  Longest = 9
  Horizon = 19
  Length = 4
  Faults <- MCFaults
  CauseOf <- MCCauseOf
  ECHO_LEN = 3
  INTERVAL = 1
  LOG_TICKS = 2
  LogLetters = {"a", "b"}
  Texts <- MCTexts
  MaxLogTicks = 6
  Ctors = 2
  Dtors = 2
  Codes = {0, 3}
  StreamSets <- MCStreamSets
  Outcomes <- MCOutcomes
  Bytes = {1, 7}
  ByteValues = 8
  Stamps = {0, 1, 5}
  Clock = 8
INVARIANTS
  AlarmOnTime
  ListIntact
  InterruptDiscipline
  DescriptorsSound
  
  GraphSound
  TimeOfDayKept
  SleepsLongEnough
  Coherent
  PrintsMeaning
  
  ExactlyOnce
  
  Orderly
PROPERTIES
  LockRespected
CHECK_DEADLOCK FALSE
