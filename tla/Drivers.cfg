SPECIFICATION Spec
CONSTANTS
  MAX_PROCS = 2
  CALLS = 4
  Callers <- MCCallers
  RING = 4
  LAG = 1
  LEVELS <- MCLevels
  SECTORS <- MCSectors
  RING_N = 2
  REPORT_RING_N = 1
  ROWS = 3
  KEYS <- MCKeys
  BUF_SIZE = 3
INVARIANTS
  ProcessesKnown
  OneInstanceUnlessSlipped
  
  SoundAsAsked
  AnswersAreOwn
  ReportsKept
  ScreenFollows
  InputComesThrough
CHECK_DEADLOCK FALSE
CONSTRAINT OneAtATime
