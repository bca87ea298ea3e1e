SPECIFICATION Spec
CONSTANTS
  Windows <- MCWindows
  Hosts <- MCHosts
  TAGS <- MCTags
  SEGS = 2
  JOBS = 2
  FRAMES = 4
  QUEUE = 2
INVARIANTS
  EachAnsweredOnce
  
PROPERTIES
  JobsEnd
CHECK_DEADLOCK FALSE
CONSTRAINT Canonical
