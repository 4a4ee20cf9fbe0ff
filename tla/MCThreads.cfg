SPECIFICATION ThreadsFairSpec
CONSTANTS
  MAX_THREADS = 5
  Creations = 7
  AllocFails = TRUE
INVARIANTS OneRunning OwnStackSaved
PROPERTY FirstTwoRun
