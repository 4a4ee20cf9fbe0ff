SPECIFICATION FairSpec
CONSTANTS
  WIDTH = 8
  Sleeps <- MCSleeps
  R15 = {0, 9}
INVARIANT EveryIrqCounted
PROPERTIES SleepLongEnough SleepEnds
CHECK_DEADLOCK FALSE
