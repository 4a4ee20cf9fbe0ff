SPECIFICATION FairSpec
CONSTANTS
  Sectors <- MCSectors
  Values = {"x", "y"}
  LBA28 = 4
  LOW = 2
  ATA_TIMEOUT = 2
  Kinds = {"disk", "atapi", "empty", "floating"}
PROPERTIES RefinesBlockDevice EveryCallReturns
CHECK_DEADLOCK FALSE
