SPECIFICATION Spec
CONSTANTS
  Components <- MCComponents
  Kept <- MCKept
  Contents <- MCContents
  Paths <- MCPaths
  MaxNodes = 5
  RAMFS_MAX_CHILDREN = 2
INVARIANT TreeSound
PROPERTIES SuccessLosesNothing RefinesMap
