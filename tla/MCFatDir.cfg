SPECIFICATION Spec
CONSTANTS
  InfoSect = 1
  SLOTS = 2
  SPC = 2
  MaxClust = 2
  Names <- MCNames
  LfnCnt <- MCLfnCnt
  NameLen <- MCNameLen
  Initial <- MCInitial
  Uses <- MCUses
  Junk = "junk"
  MaxHarm = 2
INVARIANTS SearchRight Readable
PROPERTIES EntriesKept EndKept
