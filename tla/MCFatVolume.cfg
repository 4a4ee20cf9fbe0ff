SPECIFICATION FairSpec
CONSTANTS
  InfoSect = 1
  CLUST_CNT = 6
  ENTRIES = 4
  Mirror = TRUE
  Slots <- MCSlots
  Formats <- MCFormats
  WIDTH = 16
  MaxHarm = 1
  Garbage = {3}
INVARIANTS AnswersTrue OwnedOnce CrashDamage MirrorLag FreeCountExact OnlyFreeTaken
PROPERTIES EveryCallReturns
