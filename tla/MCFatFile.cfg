SPECIFICATION Spec
CONSTANTS
  Files <- MCFiles
  Handles <- MCHandles
  SECT = 2
  SPC = 2
  CLUST_CNT = 4
  MAX_OFFSET = 7
  Bytes = {0, 1}
  Texts <- MCTexts
  Counts = {3}
  Seeks <- MCSeeks
  Uses <- MCUses
  MaxHarm = 1
INVARIANTS ChainCoversSize OwnChain
PROPERTIES RefinesFiles
