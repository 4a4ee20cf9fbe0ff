SPECIFICATION Spec
CONSTANTS
  InfoSect = 1
  LastSect = 4
  DataSect = 3
  SectPerClust = 2
  Clusters <- MCClusters
  Blocks <- MCBlocks
  Zero = "zero"
  Infos <- MCInfos
  Taken <- MCTaken
  RemountDirty = FALSE
INVARIANTS Coherent SyncMeansDurable
PROPERTIES RefinesStore NothingDropped
