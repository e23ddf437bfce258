SPECIFICATION FairSpec
CONSTANTS
  ChunkCapacity = 1
  MaxData = 2
CHECK_DEADLOCK FALSE
INVARIANTS
  CleanEofMeansWholeBody
  NormalEndIsNotAborted
  UploadIsStopped
PROPERTIES
  CallerLearnsOfTheEnd
