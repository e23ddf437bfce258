SPECIFICATION Spec
CONSTANTS
  ChunkCapacity = 1
  MaxData = 1
CHECK_DEADLOCK FALSE
PROPERTIES
  CleanEndIsNotInterrupted
