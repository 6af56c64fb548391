SPECIFICATION FairSpec
CONSTANTS
  NumBuffers = 3
  NumSectors = 4
  QueueLen = 2
  MaxSeqnum = 7
INVARIANTS NextBufferUsable RingOrdered CrashLogStored
PROPERTIES ErasedBeforeWritten NewestKept CrashFlushEnds
