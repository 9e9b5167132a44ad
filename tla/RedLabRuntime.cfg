SPECIFICATION FairRuntimeSpec
CONSTANTS
  MaxBatches = 2
  EntrySizes <- Sizes
  MaxEntries = 3
  ReviewBatches = 2
INVARIANTS
  RuntimeTypeOK
  DeviceReleased
  OneReview
  StrandedTail
PROPERTIES
  ThreadsEnd
  LivesAsDescribed
CHECK_DEADLOCK FALSE
