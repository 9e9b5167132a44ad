SPECIFICATION FairAlmemoSpec
CONSTANTS
  live = live
  fast = fast
  Streams <- TwoStreams
  Order <- LiveFirst
  MaxReaders = 8
  MaxRequests = 4
  MaxProbes = 1
  MaxCrashes = 1
INVARIANTS
  AlmemoTypeOK
  OneReader
  StoppedStaysDown
  NoStopLeftOver
  GivesBack
PROPERTIES
  RequestsEnd
CHECK_DEADLOCK FALSE
