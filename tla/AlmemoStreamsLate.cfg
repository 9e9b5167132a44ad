SPECIFICATION FairAlmemoSpec
CONSTANTS
  live = live
  fast = fast
  Streams <- TwoStreams
  Order <- LiveFirst
  MaxReaders = 6
  MaxRequests = 3
  MaxProbes = 0
  MaxCrashes = 0
PROPERTY CommandsRun
CHECK_DEADLOCK FALSE
