SPECIFICATION Spec
CONSTANTS
  Pre = 1
  Post = 2
  Keep = 3
  Grace = 4
  MaxLength = 4
  MaxTime = 8
  MaxGaps = 1
  MaxStops = 1
INVARIANTS
  EventTypeOK
  
PROPERTIES
  PartsSaved
CHECK_DEADLOCK FALSE
