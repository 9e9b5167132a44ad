SPECIFICATION FairWriterSpec
CONSTANTS
  MaxBatches = 2
  EntrySizes <- Sizes
  MaxEntries = 4
INVARIANTS
  WriterTypeOK
  QueueBounded
  QueueIsNewest
  NoSilentLoss
  NoRewrite
PROPERTIES
  DeliversInOrder
  EntriesSettle
  StopDrains
CHECK_DEADLOCK FALSE
