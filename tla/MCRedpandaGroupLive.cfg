SPECIFICATION FairSpec
CONSTANTS
  c1 = c1
  c2 = c2
  p1 = p1
  p2 = p2
  Consumers <- MCConsumers
  Partitions <- MCOnePartition
  Value <- MCOneValue
  MaxFaults = 1
PROPERTIES
  RecordIsCounted
  StopEndsRun
