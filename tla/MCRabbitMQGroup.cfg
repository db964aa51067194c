SPECIFICATION FairSpec
CONSTANTS
  py = py
  go = go
  p1 = p1
  Consumers <- MCConsumers
  GoConsumers <- MCGoConsumers
  Partitions <- MCPartitions
  Value <- MCValue
  MaxSubs = 2
  MaxFaults = 2
PROPERTIES
  AtMostOnce
  BacklogIsConsumed
