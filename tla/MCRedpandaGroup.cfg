SPECIFICATION Spec
CONSTANTS
  c1 = c1
  c2 = c2
  p1 = p1
  p2 = p2
  Consumers <- MCConsumers
  Partitions <- MCPartitions
  Value <- MCValue
  MaxFaults = 1
SYMMETRY MCSymmetry
INVARIANTS
  ExactUnlessDisturbed
  CommittedIsCounted
