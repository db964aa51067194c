SPECIFICATION FairSpec
CONSTANTS
  m1 = m1
  m2 = m2
  m3 = m3
  Messages <- MCMessages
  MaxInFlight = 2
INVARIANTS
  TypeOK
  PermitConservation
  ProducedIsPersisted
  FinalAcksCounted
PROPERTIES
  SignalEndsRun
  LedgerSpec
