SPECIFICATION FairSpec
CONSTANTS
  m1 = m1
  m2 = m2
  m3 = m3
  Messages <- MCMessages
  ConfirmSlots = 1
  Reported <- MCReported
INVARIANTS
  TypeOK
  MapsExclusive
  ProducedIsTimedAndSized
  NoStrandedEntry
  ProducedXorError
PROPERTIES
  AcceptedIsCounted
  CancelEndsRun
  LedgerSpec
