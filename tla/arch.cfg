SPECIFICATION FairSpec
CONSTANTS
  c1 = c1
  c2 = c2
  Content <- MCContent
  Large <- MCLarge
  MalformedHash = MalformedHash
  Absent = Absent
  MaxSeq = 2
  Wire <- WireLive
  BatchSize = 2
  MaxAckPending = 2
  Republished = TRUE
  MaxCrashes = 1
  MaxStoreErrors = 1
  MaxLostAcks = 0
  MaxBlind = 1
INVARIANTS
  AckedIsReadable
  PositionAgreesWithRows
  AnnouncedIsDurable
PROPERTIES
  PositionMonotone
  ImplementsContract
  EventuallySettled
