SPECIFICATION Spec
CONSTANTS
  c1 = c1
  c2 = c2
  Content <- MCContent
  Large <- MCLarge
  MalformedHash = MalformedHash
  Absent = Absent
  MaxSeq = 2
  Wire <- WireRefused
  BatchSize = 2
  MaxAckPending = 2
  Republished = FALSE
  MaxCrashes = 0
  MaxStoreErrors = 0
  MaxLostAcks = 0
  MaxBlind = 0
INVARIANTS
  RefusalsAccounted
