SPECIFICATION Spec
CONSTANTS
  c1 = c1
  c2 = c2
  Content <- MCContent
  Large <- MCLarge
  MalformedHash = MalformedHash
  Absent = Absent
  MaxSeq = 3
  Wire <- WireLoss
  BatchSize = 2
  MaxAckPending = 3
  Republished = FALSE
  MaxCrashes = 1
  MaxStoreErrors = 1
  MaxLostAcks = 1
  MaxBlind = 0
INVARIANTS
  LossFigureExact
  RefusalsAccountedWithoutMismatch
  RefusedOnce
