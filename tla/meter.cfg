SPECIFICATION FairMeterSpec
CONSTANTS
  c1 = c1
  c2 = c2
  Content <- MCContent
  Large <- MCLarge
  MalformedHash = MalformedHash
  Absent = Absent
  MaxSeq = 2
  Wire <- WireMeter
  BatchSize = 2
  MaxAckPending = 2
  Republished = FALSE
  MaxCrashes = 1
  MaxStoreErrors = 0
  MaxLostAcks = 0
  MaxBlind = 0
  Unset = Unset
  MaxReadErrors = 1
INVARIANTS
  RowsNeverExceedCommits
PROPERTIES
  OnlyTheLostAreSkipped
  GaugesConverge
