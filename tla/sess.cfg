SPECIFICATION FairSpec
CONSTANTS
  k1 = k1
  k2 = k2
  k3 = k3
  t1 = t1
  q1 = q1
  q2 = q2
  Missing = Missing
  Tenant <- ThreeTenants
  KeyPart <- MCKeyPart
  Sanitized <- MCSanitized
  Token <- OneToken
  Request <- Handlers
  TTL = 1
  MaxSeq = 2
  MaxBatches = 3
  MaxPutFailures = 1
  MaxRestarts = 1
INVARIANTS
  AnswersAreOwn
  SnapshotsArePast
  ReadersAgreeUnlessRaced
  SnapshotLifetime
  GapsExposed
PROPERTIES
  NoSessionComesBack
  EverySessionLeaves
