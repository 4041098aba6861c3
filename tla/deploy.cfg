SPECIFICATION FairSpec
CONSTANTS
  Blank = Blank
  Nobody = Nobody
  Absent = Absent
  A = A
  B = B
  K1 = K1
  K2 = K2
  S1 = S1
  S2 = S2
  Limits = {l1, l2}
  FirstLimits = l1
  TTLs = {t1, t2}
  Files <- MCFiles
  MaxUpgrades = 2
  MaxFaults = 1
INVARIANTS
  CollectorOwnsTheStream
  ReadersAgreeWithTheCollector
PROPERTY
  EverythingComesUp
