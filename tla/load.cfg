SPECIFICATION FairSpec
CONSTANTS
  Total = 3
  Interval = 1
  Workers = 2
  Calls = 2
  Statuses <- MCStatuses
  P = 60
  MaxDeficit = 1
  MaxTime = 4
INVARIANTS
  StallsShow
  AcceptedRunsKeptTheSchedule
PROPERTIES
  RunReturns
