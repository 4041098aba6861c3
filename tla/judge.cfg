SPECIFICATION Spec
CONSTANTS
  k1 = k1
  f1 = f1
  f2 = f2
  None = None
  cal <- Brisk
  Steps <- AllSteps
  Flights <- Rhythm
  Dwells <- Holds
  Keys <- OneKey
  Fields <- TwoFields
  MaxEffort = 35
INVARIANTS
  StraightLegsStayStraight
  VerdictsAreExplained
  OneChannelNeverBlocks
  HumanIsAllowed
PROPERTIES
  ConfidenceNeverFalls
CHECK_DEADLOCK FALSE
