SPECIFICATION Spec
CONSTANTS
  k1 = k1
  f1 = f1
  f2 = f2
  None = None
  cal <- Shipped
  Steps <- AllSteps
  Flights <- Rhythm
  Dwells <- Holds
  Keys <- OneKey
  Fields <- TwoFields
  MaxEffort = 14
INVARIANTS
  TooFewIntervalsReportNoRhythm
CHECK_DEADLOCK FALSE
