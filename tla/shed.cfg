SPECIFICATION Spec
CONSTANTS
  b1 = b1
  b2 = b2
  e1 = e1
  o1 = o1
  Telemetry <- OneBatch
  Evaluation <- Evaluations
  Outcome <- Outcomes
  MaxAge = 5
  Stale = 1
  Capacity = 2
  MaxRestarts = 1
INVARIANTS
  AcceptedIsStored
  PressureIsAnUpperBound
PROPERTIES
  AgeOutForeseen
  ShedOnEvidence
CHECK_DEADLOCK FALSE
