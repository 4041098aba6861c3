SPECIFICATION FairSpec
CONSTANTS
  l1 = l1
  l2 = l2
  Login <- MCLogin
  Token <- MCToken
  Owner <- MCOwner
  Files <- MCFiles
  Secret <- MCSecret
  Modes <- MCModes
  Blank = Blank
  Nobody = Nobody
  NoId = NoId
  NoWord = NoWord
  MaxCrashes = 1
INVARIANTS
  ReportedIsStored
  LabelsJoinTheirVerdict
  ParticipantsCanBeForgotten
PROPERTIES
  EveryLoginAnswered
