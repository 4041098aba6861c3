SPECIFICATION FairSpec
CONSTANTS
  s1 = s1
  s2 = s2
  big = big
  Content <- MCContent
  Large <- MCLarge
  MalformedHash = MalformedHash
  Absent = Absent
  Requests = {q1, q2}
  MaxCrashes = 2
  MaxFailures = 1
INVARIANTS
  RecordsStayReadable
PROPERTIES
  OpensAndAnswers
