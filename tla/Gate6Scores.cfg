SPECIFICATION Spec
CONSTANTS
  a = a
  b = b
  Name = {a, b}
  NoName = NoName
  None = None
  CallId = {c1, c2, c3}
  Task <- MCTask
  Matches <- MCMatches
  MaxEvents <- MCMaxEvents
  Answer <- MCAnswer
  MaxOdd = 1
  MaxOddEvents = 4
SYMMETRY Ids
CHECK_DEADLOCK FALSE
INVARIANTS
  TypeOK
  SuccessIsEarned
  EarnedIsSuccess
