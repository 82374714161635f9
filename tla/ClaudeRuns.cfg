SPECIFICATION Spec
CONSTANTS
  a = a
  b = b
  Name = {a, b}
  NoName = NoName
  None = None
  Task <- MCTask
  Answer <- MCAnswer
  Matches <- MCMatches
  Selections <- MCSelections
  MaxEvents <- MCMaxEvents
  MaxOther <- MCMaxOther
  MaxUses = 2
  MaxEdits = 1
  Unread = Unread
CHECK_DEADLOCK FALSE
INVARIANTS
  TypeOK
  BuiltFromRecordedSource
  SuccessIsEarned
  EarnedIsSuccess
  SummaryIsOfTheRuns
