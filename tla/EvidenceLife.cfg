SPECIFICATION Spec
CONSTANTS
  t1 = t1
  t2 = t2
  t3 = t3
  f1 = f1
  f2 = f2
  revised = revised
  Id = {t1, t2, t3}
  Fixture = {f1, f2, revised}
  Query = {"old", "new"}
  QueryOf <- MCQueryOf
  Catalog = {cat1, cat2}
  secret = secret
  masked = masked
  broken = broken
  leaky = leaky
  Stream = {secret, masked, leaky, broken}
  Usable <- MCUsable
  here = here
  there = there
  Site = {here, there}
  Sanitize <- MCSanitize
  Selections <- MCSelections
  Absent = Absent
  Torn = Torn
  None = None
  MaxEdits = 1
  Unread = Unread
SYMMETRY Versions
INVARIANTS
  TypeOK
  ScoresAreOfTheRun
  SummaryIsComplete
  FilesAgree
  PriorScoringRetained
  InterruptedRescoreRetries
  RecordsSurvive
  RunsUseRecordedInputs
