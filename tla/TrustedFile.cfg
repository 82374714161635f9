SPECIFICATION Spec
CONSTANTS
  old = old
  new = new
  demo = demo
  shared = shared
  demo2 = demo2
  out = out
  Root = {old, new}
  Skill = {demo, shared, demo2, out}
  Tree <- MCTree
  EntryIn <- MCEntries
  DocumentIn <- MCDocuments
  Missing = Missing
  Nothing = Nothing
  MaxChanges = 2
INVARIANTS
  ReadStaysInside
  RefusalHasCause
\* The call returns.
CHECK_DEADLOCK FALSE
