SPECIFICATION Spec
CONSTANTS
  Proc = {p1}
  Root = {r1}
  Path = {f1, f2}
  first = first
  second = second
  broken = broken
  Content = {first, second, broken}
  RootOf <- OneRoot
  RootsOf <- SameRoots
  Named <- NamedContents
  SizeOf <- Sizes
  Guarded = {f1}
  Absent = Absent
  NoSnapshot = NoSnapshot
  Partial = Partial
  FreshMtimes = TRUE
  QuietBuilds = TRUE
  MaxClock = 2
  MaxCrashes = 1
INVARIANTS
  TypeOK
  RestartRefreshes
  RestartRefreshesErrors
