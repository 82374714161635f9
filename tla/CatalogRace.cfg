SPECIFICATION Spec
CONSTANTS
  Proc = {p1}
  Root = {r1}
  Path = {f1, f2}
  first = first
  second = second
  broken = broken
  Content = {first, second, broken}
  RootOf <- OneRoot
  RootsOf <- SameRoots
  Named <- NamedContents
  SizeOf <- Sizes
  Guarded = {}
  Absent = Absent
  NoSnapshot = NoSnapshot
  Partial = Partial
  FreshMtimes = TRUE
  QuietBuilds = FALSE
  MaxClock = 1
  MaxCrashes = 1
SYMMETRY Paths
INVARIANTS
  RestartRefreshes
