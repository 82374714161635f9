SPECIFICATION Spec
CONSTANTS
  Proc = {p1, p2}
  Root = {r1}
  Path = {f1}
  first = first
  second = second
  broken = broken
  Content = {first, second, broken}
  RootOf <- OneRoot
  RootsOf <- SameRoots
  Named <- NamedContents
  SizeOf <- Sizes
  Guarded = {}
  Absent = Absent
  NoSnapshot = NoSnapshot
  Partial = Partial
  FreshMtimes = TRUE
  QuietBuilds = FALSE
  MaxClock = 1
  MaxCrashes = 1
SYMMETRY Processes
INVARIANTS
  AcceptedStatsMatch
  DiscoveredFilesAccounted
  SnapshotComplete
  TempsRemoved
PROPERTIES
  StartsOnlyAdvance
