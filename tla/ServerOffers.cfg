SPECIFICATION Spec
CONSTANTS
  codex = codex
  claude = claude
  v1 = v1
  v2 = v2
  ns = ns
  Raw <- MCRaw
  Parts <- MCParts
  Short = {}
  Token <- MCRaw
  Lower <- MCLower
  Text <- MCText
  Holds <- MCHolds
  Is <- MCIs
  Order <- MCOrder
  Path = {codex, claude}
  PathOrder <- MCPathOrder
  SourceOf <- MCSources
  Content = {v1, v2, ns}
  NameOf <- MCNames
  DescriptionOf <- MCDescriptions
  TagsOf <- MCTags
  SuffixOf <- MCSuffixes
  Query <- MCQuery
  Omitted = Omitted
  LimitArgument = {Omitted, 1, 11}
  Blank = Blank
  Missing = Missing
  Escaped = Escaped
  NoName = NoName
  Nothing = Nothing
INVARIANTS
  OfferedNamesResolve
