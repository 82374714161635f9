SPECIFICATION FairSpec
CONSTANTS
  Call = {c1, c2}
  skillMd = skillMd
  pluginMd = pluginMd
  Path = {skillMd, pluginMd}
  plain = plain
  plugin = plugin
  unknown = unknown
  Name = {plain, plugin, unknown}
  Blank = Blank
  EntryName <- Entries
  SuffixOf <- Suffixes
  v1 = v1
  v2 = v2
  other = other
  Content = {v1, v2, other}
  NameIn <- Names
  NoName = NoName
  Checksum <- Digests
  SHA256 <- Digest
  Missing = Missing
  Escaped = Escaped
  NoRequest = NoRequest
  NoResult = NoResult
  NoPath = NoPath
  NoDoc = NoDoc
INVARIANTS
  TypeOK
  CachedDocumentsValid
PROPERTIES
  EvictsOnlyWhatItSaw
  AnswersFromOneState
  EveryCallAnswered
