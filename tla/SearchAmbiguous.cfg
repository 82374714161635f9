SPECIFICATION CallSpec
CONSTANTS
  Raw <- MCRaw
  Parts <- MCParts
  Short <- MCShort
  Token <- MCToken
  Lower <- MCLower
  Text <- MCText
  Holds <- MCHolds
  Is <- MCIs
  Order <- MCOrder
  Entry <- MCEntry
  MaxIndex = 3
  Limit = {0, 1, 2}
INVARIANTS
  AmbiguousNamesRejected
