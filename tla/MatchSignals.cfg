SPECIFICATION Spec
CONSTANTS
  shared = shared
  g0 = g0
  g1 = g1
  k0 = k0
  k1 = k1
  GoldName <- MCGoldName
  GateName <- MCGateName
  bit_index <- MCBitIndex
  MatchType <- MCMatchType
  Score <- MCScore
  MaxTries = 2
  MaxItems = 2
SYMMETRY MCSymmetry
INVARIANT TypeOK
INVARIANT OneCutPointPerName
INVARIANT FilesAgree
INVARIANT CountsAreFresh
INVARIANT SuggestionIsUnrivalled
