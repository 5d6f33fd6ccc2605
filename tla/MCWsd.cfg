\* Three devices that answer from two hosts and more of them than are taken.
SPECIFICATION Spec
CONSTANTS
  d1 = d1
  d2 = d2
  d3 = d3
  h1 = h1
  h2 = h2
  s1 = s1
  s2 = s2
  token1 = token1
  token2 = token2
  tokenBad = tokenBad
  Device = {d1, d2, d3}
  Host = {h1, h2}
  Service = {s1, s2}
  Match <- MCMatch
  Answer <- MCAnswer
  MaxDatagrams = 2
  MaxMatches = 1
  MaxCandidates = 2
  MaxGeneration = 2
  Word = 8
  MaxResponseBytes = 5
  MaxUriBytes = 1
  MaxRequestBytes = 1
  MediaType = {"soap", "multipart"}
  Credential = {token1, token2, tokenBad}
  Valid = {token1, token2}
  MaxImageBytes = 6
  MaxImages = 2
  MaxListedMatches = 2
  MaxFieldPieces = 2
  MaxListed = 2
  MaxSurprises = 1
  MaxParts = 2
INVARIANTS
  ListResolves
  DecodedAsWritten
PROPERTIES
  ImplementsSelection
  ImplementsTransfer
  CancelEndsCalls
  CallsReturn
