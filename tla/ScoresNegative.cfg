SPECIFICATION Spec
CONSTANTS
  d1 = d1
  d2 = d2
  newYork = newYork
  n42 = n42
  n314 = n314
  Docs = {d1, d2}
  Values = {newYork, n42, n314}
  Infer <- MCInfer
  Parses <- MCParses
  Tokens <- MCTokens
  Raw <- MCRaw
  NoDoc = NoDoc
  NoValue = NoValue
  None = None
  Mappings <- MCMappings
  MaxSegments = 1
  MaxCalls = 3
INVARIANTS
  ScoresNotNegative
SYMMETRY DocSymmetry
CHECK_DEADLOCK FALSE
