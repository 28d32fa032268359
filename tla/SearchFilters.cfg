SPECIFICATION Spec
CONSTANTS
  d1 = d1
  d2 = d2
  title = title
  body = body
  a = a
  b = b
  Docs = {d1, d2}
  Fields = {title, body}
  Words = {a, b}
  Contents <- MCContents
  NoDoc = NoDoc
  Synonyms <- MCSynonyms
  Queries <- MCQueries
  InRange = {d1}
  Passes = {d1}
  MaxSegments = 1
  MaxWrites = 3
INVARIANTS
  FiltersAreMandatory
CHECK_DEADLOCK FALSE
