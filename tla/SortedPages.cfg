SPECIFICATION FairSpec
CONSTANTS
  d1 = d1
  d2 = d2
  d3 = d3
  novalue = novalue
  nodoc = nodoc
  nocursor = nocursor
  Docs = {d1, d2, d3}
  Values = {1, 2, 3}
  NoValue = novalue
  NoDoc = nodoc
  NoCursor = nocursor
  Score <- MCScore
  Size = 1
  MaxCalls = 3
CHECK_DEADLOCK FALSE
INVARIANTS
  TypeOK
  ResultsInOrder
  OffsetPagesFit
  CleanOnce
PROPERTIES
  PagingEnds
