SPECIFICATION Spec
CONSTANTS
  d1 = d1
  d2 = d2
  f1 = f1
  f2 = f2
  nobound = nobound
  novalue = novalue
  noentry = noentry
  nofield = nofield
  noop = noop
  Docs = {d1, d2}
  Fields = {f1, f2}
  Values = {1, 2}
  Queries <- MCQueries
  NoBound = nobound
  NoValue = novalue
  NoEntry = noentry
  NoField = nofield
  NoOp = noop
  LeafSize = 1
  MaxCalls = 4
SYMMETRY MCSymmetry
CHECK_DEADLOCK FALSE
INVARIANTS
  TypeOK
  SettledExact
  NeverByOldValue
  DeletedGone
