SPECIFICATION Spec
CONSTANTS
  d1 = d1
  d2 = d2
  c1 = c1
  c2 = c2
  absent = absent
  none = none
  partial = partial
  broken = broken
  Docs = {d1, d2}
  Contents = {c1, c2}
  NoDoc = absent
  None = none
  Partial = partial
  Broken = broken
  MaxLog = 3
  MaxFaults = 2
SYMMETRY Symmetry
INVARIANTS
  TypeOK
  UnharmedSurvives
  DiskHoldsIndex
