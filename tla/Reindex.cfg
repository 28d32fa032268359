SPECIFICATION FairSpec
CONSTANTS
  d1 = d1
  d2 = d2
  d3 = d3
  d4 = d4
  c1 = c1
  c2 = c2
  w1 = w1
  w2 = w2
  absent = absent
  none = none
  live = live
  Docs = {d1, d2, d3}
  Contents = {c1}
  Workers = {w1, w2}
  NoDoc = absent
  NoJob = none
  Live = live
  MaxCalls = 3
CHECK_DEADLOCK FALSE
INVARIANTS
  TypeOK
  RoomToSend
  UntouchedSurvive
  OnlyInHand
  NoneVanishes
PROPERTIES
  RebuildEnds
