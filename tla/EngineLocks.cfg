SPECIFICATION FairSpec
CONSTANTS
  p1 = p1
  p2 = p2
  g = g
  Procs = {p1, p2, g}
  Idle = Idle
  Nobody = Nobody
  Locks <- MCLocks
  Rank <- LockRank
  Data <- MCData
  Guard <- DataGuard
  Calls <- MCCalls
  Script <- EngineScript
  Careless <- CarelessCalls
  May <- MCMay
INVARIANTS
  TypeOK
  StuckOnlyOnItself
  RacesKnown
PROPERTIES
  CallsEnd
CHECK_DEADLOCK FALSE
