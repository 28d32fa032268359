SPECIFICATION StoreSpec
CONSTANTS
  nil = nil
  unknown = unknown
  Keys = {1, 2}
  Values <- MCValues
  NoValue = nil
  Unknown = unknown
  MaxFile = 17
  MaxTears = 1
INVARIANTS
  StoreTypeOK
  RestartChangesNothing
  UndamagedReadsBack
PROPERTIES
  RewriteKeepsReads
  ImplementsKV
