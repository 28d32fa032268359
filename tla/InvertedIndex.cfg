SPECIFICATION FairSpec
CONSTANTS
  d1 = d1
  d2 = d2
  t1 = t1
  t2 = t2
  Docs = {d1, d2}
  Terms = {t1, t2}
  Texts <- MCTexts
  MaxTokens = 2
  FlushSize = 0
  FlushInterval = 1
  MaxSegments = 1
  MaxGen = 1
  MaxDocCount = 2
INVARIANTS
  TypeOK
  Completeness
  NewestIsCurrent
PROPERTIES
  MergeKeepsAnswers
  OnlyMergeUnhides
  MergeFinishes
CHECK_DEADLOCK FALSE
