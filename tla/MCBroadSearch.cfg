SPECIFICATION FairSpec
CONSTANTS
  d1 = d1
  d2 = d2
  d3 = d3
  d4 = d4
  anchor = anchor
  q1 = q1
  q2 = q2
  Docs <- MCDocs
  Queries = {q1, q2}
  Levels = {0, 2, 3}
  Origins <- MCOrigins
  Fits <- MCFits
  Sources = {"citing"}
  Quotas = {1, 3}
  Preload = 1
  BatchSizes = {1, 2}
  ScoreCap = 3
  Threshold = 1
INVARIANTS
  QuotaHeld
  ScoresOnce
  JudgedAnswered
PROPERTIES
  KeptOnceFound
  SearchEnds
CHECK_DEADLOCK FALSE
