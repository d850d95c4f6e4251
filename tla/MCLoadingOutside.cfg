CONSTANTS
  c1 = c1
  c2 = c2
  p = p
  q = q
  outside = outside
  title = title
  tldr = tldr
  score = score
  Collections <- OneCollection
  Docs <- Mixed
  S2Docs <- OnlyP
  S2Fields <- TwoFields
  ComputedFields <- Score
  Enabled = TRUE
  Fetched <- MixedFetched
  Truth <- MixedTruth
SPECIFICATION Spec
PROPERTIES
  OutsideDocsUntouched
CHECK_DEADLOCK FALSE
