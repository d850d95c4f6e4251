CONSTANTS
  c1 = c1
  c2 = c2
  p = p
  q = q
  outside = outside
  title = title
  tldr = tldr
  score = score
  Collections <- TwoCollections
  Docs <- Papers
  S2Docs <- Papers
  S2Fields <- TwoFields
  ComputedFields <- Score
  Enabled = TRUE
  Fetched <- PapersFetched
  Truth <- PapersTruth
SPECIFICATION Spec
SYMMETRY Symmetry2
INVARIANTS
  ValuesTruthful
PROPERTIES
  KnownValueKept
  CachedValueServed
CHECK_DEADLOCK FALSE
