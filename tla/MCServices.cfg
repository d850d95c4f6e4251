CONSTANTS
  Unions <- MCUnions
  ForceBroad = FALSE
  Waiters <- MCWaiters
  Permits = 1
  QueueLimit = 2
  Settings <- MCSettings
  Given <- MCGiven
  Fallbacks <- MCFallbacks
  SnippetPapers <- MCSnippetPapers
  Quotes <- MCQuotes
  ComboLimit = 8
  Documents <- MCDocuments
  Criteria <- MCCriteria
  KeepIrrelevant = TRUE
  Environments <- MCEnvironments
  MaxHolders = 2
  Worlds <- MCWorlds
  Relevance <- MCRelevance
  MaxCalls = 5
  Loads <- MCLoads
  Current <- MCCurrent
  Foreign = {9}
  Many = {3, 7}
  BatchSize = 2
  LoadsAtOnce = 1
  Searches <- MCSearches
  Corpora <- MCCorpora
  DaysPerYear = 4
  DaysPerMonth = 2
  PageSize = 2
  S2Attempts = 2
SPECIFICATION MCSpec
INVARIANTS
  AgentsGetTheirInput
  ErrorsAreExplained
  SpecificFallsBack
  CallsSound
  EndpointsSound
  ComputedFieldsSound
  FetchingSound
  EnvSound
PROPERTIES
  HeapIsPriorityQueue
  BatchAnswered
  FusingSound
CHECK_DEADLOCK FALSE
