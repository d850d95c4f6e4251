CONSTANTS
  Docs <- MCDocs
  Meets <- MCMeets
  Inputs <- MCInputs
  Titles <- MCTitles
  Losses <- MCLosses
  NamePapers <- MCNamePapers
  NameStyles <- MCNameStyles
  NameContents <- MCNameContents
  NameEvidences <- MCNameEvidences
  NameAnswers <- MCNameAnswers
  NameContentAnswers <- MCNameContentAnswers
  NameSuggestions <- MCNameSuggestions
  NameThreshold = 2
  NameLimit = 2
  AuthorsPapers <- MCAuthorsPapers
  AuthorsAuthors <- MCAuthorsAuthors
  AuthorsBy <- MCAuthorsBy
  AuthorsDated <- MCAuthorsDated
  AuthorsPlaced <- MCAuthorsPlaced
  AuthorsRelevant <- MCAuthorsRelevant
  AuthorsAnswers <- MCAuthorsAnswers
  AuthorsProfiles <- MCAuthorsProfiles
  AuthorsConsidered = 2
  AuthorsPage = 1
  AuthorsQuota = 1
  AuthorsLimit = 1
  AuthorsDisambiguates = TRUE
  SnowPapers <- MCSnowPapers
  SnowCollected <- MCSnowCollected
  SnowRelevance <- MCSnowRelevance
  SnowGraphs <- MCSnowGraphs
  SnowBefore <- MCSnowBefore
  SnowMentioned <- MCSnowMentioned
  SnowForwardTopK = 1
  SnowBackwardTopK = 1
  SnowRunForRecent = TRUE
  MentionsCollected <- MCMentionsCollected
  MentionsRerankScores <- MCMentionsRerankScores
  MentionsTopK = 1
  CitingAll <- MCCitingAll
  CitingGiven <- MCCitingGiven
  CitingAnchors <- MCCitingAnchors
  CitingOf <- MCCitingOf
  CitingSnippets <- MCCitingSnippets
  CitingFitting <- MCCitingFitting
  CitingRerankScores <- MCCitingRerankScores
  CitingMaxCalls = 2
  DensePapers <- MCDensePapers
  DenseGiven <- MCDenseGiven
  DenseAnchors <- MCDenseAnchors
  DenseRelevance <- MCDenseRelevance
  DenseDatasets <- MCDenseDatasets
  DenseAnswers <- MCDenseAnswers
  DenseExampleDocs = 2
  DenseNumQueries <- MCDenseNumQueries
  DenseMaxCalls = 3
  FastPapers <- MCFastPapers
  FastArms <- MCFastArms
  FastAnswers <- MCFastAnswers
  FastSnippets <- MCFastSnippets
  FastFitting <- MCFastFitting
  FastRelevant <- MCFastRelevant
  FastUnscored <- MCFastUnscored
  FastQuota = 2
  KeywordPapers <- MCKeywordPapers
  KeywordAnswers <- MCKeywordAnswers
  KeywordColumns <- MCKeywordColumns
  KeywordPreferences <- MCKeywordPreferences
  KeywordResultsLimit = 1
  KeywordExtraFactor = 3
  KeywordRelevant <- MCKeywordRelevant
  SortPapers <- MCSortPapers
  SortFeatures <- MCSortFeatures
  SortLoaded <- MCSortLoaded
  SortExtracted <- MCSortExtracted
  SortYears <- MCSortYears
  SortCounts <- MCSortCounts
  SortRecentFirst <- MCSortRecentFirst
  SortRecentLast <- MCSortRecentLast
  SortCentralFirst <- MCSortCentralFirst
  SortSnippetScore <- MCSortSnippetScore
  Pending = Pending
  Failed = Failed
  NotAsked = NotAsked
  NoAuthorMatched = NoAuthorMatched
  Missing = Missing
  Unknown = Unknown
  p1 = p1
  p2 = p2
  p3 = p3
  a = a
  b = b
SPECIFICATION AgentsSpec
INVARIANTS
  NothingDropped
  PlanExact
  NameAnswerSound
  AnswersMeetRequest
  SnowballsSound
  
  FastSearchSound
  OrdersSound
PROPERTIES
  RulesConsume
  AnswersGrow
CHECK_DEADLOCK FALSE
