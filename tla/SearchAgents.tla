----------------------------- MODULE SearchAgents -----------------------------
(***************************************************************************)
(* One call of one of the agents of the paper finder, each of which is a   *)
(* module of its own.  The variable agent says which; the variables of the *)
(* metadata planner stay as they are while another agent runs.             *)
(***************************************************************************)
EXTENDS MetadataPlanner, Documents

CONSTANTS
    NoAuthorMatched, Missing, Unknown,      \* what is not there
    NamePapers, NameStyles, NameContents,   \* of SpecificPaperByName
    NameEvidences, NameAnswers, NameContentAnswers,
    NameSuggestions, NameThreshold, NameLimit,
    AuthorsPapers, AuthorsAuthors, AuthorsBy, AuthorsDated,   \* of SearchByAuthors
    AuthorsPlaced, AuthorsRelevant, AuthorsAnswers,
    AuthorsProfiles, AuthorsConsidered, AuthorsPage,
    AuthorsQuota, AuthorsLimit, AuthorsDisambiguates,
    SnowPapers, SnowCollected, SnowRelevance,     \* of Snowball
    SnowGraphs, SnowBefore, SnowMentioned,
    SnowForwardTopK, SnowBackwardTopK, SnowRunForRecent,
    MentionsCollected, MentionsRerankScores, MentionsTopK,    \* of SnippetSnowball
    CitingAll, CitingGiven, CitingAnchors, CitingOf,     \* of CitingPapers
    CitingSnippets, CitingFitting, CitingRerankScores, CitingMaxCalls,
    DensePapers, DenseGiven, DenseAnchors, DenseRelevance,   \* of DenseAgent
    DenseDatasets, DenseAnswers, DenseExampleDocs, DenseNumQueries, DenseMaxCalls,
    FastPapers, FastArms, FastAnswers, FastSnippets,    \* of FastBroadSearch
    FastFitting, FastRelevant, FastUnscored, FastQuota,
    KeywordPapers, KeywordAnswers, KeywordColumns,       \* of KeywordSearch
    KeywordPreferences, KeywordResultsLimit, KeywordExtraFactor, KeywordRelevant,
    SortPapers, SortFeatures, SortLoaded, SortExtracted, SortYears,    \* of Sorting
    SortCounts, SortRecentFirst, SortRecentLast, SortCentralFirst, SortSnippetScore

VARIABLES agent, inputs, pc, got, response

call == <<inputs, pc, got, response>>
all  == <<agent, vars, call>>

ByName == INSTANCE SpecificPaperByName WITH
    Papers <- NamePapers, Styles <- NameStyles, Contents <- NameContents,
    Evidences <- NameEvidences, ContentAnswers <- NameContentAnswers,
    Suggestions <- NameSuggestions, FilterThreshold <- NameThreshold,
    LimitForSpecific <- NameLimit

ByAuthors == INSTANCE SearchByAuthors WITH
    Papers <- AuthorsPapers, Authors <- AuthorsAuthors, By <- AuthorsBy,
    Dated <- AuthorsDated, Placed <- AuthorsPlaced, Relevant <- AuthorsRelevant,
    Answers <- AuthorsAnswers, Profiles <- AuthorsProfiles,
    Considered <- AuthorsConsidered, Page <- AuthorsPage, Quota <- AuthorsQuota,
    LimitForSpecific <- AuthorsLimit, Disambiguates <- AuthorsDisambiguates

Snow == INSTANCE Snowball WITH
    Papers <- SnowPapers, Collected <- SnowCollected, Relevance <- SnowRelevance,
    Graphs <- SnowGraphs, Before <- SnowBefore, Mentioned <- SnowMentioned,
    ForwardTopK <- SnowForwardTopK, BackwardTopK <- SnowBackwardTopK,
    RunForRecent <- SnowRunForRecent

Mentions == INSTANCE SnippetSnowball WITH
    Collected <- MentionsCollected, RerankScores <- MentionsRerankScores,
    TopK <- MentionsTopK

Citing == INSTANCE CitingPapers WITH
    Papers <- CitingAll, GivenDocs <- CitingGiven, Anchors <- CitingAnchors,
    Citing <- CitingOf, Snippets <- CitingSnippets, Fitting <- CitingFitting,
    RerankScores <- CitingRerankScores, MaxCalls <- CitingMaxCalls

Dense == INSTANCE DenseAgent WITH
    Papers <- DensePapers, GivenDocs <- DenseGiven, Anchors <- DenseAnchors,
    Relevance <- DenseRelevance, Datasets <- DenseDatasets, Answers <- DenseAnswers,
    ExampleDocs <- DenseExampleDocs, NumQueries <- DenseNumQueries,
    MaxCalls <- DenseMaxCalls

Fast == INSTANCE FastBroadSearch WITH
    Papers <- FastPapers, Arms <- FastArms, Answers <- FastAnswers,
    Snippets <- FastSnippets, Fitting <- FastFitting, Relevant <- FastRelevant,
    Unscored <- FastUnscored, Quota <- FastQuota

Keyword == INSTANCE KeywordSearch WITH
    Papers <- KeywordPapers, Answers <- KeywordAnswers, Columns <- KeywordColumns,
    Preferences <- KeywordPreferences, ResultsLimit <- KeywordResultsLimit,
    ExtraFactor <- KeywordExtraFactor, Relevant <- KeywordRelevant

Sort == INSTANCE Sorting WITH
    Papers <- SortPapers, Features <- SortFeatures, Loaded <- SortLoaded,
    Extracted <- SortExtracted,
    Years <- SortYears, Counts <- SortCounts, RecentFirst <- SortRecentFirst,
    RecentLast <- SortRecentLast, CentralFirst <- SortCentralFirst,
    SnippetScore <- SortSnippetScore

\* What the constants of the agents are.
ASSUME SearchAgentsAssumption ==
    /\ ByName!SourcesGiven /\ ByAuthors!CollectionsAnswered /\ Citing!CollectionsGiven
    /\ Dense!AnchorsFit /\ Dense!CollectionsGiven /\ Fast!CollectionsAnswered
    /\ Keyword!ColumnsGiven /\ Sort!SigmoidShapes /\ Sort!FeaturesGiven
    /\ Snow!GraphsGiven /\ Mentions!SnippetsGiven

(***************************************************************************)
(* The composition.  While another agent runs the planner is idle, before  *)
(* a request of its own, any one.                                          *)
(***************************************************************************)
NoCall == inputs = "none" /\ pc = "none" /\ got = "none" /\ response = "none"
Later  == CHOOSE request \in Inputs : TRUE
Idle   == Init /\ specs = Later

AgentsInit ==
    \/ agent = "metadata" /\ Init /\ NoCall
    \/ /\ Idle
       /\ \/ agent = "name"     /\ ByName!Init
          \/ agent = "authors"  /\ ByAuthors!Init
          \/ agent = "snowball" /\ Snow!Init
          \/ agent = "snippets" /\ Mentions!Init
          \/ agent = "citing"   /\ Citing!Init
          \/ agent = "dense"    /\ Dense!Init
          \/ agent = "fast"     /\ Fast!Init
          \/ agent = "keyword"  /\ Keyword!Init
          \/ agent = "sorting"  /\ Sort!Init

Plan == agent = "metadata" /\ Next /\ UNCHANGED <<agent, call>>

StayIdle == UNCHANGED <<agent, vars>>

CallName      == agent = "name"     /\ ByName!Next /\ StayIdle
CallAuthors   == agent = "authors"  /\ ByAuthors!Next /\ StayIdle
CallSnowball  == agent = "snowball" /\ Snow!Next /\ StayIdle
CallSnippets  == agent = "snippets" /\ Mentions!Next /\ StayIdle
CallCiting    == agent = "citing"   /\ Citing!Next /\ StayIdle
CallDense     == agent = "dense"    /\ Dense!Next /\ StayIdle
CallFast      == agent = "fast"     /\ Fast!Next /\ StayIdle
CallKeyword   == agent = "keyword"  /\ Keyword!Next /\ StayIdle
CallSorting   == agent = "sorting"  /\ Sort!Next /\ StayIdle

AgentsNext == \/ Plan \/ CallName \/ CallAuthors \/ CallSnowball \/ CallSnippets
              \/ CallCiting \/ CallDense \/ CallFast \/ CallKeyword \/ CallSorting

AgentsSpec == AgentsInit /\ [][AgentsNext]_all

(***************************************************************************)
(* The properties of the agents, each of them while its agent runs         *)
(***************************************************************************)
\* A paper that both the model's suggestions and the search found is not left out
\* for one that neither puts first, and a source that fails does not empty the
\* answer of the other (specific_paper_by_name_agent.py).
NameAnswerSound == agent = "name" => ByName!AnswerSound

\* A search by authors answers papers within the dates and venues asked for, with a
\* profile of each author's name unless a model suggested them, whichever of its
\* sources fail (search_by_authors_agent.py).
AnswersMeetRequest == agent = "authors" => ByAuthors!AnswersMeetRequest

\* A snowball gives back its seeds whichever direction fails, promotes linked papers
\* only, and none with less support over one with more (snowball_agent.py); the
\* sentences of snippets tile their texts, no mention after the first sentence is
\* lost, and the papers promoted are the ones mentioned (snippet_snowball.py).
SnowballsSound == /\ agent = "snowball" => Snow!SnowballSound
                  /\ agent = "snippets" => Mentions!SnippetsSound

\* Nothing the citing papers agent answered in a call or was given is missing from
\* its next answer, whichever fetch failed in between, and what is new cites an
\* anchor or is one (broad_by_specific_paper_citation_agent.py).
AnswersGrow == [][agent = "citing" => Citing!AnswerGrows]_all

\* A citing paper is sorted by the score the reranker gave it and not by that of
\* another one: "Each document's result is still independent" (dcollection/README.md).
OwnScore == agent = "citing" => Citing!OwnScore

\* A document is shown to the model at most once from the first call that succeeds,
\* answers keep what the agent had, and each index is asked some of the queries, with
\* the user's own among them (dense_agent.py, formulation.py).
DenseSound == agent = "dense" => Dense!DenseSound

\* While one source of a fast broad search answers, the search survives whichever
\* others fail, and no relevant paper is left out that a source put before one that
\* is answered, if the reranker does not say otherwise (fast_broad_search.py).
FastSearchSound == agent = "fast" => Fast!FastSearchSound

\* A document as good in every preference as one that is kept, and found before it,
\* is kept as well (weighted_average_sort); without preferences a judgement that is
\* well better outweighs all else, and a preferred year outweighs one that is not
\* known (sorting.py).
OrdersSound == /\ agent = "keyword" => Keyword!BetterKept
               /\ agent = "sorting" => Sort!SortSound
===============================================================================
