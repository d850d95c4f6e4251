------------------------------- MODULE Sorting -------------------------------
(***************************************************************************)
(* How the paper finder orders what it answers (sorted_docs_by_preferences)*)
(* by a sum of relevance, recency and centrality.  Each of them is a share *)
(* of Unit; weights are thousandths.  The sigmoids are tables whose shape  *)
(* is assumed.                                                             *)
(***************************************************************************)
EXTENDS Documents

CONSTANTS Papers,
          Features,     \* what papers may look like: [Papers -> records]
          Unknown,      \* stands for a field that is not loaded
          Loaded,       \* the fields that may be loaded before: sets of fields
          Extracted,    \* the preferences a query may state
          Years, Counts,
          RecentFirst, RecentLast,   \* the sigmoids of a year: one that rises,
                                     \* one that falls
          CentralFirst, \* the sigmoid of a number of citations, 0 for none
          SnippetScore  \* the sigmoid of a number of snippets, 0 for none

Unit == 300

SigmoidShapes ==
    /\ \A y, z \in Years : y < z => /\ RecentFirst[y] <= RecentFirst[z]
                                    /\ RecentLast[y] >= RecentLast[z]
    /\ \A m, n \in Counts : m < n => CentralFirst[m] <= CentralFirst[n]
    /\ \A y \in Years : RecentFirst[y] \in 0..Unit /\ RecentLast[y] \in 0..Unit
    /\ \A n \in Counts : CentralFirst[n] \in 0..Unit
    /\ \A n \in DOMAIN SnippetScore : SnippetScore[n] \in 0..Unit

\* What is known of a paper: the score of its judgement, a share of the whole,
\* and that of its reranking, its snippets and mentions, a year and a count.  A
\* query may state both directions.
FeaturesGiven ==
    /\ IsFiniteSet(Papers)
    /\ Features \subseteq
          [Papers -> [relevance : 0..Unit \cup {Unknown}, rerank : 0..Unit \cup {Unknown},
                      snippets : DOMAIN SnippetScore, year : Years \cup {Unknown},
                      citations : Counts \cup {Unknown}]]
    /\ Loaded \subseteq SUBSET {"relevance", "rerank", "year", "citations"}
    /\ LET preference == {"none", "first", "last", "both"}
       IN  Extracted \subseteq [recent : preference, central : preference]

VARIABLES inputs, pc, got, response

vars == <<inputs, pc, got, response>>

\* SortPreferences.from_analyzed_query: a query that states no preference may
\* be taken to want recent or cited papers, which is not explicit.
Init ==
    /\ inputs \in [docs : {s \in Collections(Papers) : Len(s) = Cardinality(Papers)},
                   features : Features, extracted : Extracted, loaded : Loaded,
                   assume : BOOLEAN, content : BOOLEAN]
    /\ pc = "start" /\ got = {} /\ response = NoResponse

RecentExplicit  == inputs.extracted.recent # "none"
CentralExplicit == inputs.extracted.central # "none"
RecentLastWanted  == inputs.extracted.recent \in {"last", "both"}
CentralLastWanted == inputs.extracted.central \in {"last", "both"}
WantsRecent  == inputs.extracted.recent \in {"first", "both"} \/ (inputs.assume /\ ~RecentLastWanted)
WantsCentral == inputs.extracted.central \in {"first", "both"} \/ (inputs.assume /\ ~CentralLastWanted)

\* SortPreferences.required_fields
RequiredFields ==
    (IF inputs.content THEN {"relevance", "rerank"} ELSE {})
    \cup (IF WantsRecent \/ RecentLastWanted THEN {"year"} ELSE {})
    \cup (IF WantsCentral \/ CentralLastWanted THEN {"citations"} ELSE {})

\* with_fields may raise after it has loaded some of the fields, and the
\* papers are sorted by what there is.
Load == /\ pc = "start"
        /\ \E fields \in SUBSET RequiredFields : got' = inputs.loaded \cup fields
        /\ pc' = "sort"
        /\ UNCHANGED <<inputs, response>>

ValueOf(d, field) == IF field \in got \cup {"snippets"} THEN inputs.features[d][field]
                                                        ELSE Unknown

(***************************************************************************)
(* The scores                                                              *)
(***************************************************************************)
Max0(v) == IF v = Unknown THEN 0 ELSE v

\* _convert_relevance_score_to_level
Level(score) == CASE score <= (25 * Unit) \div 100 -> 0
                  [] score > (25 * Unit) \div 100 /\ score <= (67 * Unit) \div 100 -> 1
                  [] score > (67 * Unit) \div 100 /\ score <= (99 * Unit) \div 100 -> 2
                  [] OTHER -> 3

\* mutant: the level is added and not the score
ContentRelevance_Level(d) ==
    900 * ((Unit \div 3) * Level(Max0(ValueOf(d, "relevance"))))
    + 75 * Max0(ValueOf(d, "rerank")) + 25 * SnippetScore[inputs.features[d].snippets]

\* content_relevance_score: the score of the judgement, which is not its level,
\* a rerank score and the number of snippets, nine tenths of it the judgement.
ContentRelevance(d) == 900 * Max0(ValueOf(d, "relevance"))
                       + 75 * Max0(ValueOf(d, "rerank"))
                       + 25 * SnippetScore[inputs.features[d].snippets]

\* mutant: the earliest papers are asked for and the latest preferred
Recency_First(d) ==
    LET y == ValueOf(d, "year") IN IF y = Unknown THEN 0 ELSE RecentFirst[y]

\* A paper without a year is as bad as the worst either way.
Recency(d) ==
    LET y == ValueOf(d, "year")
    IN  CASE y = Unknown -> 0
          [] y # Unknown /\ RecentLastWanted -> RecentLast[y]
          [] OTHER -> RecentFirst[y]

\* A paper whose citations are not known counts as one without any, which is
\* the best if the least cited are asked for.
Centrality(d) ==
    LET n     == ValueOf(d, "citations")
        first == IF n = Unknown THEN 0 ELSE CentralFirst[n]
    IN  IF CentralLastWanted THEN Unit - first ELSE first

\* SortPreferences.get_scoring_weights
ScoringWeights ==
    LET of(c, r, z) == [content |-> c, recent |-> r, central |-> z]
    IN  CASE RecentExplicit /\ CentralExplicit ->
               IF inputs.content THEN of(800, 100, 100) ELSE of(0, 500, 500)
          [] RecentExplicit /\ ~CentralExplicit ->
               IF inputs.content THEN of(800, 175, 25) ELSE of(0, 900, 100)
          [] ~RecentExplicit /\ CentralExplicit ->
               IF inputs.content THEN of(800, 25, 175) ELSE of(0, 100, 900)
          [] OTHER ->
               IF inputs.content THEN of(950, 25, 25) ELSE of(0, 500, 500)

BroadSearchScore(d) == ScoringWeights.content * ContentRelevance(d)
                       + 1000 * ScoringWeights.recent * Recency(d)
                       + 1000 * ScoringWeights.central * Centrality(d)

SortedDocsByPreferences ==
    /\ pc = "sort"
    /\ response' = Complete(SortedDesc(inputs.docs,
                                       [d \in Papers |-> BroadSearchScore(d)]))
    /\ pc' = "done"
    /\ UNCHANGED <<inputs, got>>

Next == Load \/ SortedDocsByPreferences

Spec == Init /\ [][Next]_vars

(***************************************************************************)
(* Properties                                                              *)
(***************************************************************************)
Before(d, e) == Position(response.docs, d) < Position(response.docs, e)

Judgement(d) == Max0(ValueOf(d, "relevance"))

\* If the query states no preference, a judgement that is better by 17 hundredths
\* outweighs all else, and so do two levels of relevance.  One level does not: a
\* paper of level 1 may come before one of level 2 that is hardly better.
RelevanceDominates ==
    pc = "done" /\ inputs.content /\ ~RecentExplicit /\ ~CentralExplicit =>
        \A d, e \in Papers :
            \/ 100 * Judgement(d) >= 100 * Judgement(e) + 17 * Unit
            \/ Level(Judgement(d)) >= Level(Judgement(e)) + 2
            => Before(d, e)

\* If it asks for the earliest or the latest, then of papers that are alike in
\* all else the one that fits comes first, and none whose year is not known
\* before one whose year is.  Asking for both is asking for the earliest.
RecencyRespected ==
    pc = "done" /\ RecentExplicit /\ "year" \in got =>
        \A d, e \in Papers :
            LET y == inputs.features[d].year
                z == inputs.features[e].year
            IN  /\ [inputs.features[d] EXCEPT !.year = z] = inputs.features[e]
                /\ y # Unknown
                /\ \/ z = Unknown /\ Recency(d) > 0
                   \/ z # Unknown /\ inputs.extracted.recent = "first"
                                  /\ RecentFirst[y] > RecentFirst[z]
                   \/ z # Unknown /\ inputs.extracted.recent \in {"last", "both"}
                                  /\ RecentLast[y] > RecentLast[z]
                => Before(d, e)

SortSound == RelevanceDominates /\ RecencyRespected
==============================================================================
