---------------------------- MODULE KeywordSearch ----------------------------
(***************************************************************************)
(* The agent that searches Semantic Scholar by keywords.  If the user      *)
(* prefers recent or cited papers it fetches some times more than it needs *)
(* and keeps the best by weight.                                           *)
(***************************************************************************)
EXTENDS Documents, WeightedSort

CONSTANTS Papers,       \* the papers that may be found
          Answers,      \* what Semantic Scholar may answer, best first
          Columns,      \* what documents may look like: columns by name
          Preferences,  \* the preferences a search may have
          ResultsLimit, \* broad_search_by_keyword_agent.results_limit
          ExtraFactor,  \* broad_search_by_keyword_agent.extra_results_factor
          Relevant      \* the papers a judge finds relevant

\* Answers are collections of papers, and columns give each paper a number or
\* nothing.  What the agent is asked to prefer it never takes to be explicit.
ColumnsGiven ==
    /\ Answers \subseteq Seq(Papers) /\ IsFiniteSet(Papers)
    /\ \A s \in Answers : \A i, j \in DOMAIN s : s[i] = s[j] => i = j
    /\ LET column == [Papers -> Int \cup {Missing}]
       IN  Columns \subseteq [year : column, citations : column,
                             rerank : column, snippets : column]
    /\ \A prefs \in Preferences : ~prefs.recentExplicit /\ ~prefs.centralExplicit
    /\ ResultsLimit \in Nat /\ ExtraFactor \in Nat /\ Missing \notin Int

VARIABLES inputs, pc, got, response

vars == <<inputs, pc, got, response>>

Init == /\ inputs \in [content : BOOLEAN, prefs : Preferences, judge : BOOLEAN,
                       columns : Columns]
        /\ pc = "start" /\ got = Pending /\ response = NoResponse

\* An exception of search() becomes an error in Operative.__call__.
Fail == response' = Void /\ pc' = "done" /\ UNCHANGED <<inputs, got>>

NoContent == pc = "start" /\ ~inputs.content /\ Fail

Prefers == inputs.prefs.recentFirst \/ inputs.prefs.recentLast
           \/ inputs.prefs.centralFirst \/ inputs.prefs.centralLast

Limit == IF Prefers THEN ResultsLimit * ExtraFactor ELSE ResultsLimit

Search ==
    /\ pc = "start" /\ inputs.content
    /\ \E s \in Answers : got' = Slice(s, Limit)
    /\ pc' = "sort"
    /\ UNCHANGED <<inputs, response>>

\* The model that writes the query or the search raises.
SearchFails == pc = "start" /\ inputs.content /\ Fail

\* mutant: what is missing counts as the best
SortKey_MissingFirst ==
    WeightedAverage([k \in DOMAIN inputs.columns |->
                        [d \in DocsOf(got) |-> IF inputs.columns[k][d] = Missing THEN 9999
                                               ELSE inputs.columns[k][d]]],
                    SortingWeights(inputs.prefs))

SortKey == WeightedAverage([k \in DOMAIN inputs.columns |->
                               [d \in DocsOf(got) |-> inputs.columns[k][d]]],
                           SortingWeights(inputs.prefs))

Results == IF Prefers /\ got # Empty
           THEN Slice(SortedDesc(got, SortKey), ResultsLimit)
           ELSE got

Respond ==
    /\ pc = "sort"
    /\ response' = Complete(IF inputs.judge THEN Kept(Results, Relevant) ELSE Results)
    /\ pc' = "done"
    /\ UNCHANGED <<inputs, got>>

\* Loading what the order or the judge needs raises.
LoadFails == pc = "sort" /\ (Prefers \/ inputs.judge) /\ Fail

Next == NoContent \/ Search \/ SearchFails \/ Respond \/ LoadFails

Spec == Init /\ [][Next]_vars

(***************************************************************************)
(* Properties                                                              *)
(***************************************************************************)
\* b is at least as good as a for every preference that weighs something, and
\* a value that is missing is never better than one that is known.
AsGood(b, a) ==
    LET weights == SortingWeights(inputs.prefs)
    IN  \A k \in {j \in DOMAIN weights : weights[j] # 0} :
            LET va == inputs.columns[k][a]
                vb == inputs.columns[k][b]
            IN  \/ va = Missing
                \/ vb # Missing /\ IF weights[k] > 0 THEN vb >= va ELSE vb <= va

\* A document as good in every preference as one that is kept, and before it
\* in the answer of the search, is kept as well: neither cutting the outliers
\* nor filling in what is missing turns that round.
BetterKept ==
    pc = "done" /\ Prefers /\ ~inputs.judge =>
        \A a \in DocsOf(response.docs) : \A b \in DocsOf(got) :
            AsGood(b, a) /\ Position(got, b) < Position(got, a)
                => b \in DocsOf(response.docs)
===============================================================================
