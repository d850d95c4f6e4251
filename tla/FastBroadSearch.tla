--------------------------- MODULE FastBroadSearch ---------------------------
(***************************************************************************)
(* The fast broad search: one gather over all sources, one filter, one     *)
(* order, one judgement of the first documents of that order.              *)
(***************************************************************************)
EXTENDS Documents, FiniteSetsExt

CONSTANTS Papers,
          Arms,       \* the sources enabled, a sequence
          Answers,    \* what a source may answer
          Snippets,   \* what following the snippets may give
          Fitting,    \* the papers of the years and venues asked for
          Relevant,   \* the papers a judge finds relevant
          Unscored,   \* the reranker's word for a paper it has no score for
          Quota       \* fast_broad_search_agent.relevance_judgement_quota

\* Sources and snippets answer with collections of papers.
CollectionsAnswered == /\ Answers \cup Snippets \subseteq Seq(Papers)
                       /\ {Pending, Failed} \cap Answers = {}
                       /\ Len(Arms) \in Nat /\ DOMAIN Arms = 1..Len(Arms)
                       /\ Unscored \in Int /\ Quota \in Nat

VARIABLES inputs, pc, got, response

vars == <<inputs, pc, got, response>>

Init == /\ inputs \in [metadata : BOOLEAN, authors : BOOLEAN]
        /\ pc = "gather"
        /\ got = [arms |-> [i \in DOMAIN Arms |-> Pending], snippets |-> Empty,
                  docs |-> Empty, scores |-> << >>]
        /\ response = NoResponse

ArmAnswers(i) ==
    /\ pc = "gather" /\ got.arms[i] = Pending
    /\ \E s \in Answers \cup {Failed} : got' = [got EXCEPT !.arms[i] = s]
    /\ UNCHANGED <<inputs, pc, response>>

Gathered  == \A i \in DOMAIN Arms : got.arms[i] # Pending

\* mutant: a source that fails takes the others with it
Retrieved_AllOrNothing ==
    IF \E i \in DOMAIN Arms : got.arms[i] = Failed THEN Empty ELSE MergeAll(got.arms)

\* What a source has answered, a source that failed nothing.
AnswerOf(i) == IF got.arms[i] \in {Pending, Failed} THEN Empty ELSE got.arms[i]
Retrieved   == MergeAll([i \in DOMAIN Arms |-> AnswerOf(i)])

Fail == response' = Void /\ pc' = "done" /\ UNCHANGED <<inputs, got>>

NothingRetrieved == pc = "gather" /\ Gathered /\ Retrieved = Empty /\ Fail

\* filter_docs_by_metadata: the filter by authors raises as soon as there is a
\* paper to filter, which it is handed in the place of the authors.
Retrieve ==
    /\ pc = "gather" /\ Gathered /\ Retrieved # Empty
    /\ \E s \in Snippets :
          LET fit == Kept(Merged(Retrieved, s), IF inputs.metadata THEN Fitting ELSE Papers)
          IN  IF inputs.authors /\ fit # Empty THEN Fail
              ELSE /\ got' = [got EXCEPT !.snippets = s, !.docs = fit]
                   /\ pc' = "rerank"
                   /\ UNCHANGED <<inputs, response>>

\* Loading the years, venues or authors raises.
RetrieveFails ==
    /\ pc = "gather" /\ Gathered /\ Retrieved # Empty
    /\ inputs.metadata \/ inputs.authors
    /\ Fail

(***************************************************************************)
(* The order: by the scores of the reranker, or, if it raises or leaves a  *)
(* paper without, by the best rank a paper had in any of the answers, the  *)
(* one from the snippets among them.                                       *)
(***************************************************************************)
Found == {AnswerOf(i) : i \in DOMAIN Arms} \cup {got.snippets}
Ranks(d)    == {Position(s, d) : s \in {t \in Found : d \in DocsOf(t)}}
BestRank(d) == Min(Ranks(d))

Reranked == /\ got.scores # << >>
            /\ \A d \in DocsOf(got.docs) : got.scores[d] # Unscored

RerankDocs == IF Reranked THEN SortedDesc(got.docs, got.scores)
              ELSE SortedDesc(got.docs, [d \in DocsOf(got.docs) |-> 0 - BestRank(d)])

Rerank ==
    /\ pc = "rerank"
    /\ \E f \in {<< >>} \cup [DocsOf(got.docs) -> {Unscored, 0, 1}] :
          got' = [got EXCEPT !.scores = f]
    /\ pc' = "judge"
    /\ UNCHANGED <<inputs, response>>

\* The first documents are judged, and what was not is not relevant.
Judged == Slice(RerankDocs, Quota)

RunRelevanceJudgement ==
    /\ pc = "judge"
    /\ response' = Complete(Kept(Judged, Relevant))
    /\ pc' = "done"
    /\ UNCHANGED <<inputs, got>>

JudgementFails == pc = "judge" /\ got.docs # Empty /\ Fail

Next == \/ \E i \in DOMAIN Arms : ArmAnswers(i)
        \/ NothingRetrieved \/ Retrieve \/ RetrieveFails \/ Rerank
        \/ RunRelevanceJudgement \/ JudgementFails

Spec == Init /\ [][Next]_vars

(***************************************************************************)
(* Properties                                                              *)
(***************************************************************************)
\* While one source answers, the search survives whichever others fail: if it
\* ends in an error before its documents are ordered, either there was nothing
\* at all, or their metadata were asked for (fast_broad_search.py:105).
SurvivesOutage ==
    pc = "done" /\ response = Void /\ got.docs = Empty =>
        \/ \A i \in DOMAIN Arms : got.arms[i] \in {Failed, Empty}
        \/ inputs.metadata \/ inputs.authors

\* No relevant paper is left out that a source put before one that is answered,
\* if the reranker does not say otherwise.
BestRanksAnswered ==
    pc = "done" /\ ~Reranked =>
        \A d \in DocsOf(response.docs) :
            \A e \in (Relevant \cap DocsOf(got.docs)) \ DocsOf(response.docs) :
                BestRank(d) <= BestRank(e)

FastSearchSound == SurvivesOutage /\ BestRanksAnswered
===============================================================================
