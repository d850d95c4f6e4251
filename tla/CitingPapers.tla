----------------------------- MODULE CitingPapers -----------------------------
(***************************************************************************)
(* The agent that answers "papers that use the BERT paper" by the papers   *)
(* that cite it.  It looks for the paper by its name, without a content,   *)
(* which finds nothing (SpecificPaperByName), so that only the citations   *)
(* of the anchors are followed.  It is called again and again in one       *)
(* search and keeps its results between the calls.                         *)
(***************************************************************************)
EXTENDS Documents, WeightedSort

CONSTANTS Papers,
          Anchors,     \* what anchor_doc_collection may be
          GivenDocs,       \* what doc_collection may be
          Citing,      \* Citing[p]: the papers that cite p, a collection
          Snippets,    \* Snippets[p]: how many snippets p came with
          Fitting,     \* the papers of the years and venues asked for
          RerankScores,\* scores of the reranker
          MaxCalls

\* What is given and what cites a paper are collections of papers.
CollectionsGiven == /\ GivenDocs \cup Anchors \subseteq Seq(Papers) /\ IsFiniteSet(Papers)
                    /\ Citing \in [Papers -> Seq(Papers)] /\ Snippets \in [Papers -> Nat]
                    /\ RerankScores \subseteq Int /\ Missing \notin Int

VARIABLES inputs, pc, got, response

vars == <<inputs, pc, got, response>>

Requests == [docs : GivenDocs, anchors : Anchors, named : BOOLEAN,
             years : BOOLEAN, authors : BOOLEAN]

Init == /\ inputs \in Requests
        /\ pc = "start"
        /\ got = [checkpoint |-> Empty, iteration |-> 1, fetched |-> << >>,
                  scores |-> << >>]
        /\ response = NoResponse

\* What the agent has and what it is given.
Held == IF got.checkpoint = Empty THEN inputs.docs
                                  ELSE Merged(got.checkpoint, inputs.docs)

Respond(docs) ==
    /\ response' = Complete(docs)
    /\ got' = [got EXCEPT !.checkpoint = docs, !.iteration = @ + 1,
                          !.fetched = << >>, !.scores = << >>]
    /\ pc' = "done"
    /\ UNCHANGED inputs

\* handle_operation raises, and Operative.__call__ answers with an error.
NameRequired ==
    /\ pc = "start" /\ ~inputs.named
    /\ response' = Void /\ pc' = "done"
    /\ UNCHANGED <<inputs, got>>

NoSpecificPaper ==
    /\ pc = "start" /\ inputs.named /\ inputs.anchors = Empty
    /\ Respond(Held)

Start ==
    /\ pc = "start" /\ inputs.named /\ inputs.anchors # Empty
    /\ got' = [got EXCEPT !.fetched = [i \in DOMAIN inputs.anchors |-> Pending]]
    /\ pc' = "fetch"
    /\ UNCHANGED <<inputs, response>>

\* fetch_citing_papers: the papers of the years asked for, with snippets.  The
\* filter by authors raises as soon as there is a paper to filter: partial
\* hands it the paper in the place of the authors (filter_docs_by_metadata).
FetchCitingPapers(i) ==
    LET all == Citing[inputs.anchors[i]]
        fit == Kept(all, IF inputs.years THEN Fitting ELSE Papers)
    IN  IF inputs.authors /\ fit # Empty THEN Failed
        ELSE Kept(fit, {d \in Papers : Snippets[d] > 0})

FetchAnswers(i) ==
    /\ pc = "fetch" /\ got.fetched[i] = Pending
    /\ \E s \in {FetchCitingPapers(i), Failed} :
          got' = [got EXCEPT !.fetched[i] = s]
    /\ UNCHANGED <<inputs, pc, response>>

\* The first fetch that raises ends the gather, and nothing cites anything.
Gathered == \/ \E i \in DOMAIN got.fetched : got.fetched[i] = Failed
            \/ \A i \in DOMAIN got.fetched : got.fetched[i] # Pending

CitingPapersFound ==
    IF \E i \in DOMAIN got.fetched : got.fetched[i] = Failed THEN Empty
    ELSE MergeAll(got.fetched)

\* The reranker answers with its scores in an order of its own, the best first
\* (external): a sequence of [doc, score].  A failure is worth 0 for everyone.
Answers(docs) ==
    {a \in [DOMAIN docs -> [doc : DocsOf(docs), score : RerankScores]] :
        \A i, j \in DOMAIN a : i < j => a[i].doc # a[j].doc /\ a[i].score >= a[j].score}

Zeros(docs) == [i \in DOMAIN docs |-> [doc |-> docs[i], score |-> 0]]

Rerank ==
    /\ pc = "fetch" /\ Gathered
    /\ \E a \in Answers(CitingPapersFound) \cup {Zeros(CitingPapersFound)} :
          got' = [got EXCEPT !.scores = a]
    /\ pc' = "sort"
    /\ UNCHANGED <<inputs, response>>

\* mutant: scores are attached by the paper they are of
RerankScoreOf_ByPaper(d) ==
    LET i == CHOOSE j \in DOMAIN got.scores : got.scores[j].doc = d
    IN  got.scores[i].score

\* rerank_title_and_snippets returns the scores in the order of the answer:
\* the first paper given gets the first score.
RerankScoreOf(d) == got.scores[Position(CitingPapersFound, d)].score

SortKey ==
    LET docs == DocsOf(CitingPapersFound)
    IN  WeightedAverage([rerank |-> [d \in docs |-> RerankScoreOf(d)],
                         snippets |-> [d \in docs |-> Snippets[d]]],
                        [rerank |-> 100, snippets |-> 25])

Sorted == IF CitingPapersFound = Empty THEN Empty
          ELSE SortedDesc(CitingPapersFound, SortKey)

\* mutant: what the earlier calls found is not merged
Sort_Forgetful ==
    /\ pc = "sort"
    /\ Respond(Merged(inputs.docs, Merged(inputs.anchors, Sorted)))

Sort ==
    /\ pc = "sort"
    /\ LET results == Merged(inputs.anchors, Sorted)
       IN  Respond(IF Held = Empty THEN results ELSE Merged(Held, results))

CallAgain ==
    /\ pc = "done" /\ got.iteration <= MaxCalls
    /\ inputs' \in {i \in Requests : i.anchors = inputs.anchors}
    /\ pc' = "start" /\ response' = NoResponse
    /\ UNCHANGED got

Next == \/ NameRequired \/ NoSpecificPaper \/ Start \/ Rerank \/ Sort \/ CallAgain
        \/ \E i \in DOMAIN got.fetched : FetchAnswers(i)

Spec == Init /\ [][Next]_vars

(***************************************************************************)
(* Properties                                                              *)
(***************************************************************************)
\* Nothing the agent answered in a call or was given is missing from the next
\* answer, whichever fetch failed in between; and what is new cites an anchor
\* or is one.
AnswerGrows ==
    response.kind = "none" /\ response'.kind = "complete" =>
        /\ DocsOf(got.checkpoint) \cup DocsOf(inputs.docs) \subseteq DocsOf(response'.docs)
        /\ \A d \in DocsOf(response'.docs)
                      \ (DocsOf(got.checkpoint) \cup DocsOf(inputs.docs)) :
              \E p \in DocsOf(inputs.anchors) : d = p \/ d \in DocsOf(Citing[p])

\* A paper is sorted by the score the reranker gave it: libs/dcollection/README.md
\* says of a field computed in a batch "Each document's result is still
\* independent", and rerank_score_field puts the scores in order first.
OwnScore ==
    pc = "sort" =>
        \A i \in DOMAIN got.scores : RerankScoreOf(got.scores[i].doc) = got.scores[i].score
===============================================================================
