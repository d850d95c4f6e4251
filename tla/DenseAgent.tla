------------------------------ MODULE DenseAgent ------------------------------
(***************************************************************************)
(* The agent that searches the dense indices.  A model formulates queries, *)
(* in the first call from the query alone, later from relevant documents   *)
(* it has not yet been shown; every index is asked some of the queries.    *)
(* What it found and showed is kept between the calls of a search.         *)
(***************************************************************************)
EXTENDS Documents

CONSTANTS Papers,
          GivenDocs,          \* what doc_collection may be
          Anchors,        \* what anchor_doc_collection may be
          Relevance,      \* Relevance[d]: how relevant d was judged, 0..3
          Datasets,       \* the indices
          Answers,        \* what an index may answer to some queries
          ExampleDocs,    \* reformulate_prompt_example_docs
          NumQueries,     \* the lengths of a list of queries of the model
          MaxCalls

\* The anchors are fewer than the examples the prompt takes.
AnchorsFit == \A a \in Anchors : Len(a) <= ExampleDocs

\* What is given and answered are collections of papers, of finitely many indices.
CollectionsGiven == /\ GivenDocs \cup Anchors \cup Answers \subseteq Seq(Papers)
                    /\ IsFiniteSet(Datasets) /\ NumQueries \subseteq Nat
                    /\ {Pending, Failed} \cap Answers = {}

VARIABLES inputs, pc, got, response

vars == <<inputs, pc, got, response>>

Requests == [docs : GivenDocs, anchors : Anchors, short : BOOLEAN]

\* state: what the agent keeps.  stored: whether there is a state to keep, as
\* a first call that fails leaves none.  Two are histories, for the properties:
\* shown, how often the model was shown a document since then, 2 for more than
\* once, and found, what every call that succeeded was given or answered.
Init == /\ inputs \in Requests
        /\ pc = "start"
        /\ got = [checkpoint |-> Empty, excluded |-> {}, iteration |-> 1,
                  stored |-> FALSE, examples |-> {}, queries |-> 0,
                  answers |-> << >>, shown |-> [d \in Papers |-> 0], found |-> {},
                  calls |-> 1]
        /\ response = NoResponse

\* mutant: what is given in a call takes the place of what was kept
Documents_Given == IF inputs.docs = Empty THEN got.checkpoint ELSE inputs.docs

Documents_ == IF got.checkpoint = Empty THEN inputs.docs
                                        ELSE Merged(got.checkpoint, inputs.docs)

\* The query itself is one of the queries of the first call, unless it is too
\* long.
OwnQuery == IF got.iteration = 1 /\ inputs.short THEN 1 ELSE 0

(***************************************************************************)
(* The queries                                                             *)
(***************************************************************************)
RelevantDocs == {d \in DocsOf(Documents_) : Relevance[d] >= 1 /\ d \notin got.excluded}

\* sample(): a stratified sample, any set of its size here.
Samples(S, n) == {T \in SUBSET S : Cardinality(T) = IF n < Cardinality(S) THEN n
                                                    ELSE Cardinality(S)}

Counted(shown, S) == [d \in Papers |-> IF d \in S /\ shown[d] < 2 THEN shown[d] + 1
                                                                 ELSE shown[d]]

Ask(n, examples) ==
    /\ got' = [got EXCEPT !.queries = n, !.examples = examples,
                          !.excluded = @ \cup examples,
                          !.shown = Counted(@, examples),
                          !.answers = [i \in Datasets |-> Pending]]
    /\ pc' = "fetch"
    /\ UNCHANGED <<inputs, response>>

\* With nothing to show the model formulates queries by several prompts; one
\* that fails gives none.
Formulate ==
    /\ pc = "start" /\ Documents_ = Empty /\ inputs.anchors = Empty
    /\ \E n \in NumQueries \cup {0} : Ask(OwnQuery + n, {})

\* mutant: the documents shown to the model are not excluded
Reformulate_Again ==
    /\ pc = "start" /\ (Documents_ # Empty \/ inputs.anchors # Empty)
    /\ RelevantDocs # {} \/ inputs.anchors # Empty
    /\ \E n \in NumQueries, T \in Samples(RelevantDocs, ExampleDocs - Len(inputs.anchors)) :
          got' = [got EXCEPT !.queries = OwnQuery + n,
                             !.examples = T \cup DocsOf(inputs.anchors),
                             !.shown = Counted(@, T),
                             !.answers = [i \in Datasets |-> Pending]]
    /\ pc' = "fetch"
    /\ UNCHANGED <<inputs, response>>

\* exclude_corpus_ids is the set of the stored state, extended in place before
\* anything is fetched.
Reformulate ==
    /\ pc = "start" /\ (Documents_ # Empty \/ inputs.anchors # Empty)
    /\ RelevantDocs # {} \/ inputs.anchors # Empty
    /\ \E n \in NumQueries, T \in Samples(RelevantDocs, ExampleDocs - Len(inputs.anchors)) :
          Ask(OwnQuery + n, T \cup DocsOf(inputs.anchors))

\* Nothing relevant that was not shown: no query at all, not even the own one.
NothingToShow ==
    /\ pc = "start" /\ Documents_ # Empty /\ inputs.anchors = Empty
    /\ RelevantDocs = {}
    /\ Ask(0, {})

\* A failing call answers with an error and stores no state: what is stored is
\* what was, with the exclusions of this call.
Fail ==
    /\ response' = Void /\ pc' = "done"
    /\ got' = [got EXCEPT !.answers = << >>, !.examples = {},
                          !.excluded = IF got.stored THEN @ ELSE {},
                          !.shown = IF got.stored THEN @ ELSE [d \in Papers |-> 0]]
    /\ UNCHANGED inputs

ReformulateFails ==
    /\ pc = "start" /\ (Documents_ # Empty \/ inputs.anchors # Empty)
    /\ RelevantDocs # {} \/ inputs.anchors # Empty
    /\ Fail

(***************************************************************************)
(* The indices                                                             *)
(***************************************************************************)
\* The first fifth of the queries and the last one, of fifths rounded down
\* where they begin: for two to four queries only the last.
GetQueriesPerDataset == 1..((2 * got.queries) \div 10)
                        \cup ((8 * got.queries) \div 10 + 1)..got.queries

DatasetAnswers(i) ==
    /\ pc = "fetch" /\ got.answers[i] = Pending
    /\ \E s \in (IF got.queries = 0 THEN {Empty} ELSE Answers) \cup {Failed} :
          got' = [got EXCEPT !.answers[i] = s]
    /\ UNCHANGED <<inputs, pc, response>>

\* The gather ends with the first index that fails.
FetchFails ==
    /\ pc = "fetch" /\ \E i \in Datasets : got.answers[i] = Failed
    /\ Fail

\* The answers in the order of the indices.
InOrder(f) == LET order == CHOOSE s \in [1..Cardinality(Datasets) -> Datasets] :
                               DocsOf(s) = Datasets
              IN  [i \in DOMAIN order |-> f[order[i]]]

FetchDocuments ==
    /\ pc = "fetch" /\ \A i \in Datasets : got.answers[i] \notin {Pending, Failed}
    /\ LET documents == Merged(Documents_, MergeAll(InOrder(got.answers)))
       IN  /\ response' = Complete(documents)
           /\ got' = [got EXCEPT !.checkpoint = documents, !.iteration = @ + 1,
                                 !.stored = TRUE, !.answers = << >>, !.examples = {},
                                 !.found = @ \cup DocsOf(inputs.docs)
                                             \cup UNION {DocsOf(got.answers[i]) : i \in Datasets}]
    /\ pc' = "done"
    /\ UNCHANGED inputs

CallAgain ==
    /\ pc = "done" /\ got.calls < MaxCalls
    /\ inputs' \in {i \in Requests : i.anchors = inputs.anchors /\ i.short = inputs.short}
    /\ pc' = "start" /\ response' = NoResponse
    /\ got' = [got EXCEPT !.calls = @ + 1]

Next == \/ Formulate \/ Reformulate \/ NothingToShow \/ ReformulateFails
        \/ FetchFails \/ FetchDocuments \/ CallAgain
        \/ \E i \in Datasets : DatasetAnswers(i)

Spec == Init /\ [][Next]_vars

(***************************************************************************)
(* Properties                                                              *)
(***************************************************************************)
\* Unless it is an anchor, a document is shown to the model at most once from
\* the first call that succeeds on, over calls that fail and documents that
\* come back.
ShownOnce ==
    \A d \in Papers \ DocsOf(inputs.anchors) : got.shown[d] <= 1

\* An answer holds every document that any index answered, in any call that
\* succeeded, and that any such call was given: a call that fails in between,
\* or is given other documents, loses none.
DenseKeeps ==
    response.kind = "complete" => got.found \subseteq DocsOf(response.docs)

\* Every index is asked at least one query if there is any, and never more
\* than half of them and one.  The first, which in a first call is the user's
\* own, is asked when it is the only one or one of five or more, and only then:
\* of two to four it goes to no index, whatever the comment in the code expects.
QueriesSent ==
    pc = "fetch" /\ got.queries > 0 =>
        /\ got.queries \in GetQueriesPerDataset
        /\ 2 * Cardinality(GetQueriesPerDataset) <= got.queries + 2
        /\ 1 \in GetQueriesPerDataset <=> got.queries \notin 2..4

DenseSound == ShownOnce /\ DenseKeeps /\ QueriesSent
===============================================================================
