-------------------------- MODULE RelevanceJudgements --------------------------
(***************************************************************************)
(* The judgement of a batch of documents (computed_fields/relevance.py)    *)
(* and the summary that tells its user how many papers were found          *)
(* (common/explain.py).  The model answers for every document of its own,  *)
(* with a grade for each criterion that is required, or fails; answers and *)
(* failures are then put in the order of the documents.  Weights are in    *)
(* hundredths, so that 300 stands for the score 1.                         *)
(***************************************************************************)
EXTENDS Integers, Sequences, FiniteSets

CONSTANTS
    Documents,      \* the batches of documents: sequences without repetition
    Criteria,       \* what a query may ask: [required, nice], each a sequence
                    \* of [name, weight]
    KeepIrrelevant  \* the configuration's keep_irrelevant_docs

VARIABLES
    entities, criteria,
    results,    \* the answers of the model, in the order of the documents
    judged,     \* what the batch returns, or "raised"
    stage,
    summary     \* the numbers the summary tells, and of what

vars == <<entities, criteria, results, judged, stage, summary>>

Grades == {0, 1, 3}
Error  == [ok |-> FALSE]

Init ==
    /\ entities \in Documents /\ criteria \in Criteria
    /\ results = << >> /\ judged = << >> /\ stage = "asked" /\ summary = << >>

Names(list) == {list[i].name : i \in DOMAIN list}

\* What the batches and the queries are.
Judgeable ==
    /\ \A batch \in Documents :
           /\ Len(batch) \in Nat /\ DOMAIN batch = 1..Len(batch)
           /\ \A i, j \in DOMAIN batch : batch[i] = batch[j] => i = j
    /\ \A asked \in Criteria : /\ asked.required \in Seq([name : STRING, weight : Int])
                               /\ asked.nice \in Seq([name : STRING, weight : Int])

(***************************************************************************)
(* Scores                                                                  *)
(***************************************************************************)
LastOf(places) == CHOOSE i \in places : \A j \in places : j <= i

\* All the criteria have weights; the last of a name has the word.
Weight(name) ==
    LET flat == criteria.required \o criteria.nice
    IN  flat[LastOf({i \in DOMAIN flat : flat[i].name = name})].weight

\* The judgements of a document have each name once.
Total(grades) ==
    LET sum[names \in SUBSET DOMAIN grades] ==
            IF names = {} THEN 0
            ELSE LET n == CHOOSE n \in names : TRUE
                 IN  Weight(n) * grades[n] + sum[names \ {n}]
    IN  sum[DOMAIN grades]

Score(grades) == IF Total(grades) > 300 THEN 300 ELSE Total(grades)

ToLevel(score) ==
    CASE score <= 75         -> 0
      [] score \in 76..201  -> 1
      [] score \in 202..297 -> 2
      [] OTHER              -> 3

(***************************************************************************)
(* A batch                                                                 *)
(***************************************************************************)
NoEntities ==
    /\ stage = "asked" /\ entities = << >>
    /\ stage' = "judged"
    /\ UNCHANGED <<entities, criteria, results, judged, summary>>

\* Nothing to judge by: the whole batch fails.
NoCriteria ==
    /\ stage = "asked" /\ entities # << >> /\ criteria.required = << >>
    /\ stage' = "raised"
    /\ UNCHANGED <<entities, criteria, results, judged, summary>>

Answer(d, grades) == [ok |-> TRUE, doc |-> d, grades |-> grades]

\* The answer for each document, or its failure, at the document's place.
JudgeDocumentsRelevance ==
    /\ stage = "asked" /\ entities # << >> /\ criteria.required # << >>
    /\ \E answers \in [DOMAIN entities -> {<< >>} \cup [Names(criteria.required) -> Grades]] :
           results' = [i \in DOMAIN entities |->
               IF answers[i] = << >> THEN Error ELSE Answer(entities[i], answers[i])]
    /\ stage' = "answered"
    /\ UNCHANGED <<entities, criteria, judged, summary>>

FailedDocs == {entities[i] : i \in {j \in DOMAIN results : ~results[j].ok}}

\* A later answer for the same document takes the place of an earlier one.
AnswerOf(d) ==
    results[LastOf({i \in DOMAIN results : results[i].ok /\ results[i].doc = d})]

Judgement(d) ==
    [ok |-> TRUE, doc |-> d, relevance |-> ToLevel(Score(AnswerOf(d).grades)),
     score |-> Score(AnswerOf(d).grades)]

Ordered ==
    [i \in DOMAIN entities |->
        IF entities[i] \in FailedDocs THEN Error ELSE Judgement(entities[i])]

\* Every document has an answer or a failure, as the code asserts.
ProcessLLMResults ==
    /\ stage = "answered"
    /\ judged' = Ordered
    /\ stage' = "judged"
    /\ UNCHANGED <<entities, criteria, results, summary>>

(***************************************************************************)
(* The summary of the answer                                               *)
(***************************************************************************)
AtLevel(l) == {i \in DOMAIN judged : judged[i].ok /\ judged[i].relevance = l}
Count(l)   == Cardinality(AtLevel(l))
Relevant   == {i \in DOMAIN judged : /\ judged[i].ok
                                     /\ judged[i].relevance >= (IF KeepIrrelevant THEN 0 ELSE 1)}
Results(broad, content) ==
    IF broad /\ content THEN Cardinality(Relevant) ELSE Len(judged)

Says(form, perfect, high, other) ==
    [form |-> form, perfect |-> perfect, high |-> high, other |-> other]

ResponseSummary(broad, content) ==
    IF Results(broad, content) = 0 THEN Says("nothing", 0, 0, 0)
    ELSE IF ~content THEN Says("found", 0, 0, Results(broad, content))
    ELSE IF ~broad   THEN Says("potential", 0, 0, Results(broad, content))
    ELSE IF Count(3) > 0 THEN Says("perfect", Count(3), Count(2), Count(1))
    ELSE Says("no perfect", 0, Count(2), Count(1))

\* After a specific search that found nothing: a broad one is told alike.
MergedSummary(broad, content) ==
    IF Results(broad, content) = 0 THEN Says("nothing", 0, 0, 0)
    ELSE IF ~broad \/ ~content THEN Says("potential", 0, 0, Results(broad, content))
    ELSE IF Count(3) > 0 THEN Says("perfect", Count(3), Count(2), Count(1))
    ELSE Says("no perfect", 0, Count(2), Count(1))

Summarise ==
    /\ stage = "judged"
    /\ \E broad, content, merged \in BOOLEAN :
           summary' = [broad |-> broad, content |-> content,
                       says |-> IF merged THEN MergedSummary(broad, content)
                                ELSE ResponseSummary(broad, content)]
    /\ stage' = "told"
    /\ UNCHANGED <<entities, criteria, results, judged>>

Next == \/ NoEntities \/ NoCriteria \/ JudgeDocumentsRelevance
        \/ ProcessLLMResults \/ Summarise

Spec == Init /\ [][Next]_vars

(***************************************************************************)
(* What a judgement and its summary promise                                *)
(***************************************************************************)
\* However many of the calls fail, and whichever they are, every document gets
\* the judgement of its own answer, or an error when its own call failed.
OwnJudgement ==
    stage \in {"judged", "told"} =>
        \A i \in DOMAIN entities :
            /\ judged[i].ok <=> results[i].ok
            /\ judged[i].ok => /\ judged[i].doc = entities[i]
                               /\ judged[i].score = Score(results[i].grades)

\* Of criteria whose weights make up a whole and of which none is negative, perfect
\* grades alone make a perfect paper, no paper without any is relevant, and one that
\* is graded at least as well by every criterion is judged at least as well.
Whole == /\ Names(criteria.required) \cap Names(criteria.nice) = {}
         /\ \A n \in Names(criteria.required) : Weight(n) >= 0
         /\ Total([n \in Names(criteria.required) |-> 1]) = 100

LevelsFit ==
    stage \in {"judged", "told"} /\ Whole =>
        \A i \in DOMAIN judged : judged[i].ok =>
            LET g == results[i].grades IN
            /\ (\A c \in DOMAIN g : g[c] = 3) => judged[i].relevance = 3
            /\ judged[i].relevance = 3 => \E c \in DOMAIN g : g[c] = 3
            /\ (\A c \in DOMAIN g : g[c] = 0) => judged[i].relevance = 0
            /\ \A j \in DOMAIN judged :
                   judged[j].ok /\ (\A c \in DOMAIN g : g[c] <= results[j].grades[c])
                       => judged[i].relevance <= judged[j].relevance

\* A broad search with content is told as many papers as were judged relevant,
\* and that there is none only when there is none.
SummaryTrue ==
    stage = "told" /\ summary.broad /\ summary.content =>
        LET s == summary.says IN
        /\ s.perfect + s.high + s.other = Count(1) + Count(2) + Count(3)
        /\ s.form = "nothing" => Relevant = {}
        /\ s.form = "no perfect" => Count(3) = 0

JudgementsSound == OwnJudgement /\ LevelsFit /\ SummaryTrue
===============================================================================
