------------------------- MODULE SpecificPaperByName -------------------------
(***************************************************************************)
(* The agent that looks for the one paper a name refers to ("the BERT      *)
(* paper").  A model suggests titles, which are looked up one by one;      *)
(* Semantic Scholar is searched for the name and for the name with what    *)
(* else the user said, and its answers are scored by how much they look    *)
(* like the paper that introduced the name.  The two lists vote.           *)
(*                                                                         *)
(* Scores are integers: thousandths for the evidence of one paper, halves  *)
(* for the votes.                                                          *)
(***************************************************************************)
EXTENDS Documents

CONSTANTS Papers,       \* the papers that may be found
          Styles,       \* how the name is written: "weird", "lower", "title"
          Contents,     \* extracted_content: "none", "blank" or "words"
          Evidences,    \* what title and abstract of a paper may look like
          NameAnswers, ContentAnswers, Suggestions,  \* what sources answer
          FilterThreshold,   \* specific_paper_by_name_agent.filter_threshold
          LimitForSpecific   \* search_by_author_agent.limit_for_specific

\* Sources answer with papers, and a name appears a number of times.
SourcesGiven ==
    /\ NameAnswers \cup ContentAnswers \cup Suggestions \subseteq Seq(Papers)
    /\ LET seen == [title : {"introduces", "contains", "no"}, times : Nat,
                    introduced : BOOLEAN]
       IN  Evidences \subseteq [any : seen, exact : seen, link : BOOLEAN]
    /\ FilterThreshold \in 0..3 /\ LimitForSpecific \in Nat \ {0}

VARIABLES inputs,    \* the inputs of handle_operation
          pc,        \* what it waits for
          got,       \* what the sources answered
          response

vars == <<inputs, pc, got, response>>

Init ==
    /\ inputs \in [style : Styles, content : Contents]
    /\ pc = "start"
    /\ got = [titles |-> Pending, name |-> Pending, content |-> IF inputs.content = "words" THEN Pending ELSE NotAsked,
              evidence |-> << >>]
    /\ response = NoResponse

(***************************************************************************)
(* The score of one paper.  An evidence says how the name appears in the   *)
(* title, how often in the abstract, whether the abstract introduces it    *)
(* and whether it has a link with it; `any` ignores the case of letters,   *)
(* `exact` does not.                                                       *)
(***************************************************************************)
ScoringFunc(e, link, inContent, strong, weak) ==
    LET title == CASE e.title = "introduces" -> 15 * strong
                   [] e.title = "contains"   -> 5 * weak
                   [] OTHER                  -> 0
        times == IF e.times < 3 THEN e.times ELSE 3
        body  == times * strong
                 + (IF e.times > 0 /\ e.introduced THEN 10 * strong ELSE 0)
    IN  (title + body + (IF link THEN 1000 ELSE 0))
            * (IF inContent THEN 2 ELSE 1)

Larger(a, b) == IF a > b THEN a ELSE b

ScorePaperForName(e, inContent, style) ==
    LET insensitive == ScoringFunc(e.any, e.link, inContent, 50, 20)
        sensitive ==
            CASE style = "weird" -> ScoringFunc(e.exact, e.link, inContent, 100, 100)
              [] style = "lower" -> ScoringFunc(e.exact, e.link, inContent, 75, 50)
              [] OTHER           -> insensitive
    IN  Larger(insensitive, sensitive)

\* A paper counts as found with the content if one of its origins is a query
\* longer than the name; merging the two answers joins the origins.
FoundWithContent(d) == got.content # NotAsked /\ d \in DocsOf(got.content)

S2SearchScore(d) ==
    ScorePaperForName(got.evidence[d], FoundWithContent(d), inputs.style)

S2NameRelevanceSearch ==
    LET merged == Merged(got.name, IF got.content = NotAsked THEN Empty
                                                             ELSE got.content)
    IN  Kept(SortedDesc(merged, [d \in DocsOf(merged) |-> S2SearchScore(d)]),
             {d \in Papers : S2SearchScore(d) >= 500})

(***************************************************************************)
(* The vote.  A list gives its papers between two and four halves, by      *)
(* their places among its last three; papers all at one level get four.    *)
(***************************************************************************)
MaxOf(S) == CHOOSE n \in S : \A m \in S : m <= n
MinOf(S) == CHOOSE n \in S : \A m \in S : n <= m

RankScore(s, d) == LET left == Len(s) - Position(s, d) + 1
                   IN  IF left < 3 THEN left ELSE 3

\* mutant: being in a list is worth nothing without a rank
ScoreByRank_NoBase(s, d) ==
    LET ranks == {RankScore(s, e) : e \in DocsOf(s)}
    IN  IF d \notin DocsOf(s) THEN 0
        ELSE 2 * (RankScore(s, d) - MinOf(ranks))

ScoreByRank(s, d) ==
    LET ranks == {RankScore(s, e) : e \in DocsOf(s)}
        low   == MinOf(ranks)
        high  == MaxOf(ranks)
    IN  CASE d \notin DocsOf(s) -> 0
          [] d \in DocsOf(s) /\ high = low -> 4
          [] OTHER -> 2 + ((2 * (RankScore(s, d) - low)) \div (high - low))

\* A source that failed counts as empty.
Answered(s) == IF s = Failed THEN Empty ELSE s

Found == IF Failed \in {got.name, got.content} THEN Empty
                                               ELSE S2NameRelevanceSearch
Suggested == Answered(got.titles)

Votes(d) == ScoreByRank(Suggested, d) + ScoreByRank(Found, d)

Voted ==
    LET merged == Merged(Found, Suggested)
        sorted == SortedDesc(merged, [d \in DocsOf(merged) |-> Votes(d)])
    IN  IF FilterThreshold = 0 THEN sorted
        ELSE Kept(sorted, {d \in Papers : Votes(d) > FilterThreshold})

\* The score that the paper finder sorts by, in percent of the best.
FinalScore(d) ==
    LET high == MaxOf({Votes(e) : e \in DocsOf(Voted)})
    IN  IF high = 0 THEN 100 ELSE (100 * Votes(d)) \div high

(***************************************************************************)
(* The steps.  The searches are gathered: their answers come in any order, *)
(* and a source that raises leaves the others alone.                       *)
(***************************************************************************)
Respond(docs) == /\ response' = Complete(Slice(docs, LimitForSpecific))
                 /\ pc' = "done"

\* Without a content there is no search at all.
StartWithoutContent ==
    /\ pc = "start" /\ inputs.content = "none"
    /\ Respond(Empty)
    /\ UNCHANGED <<inputs, got>>

Start ==
    /\ pc = "start" /\ inputs.content # "none"
    /\ pc' = "gather"
    /\ UNCHANGED <<inputs, got, response>>

\* get_llm_suggested_papers: the titles are looked up with a plain gather, so
\* that one lookup that raises fails the suggestions as a whole.
SuggestionsAnswer ==
    /\ pc \in {"gather", "score"} /\ got.titles = Pending
    /\ \E s \in Suggestions \cup {Failed} : got' = [got EXCEPT !.titles = s]
    /\ UNCHANGED <<inputs, pc, response>>

NameSearchAnswers ==
    /\ pc = "gather" /\ got.name = Pending
    /\ \E s \in NameAnswers \cup {Failed} : got' = [got EXCEPT !.name = s]
    /\ UNCHANGED <<inputs, pc, response>>

\* What is left of the content without the name and some stop words may be
\* nothing, and the second search is not made.
ContentSearchAnswers ==
    /\ pc = "gather" /\ got.content = Pending
    /\ \E s \in ContentAnswers \cup {Failed} : got' = [got EXCEPT !.content = s]
    /\ UNCHANGED <<inputs, pc, response>>

\* The papers of both searches are looked at.
Look ==
    /\ pc = "gather" /\ got.evidence = << >>
    /\ Pending \notin {got.name, got.content}
    /\ \E f \in [Papers -> Evidences] : got' = [got EXCEPT !.evidence = f]
    /\ pc' = "score"
    /\ UNCHANGED <<inputs, response>>

Vote ==
    /\ pc = "score" /\ got.titles # Pending
    /\ Respond(Voted)
    /\ UNCHANGED <<inputs, got>>

Next == \/ StartWithoutContent \/ Start
        \/ SuggestionsAnswer \/ NameSearchAnswers \/ ContentSearchAnswers
        \/ Look \/ Vote

Spec == Init /\ [][Next]_vars

(***************************************************************************)
(* Properties                                                              *)
(***************************************************************************)
\* A paper that both the model and the search found is left out of the answer
\* only for papers that both found or that head a list of their own: the two
\* lists are normalised apart, added and cut (score_by_rank, take).
AgreementWins ==
    pc = "done" /\ inputs.content # "none" =>
        \A d \in DocsOf(response.docs) :
            \A e \in (DocsOf(Found) \cap DocsOf(Suggested)) \ DocsOf(response.docs) :
                \/ d \in DocsOf(Found) \cap DocsOf(Suggested)
                \/ 4 \in {ScoreByRank(Found, d), ScoreByRank(Suggested, d)}

\* With a content the answer is empty only if neither source left a paper: a
\* source that fails, and the threshold on votes, never empty it alone.
EmptyOnlyIfNothingFound ==
    pc = "done" /\ response.docs = Empty /\ inputs.content # "none" =>
        Found = Empty /\ Suggested = Empty

\* Neither source alone, nor a source that fails, decides the answer.
AnswerSound == AgreementWins /\ EmptyOnlyIfNothingFound
==============================================================================
