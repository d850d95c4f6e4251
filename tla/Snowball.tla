------------------------------- MODULE Snowball -------------------------------
(***************************************************************************)
(* The snowball agent: from the papers judged relevant it follows the      *)
(* citations forward (who cites them) and backward (whom they cite) and    *)
(* promotes the candidates with the best scores; beside it, the snippets   *)
(* are followed (SnippetSnowball).                                         *)
(*                                                                         *)
(* Papers are numbers, their corpus ids.  Scores are integers: thousandths *)
(* forward, ten-thousandths backward.                                      *)
(***************************************************************************)
EXTENDS Documents

CONSTANTS Papers,
          Collected,   \* what the agent may be given
          Relevance,   \* Relevance[d]: how relevant d was judged, 0..3
          Graphs,      \* what Semantic Scholar may say of citations
          Unknown,     \* stands for a count it does not say
          Before,      \* the papers published before the date of the round
          Mentioned,   \* what following the snippets may give
          ForwardTopK, BackwardTopK,
          RunForRecent \* run_snowball_for_recent

\* Papers have a judgement; links have a paper and a flag, counts are numbers.
GraphsGiven ==
    /\ IsFiniteSet(Papers) /\ Papers \subseteq Nat /\ Before \subseteq Papers
    /\ Collected \cup Mentioned \subseteq Seq(Papers)
    /\ {Pending, Failed, NotAsked} \cap Mentioned = {}
    /\ Relevance \in [Papers -> 0..3] /\ {ForwardTopK, BackwardTopK} \subseteq Nat
    /\ LET links  == [Papers -> SUBSET (Papers \X BOOLEAN)]
           counts == [Papers -> Nat \cup {Unknown}]
       IN  Graphs \subseteq [citations : links, references : links,
                            referenceCount : counts, citationCount : counts]

VARIABLES inputs, pc, got, response

vars == <<inputs, pc, got, response>>

Init ==
    /\ inputs \in [docs : Collected, anchors : BOOLEAN, graph : Graphs,
                   recent : BOOLEAN, central : BOOLEAN]
    /\ pc = "start"
    /\ got = [forward |-> NotAsked, backward |-> NotAsked, snippets |-> NotAsked,
              checkpoint |-> Empty, iteration |-> 1]
    /\ response = NoResponse

Seeds == Kept(inputs.docs, {d \in Papers : Relevance[d] > 1})

(***************************************************************************)
(* The rows of the data frame: a seed, a candidate that is no seed and     *)
(* whether the citation is influential.  Citations of papers published     *)
(* after the date of the round are left out, references are not looked at. *)
(***************************************************************************)
Rows(links, S) ==
    {r \in {<<s, c[1], c[2]>> : s \in DocsOf(Seeds), c \in UNION {links[d] : d \in Papers}} :
        <<r[2], r[3]>> \in links[r[1]] /\ r[2] \in S \ DocsOf(Seeds)}

GetForwardDf  == Rows(inputs.graph.citations, Before)
GetBackwardDf == Rows(inputs.graph.references, Papers)

\* Counts that are not known are taken to be the median of the known ones,
\* row by row, or 1.
Median(rows, count) ==
    LET known == {r \in rows : count[r[2]] # Unknown}
        n     == Cardinality(known)
        \* The k-th of the known counts in rising order.
        At(k) == CHOOSE v \in {count[r[2]] : r \in known} :
                     /\ Cardinality({r \in known : count[r[2]] < v}) < k
                     /\ Cardinality({r \in known : count[r[2]] <= v}) >= k
    IN  CASE n = 0              -> 1
          [] n % 2 = 1          -> At((n + 1) \div 2)
          [] n > 0 /\ n % 2 = 0 -> (At(n \div 2) + At(n \div 2 + 1)) \div 2

CountOf(rows, count, c) == IF count[c] = Unknown THEN Median(rows, count)
                                                 ELSE count[c]

Citations(rows, c) == {r \in rows : r[2] = c}

\* What the citations of a candidate count for: the relevance of the seeds, as
\* the number of grades they reach, and the influential ones.
Support(own, relevance, influence) ==
    LET reach(grade) == Cardinality({r \in own : Relevance[r[1]] >= grade})
    IN  relevance * (reach(1) + reach(2) + reach(3))
        + influence * Cardinality({r \in own : r[3]})

\* mutant: the mean instead of the sum over the citations
Score_Mean(rows, count, c, relevance, influence, penalty) ==
    LET own  == Citations(rows, c)
        n    == Cardinality(own)
        size == CountOf(rows, count, c)
    IN  (Support(own, relevance, influence) - penalty * n * (IF size > n THEN size ELSE n)) \div n

\* score_snowball_candidate: the sum over its citations of what each counts for,
\* less a penalty by the length of the candidate's own list.
Score(rows, count, c, relevance, influence, penalty) ==
    LET own  == Citations(rows, c)
        n    == Cardinality(own)
        size == CountOf(rows, count, c)
    IN  Support(own, relevance, influence) - penalty * n * (IF size > n THEN size ELSE n)

Candidates(rows) == {r[2] : r \in rows}

ScoreForward ==
    [c \in Candidates(GetForwardDf) |->
        Score(GetForwardDf, inputs.graph.referenceCount, c, 1000, 100, 5)]
ScoreBackward ==
    [c \in Candidates(GetBackwardDf) |->
        Score(GetBackwardDf, inputs.graph.citationCount, c, 10000, 0, 5)]

\* The best k, those of equal score in the order of their ids.
Promote(rows, score, k) == Slice(SortedDesc(Ascending(Candidates(rows)), score), k)

DoForwardSnowball  == Merged(Seeds, Promote(GetForwardDf, ScoreForward, ForwardTopK))
DoBackwardSnowball == Merged(Seeds, Promote(GetBackwardDf, ScoreBackward, BackwardTopK))

(***************************************************************************)
(* The steps                                                               *)
(***************************************************************************)
ForwardOnly    == RunForRecent /\ inputs.recent /\ ~inputs.central
ForwardAsked   == Seeds # Empty /\ ForwardTopK > 0
BackwardAsked  == Seeds # Empty /\ BackwardTopK > 0 /\ ~ForwardOnly

Respond(r) ==
    /\ response' = r
    /\ got' = [got EXCEPT !.checkpoint = r.docs, !.iteration = @ + 1]
    /\ pc' = "done"
    /\ UNCHANGED inputs

\* The anchors are looked at only to see that there is something.
StartEmpty ==
    /\ pc = "start" /\ inputs.docs = Empty /\ ~inputs.anchors
    /\ Respond(Complete(Empty))

Start ==
    /\ pc = "start" /\ (inputs.docs # Empty \/ inputs.anchors)
    /\ got' = [got EXCEPT
                 !.forward  = IF ForwardAsked THEN Pending ELSE @,
                 !.backward = IF BackwardAsked THEN Pending ELSE @,
                 !.snippets = Pending]
    /\ pc' = "gather"
    /\ UNCHANGED <<inputs, response>>

\* Citations are loaded, candidates scored and their fields loaded; either
\* load may raise.
ForwardAnswers ==
    /\ pc = "gather" /\ got.forward = Pending
    /\ \E s \in {DoForwardSnowball, Failed} : got' = [got EXCEPT !.forward = s]
    /\ UNCHANGED <<inputs, pc, response>>

BackwardAnswers ==
    /\ pc = "gather" /\ got.backward = Pending
    /\ \E s \in {DoBackwardSnowball, Failed} : got' = [got EXCEPT !.backward = s]
    /\ UNCHANGED <<inputs, pc, response>>

\* run_snippet_snowball raises nothing.
SnippetsAnswer ==
    /\ pc = "gather" /\ got.snippets = Pending
    /\ \E s \in Mentioned : got' = [got EXCEPT !.snippets = s]
    /\ UNCHANGED <<inputs, pc, response>>

\* The first direction that raises ends the gather of both: what the other
\* found, or is still to find, is lost, and the papers given are answered.
RunPaperSnowball ==
    IF Seeds = Empty \/ Failed \in {got.forward, got.backward}
    THEN inputs.docs
    ELSE Merged(IF ForwardAsked THEN got.forward ELSE Empty,
                IF BackwardAsked THEN got.backward ELSE Empty)

PapersGathered == \/ Failed \in {got.forward, got.backward}
                  \/ Pending \notin {got.forward, got.backward}

RunSnowball ==
    /\ pc = "gather" /\ PapersGathered /\ got.snippets # Pending
    /\ Respond(Complete(Merged(RunPaperSnowball, got.snippets)))

\* The merge of the papers raises (Collections).
MergeFails ==
    /\ \/ pc = "start"
       \/ pc = "gather" /\ PapersGathered /\ got.snippets # Pending
    /\ Respond(Partial(inputs.docs))

Next == \/ StartEmpty \/ Start \/ ForwardAnswers \/ BackwardAnswers
        \/ SnippetsAnswer \/ RunSnowball \/ MergeFails

Spec == Init /\ [][Next]_vars

(***************************************************************************)
(* Properties                                                              *)
(***************************************************************************)
Answered(s) == s \notin {Pending, Failed, NotAsked}

\* Whatever direction fails or was not asked, the agent gives back the papers
\* it started from (as long as one direction is asked at all).
SeedsComeBack ==
    pc = "done" /\ ForwardTopK > 0 => DocsOf(Seeds) \subseteq DocsOf(response.docs)

\* A candidate cited from more of the seeds, and no longer itself, is promoted
\* when one cited from fewer is: support never hurts, up to the length and the
\* number of citations where their penalty eats its relevance (do_forward_snowball).
Supporters(c) == {s \in DocsOf(Seeds) : \E r \in GetForwardDf : r[1] = s /\ r[2] = c}
Length(c)     == CountOf(GetForwardDf, inputs.graph.referenceCount, c)

SupportHelps ==
    Answered(got.forward) =>
        \A c \in Candidates(GetForwardDf) \cap DocsOf(got.forward) :
            \A d \in Candidates(GetForwardDf) \ DocsOf(got.forward) :
                ~ /\ Supporters(c) \subseteq Supporters(d)
                  /\ Supporters(c) # Supporters(d)
                  /\ Length(d) <= Length(c) /\ Length(c) < 400
                  /\ Cardinality(Citations(GetForwardDf, d)) <= 200
                  /\ \A r \in GetForwardDf : r[2] = c => ~r[3]

\* Nothing is answered that neither was given, nor stands in a link of a seed
\* the right way round, nor came from the snippets.
PromotedLinked ==
    \A d \in DocsOf(response.docs) :
        \/ d \in DocsOf(inputs.docs)
        \/ Answered(got.snippets) /\ d \in DocsOf(got.snippets)
        \/ \E s \in DocsOf(Seeds) : \E f \in BOOLEAN :
              \/ <<d, f>> \in inputs.graph.citations[s] /\ d \in Before
              \/ <<d, f>> \in inputs.graph.references[s] /\ ~ForwardOnly

SnowballSound == SeedsComeBack /\ SupportHelps /\ PromotedLinked
===============================================================================
