--------------------------- MODULE SnippetSnowball ---------------------------
(***************************************************************************)
(* Following the snippets: the papers that the snippets of the documents   *)
(* mention, scored by how often and in how similar snippets, reranked by   *)
(* the sentences they are mentioned in.                                    *)
(*                                                                         *)
(* A text is a sequence of "x" (any letter), "." (any mark that ends a     *)
(* sentence) and " "; the masked abbreviations ("et al. ") are letters.    *)
(* Offsets count from 0, as in the code.  Papers are numbers.              *)
(***************************************************************************)
EXTENDS Documents, FiniteSetsExt

CONSTANTS Collected,   \* collections of documents with snippets
          Unknown,     \* stands for a similarity that is not given, or the
                       \* place of a sentence
          RerankScores,\* what the reranker may say, in tenths
          TopK         \* snowball_agent.snippet_top_k

\* Mentions, snippets and sentences have places and scores that are numbers.
SnippetsGiven ==
    /\ LET mention  == [paper : Nat, start : Nat, end : Nat]
           sentence == [start : Nat, end : Nat]
           snippet  == [text : Seq({"x", ".", " "}), placed : BOOLEAN, ranked : BOOLEAN,
                        sentences : Seq(sentence \cup {Unknown}), mentions : Seq(mention),
                        score : Int \cup {Unknown}]
       IN  Collected \subseteq Seq([id : Nat, snippets : Seq(snippet)])
    /\ RerankScores \subseteq Int /\ TopK \in Nat

VARIABLES inputs, pc, got, response

vars == <<inputs, pc, got, response>>

Init == /\ inputs \in [docs : Collected, fast : BOOLEAN]
        /\ pc = "start" /\ got = NotAsked /\ response = NoResponse

SnippetsOf(d) == {inputs.docs[d].snippets[i] : i \in DOMAIN inputs.docs[d].snippets}
Snippets      == UNION {SnippetsOf(d) : d \in DOMAIN inputs.docs}
Mentions(n)   == {n.mentions[i] : i \in DOMAIN n.mentions}

(***************************************************************************)
(* Sentences.  A text is cut after a space that follows a mark; neither    *)
(* its first nor its last character is looked at.                          *)
(***************************************************************************)
Between(cuts) ==
    LET s == Ascending(cuts)
    IN  [i \in 1..(Len(s) - 1) |-> [start |-> s[i], end |-> s[i + 1]]]

Cuts(text) == {i + 1 : i \in {j \in 1..(Len(text) - 2) :
                                text[j + 1] = " " /\ text[j] = "."}}

\* mutant: what follows the last cut is dropped
SplitTextToSentenceOffsets_NoRest(text) == Between({0} \cup Cuts(text))

SplitTextToSentenceOffsets(text) == Between({0} \cup Cuts(text) \cup {Len(text)})

\* The sentences the service gave, if each has its place.
SentenceOffsets(n) == IF n.sentences # << >> /\ \A i \in DOMAIN n.sentences :
                                                 n.sentences[i] # Unknown
                      THEN n.sentences
                      ELSE SplitTextToSentenceOffsets(n.text)

\* A mention belongs to every sentence that holds one of its ends, bounds
\* included.  Mentions are aligned only if the service gave sentences, and an
\* offset 0 counts as missing: of a mention and of a sentence.
AlignRefMentions(n, o) ==
    {m \in Mentions(n) :
        /\ n.sentences # << >> /\ m.start # 0 /\ m.end # 0
        /\ o.start # 0 /\ o.end # 0
        /\ (o.start <= m.start /\ m.start <= o.end) \/ (o.start <= m.end /\ m.end <= o.end)}

\* A snippet that was ranked as a sentence, that has no text or no place in
\* its document stays whole.
StaysWhole(n) == n.ranked \/ n.text = << >> \/ ~n.placed

SplitSnippetsToSentenceSnippets(n) ==
    IF StaysWhole(n)
    THEN {[start |-> 0, end |-> Len(n.text), mentions |-> Mentions(n), score |-> n.score]}
    ELSE LET offsets == SentenceOffsets(n)
         IN  {[start |-> offsets[i].start, end |-> offsets[i].end,
               mentions |-> {[m EXCEPT !.start = @ - offsets[i].start,
                                       !.end = @ - offsets[i].start] :
                                 m \in AlignRefMentions(n, offsets[i])},
               score |-> n.score] : i \in DOMAIN offsets}

\* The sentences that mention a paper, with the document they are in.
CitationContexts(p) ==
    UNION {{<<inputs.docs[d].id, s>> :
              s \in {t \in UNION {SplitSnippetsToSentenceSnippets(n) : n \in SnippetsOf(d)} :
                        \E m \in t.mentions : m.paper = p}} : d \in DOMAIN inputs.docs}

(***************************************************************************)
(* Scores: two tenths for the number of similar snippets and ten for the   *)
(* best similarity, each scaled to what lies between the least and the     *)
(* greatest; what does not vary counts nothing.  The one index there is    *)
(* (get_dense_datasets_by_domains) is of vespa: the weights of others, and *)
(* the median of several, stand idle.                                      *)
(***************************************************************************)
Cited == UNION {{m.paper : m \in Mentions(n)} : n \in Snippets}

Mentioning(p) == {x \in UNION {{<<d, i>> : i \in DOMAIN inputs.docs[d].snippets} :
                                   d \in DOMAIN inputs.docs} :
                      \E m \in Mentions(inputs.docs[x[1]].snippets[x[2]]) : m.paper = p}
Scored(p) == {x \in Mentioning(p) : inputs.docs[x[1]].snippets[x[2]].score # Unknown}
TotalHits(p) == Cardinality(Scored(p))
BestScore(p) == Max({inputs.docs[x[1]].snippets[x[2]].score : x \in Scored(p)})

Spread(S)   == IF S = {} THEN 1 ELSE LET d == Max(S) - Min(S) IN IF d = 0 THEN 1 ELSE d
AllHits     == {TotalHits(p) : p \in Cited}
AllBest     == {BestScore(p) : p \in {q \in Cited : Scored(q) # {}}}
Whole       == Spread(AllHits) * Spread(AllBest)   \* stands for 1

\* In tenths of Whole.
Heuristic(p) ==
    2 * (TotalHits(p) - Min(AllHits)) * Spread(AllBest)
    + (IF Scored(p) = {} THEN 0
       ELSE 10 * (BestScore(p) - Min(AllBest)) * Spread(AllHits))

GetCitedCorpusIds == {p \in Cited : CitationContexts(p) # {}}

(***************************************************************************)
(* The steps                                                               *)
(***************************************************************************)
Respond(docs) == response' = Complete(docs) /\ pc' = "done" /\ UNCHANGED <<inputs, got>>

NothingCited == pc = "start" /\ GetCitedCorpusIds = {} /\ Respond(Empty)

Start == /\ pc = "start" /\ GetCitedCorpusIds # {}
         /\ pc' = IF inputs.fast THEN "load" ELSE "rerank"
         /\ UNCHANGED <<inputs, got, response>>

\* A reranker that raises, or finds nothing similar at all, is disregarded.  What
\* is mentioned is at most the thousand papers that the code lets it see.
Rerank == /\ pc = "rerank"
          /\ \E f \in [GetCitedCorpusIds -> RerankScores] \cup {Failed} : got' = f
          /\ pc' = "load"
          /\ UNCHANGED <<inputs, response>>

Disregarded == got \in {NotAsked, Failed} \/ \A p \in DOMAIN got : got[p] = 0

FinalScore(p) == IF Disregarded THEN Heuristic(p) ELSE got[p]

\* More than one half, except in fast mode.
AboveThreshold ==
    {p \in GetCitedCorpusIds :
        inputs.fast \/ FinalScore(p) > 5 * (IF Disregarded THEN Whole ELSE 1)}

\* Of equal scores the larger id comes first.
ById     == SortedDesc(Ascending(AboveThreshold), [p \in AboveThreshold |-> p])
TopCited == Slice(SortedDesc(ById, [p \in AboveThreshold |-> FinalScore(p)]), TopK)

RunSnippetSnowball == pc = "load" /\ Respond(TopCited)

\* Loading the fields of what was found raises.
LoadFails == pc = "load" /\ Respond(Empty)

Next == NothingCited \/ Start \/ Rerank \/ RunSnippetSnowball \/ LoadFails

Spec == Init /\ [][Next]_vars

(***************************************************************************)
(* Properties                                                              *)
(***************************************************************************)
\* The sentences of a text are the text, piece after piece.
SentencesTileText ==
    \A n \in Snippets : n.text # << >> =>
        LET s == SplitTextToSentenceOffsets(n.text)
        IN  /\ s[1].start = 0 /\ s[Len(s)].end = Len(n.text)
            /\ \A i \in DOMAIN s : s[i].start < s[i].end
            /\ \A i \in 1..(Len(s) - 1) : s[i].end = s[i + 1].start

\* If the service gave sentences, a mention inside one that is not the first of
\* its text makes a context of its paper, with the sentence around it: also if
\* the text is cut anew because a sentence has no place.
LaterMentionsKept ==
    \A n \in Snippets : ~StaysWhole(n) /\ n.sentences # << >> =>
        \A m \in Mentions(n) : \A i \in DOMAIN SentenceOffsets(n) :
            LET o == SentenceOffsets(n)[i]
            IN  0 < o.start /\ o.start <= m.start /\ m.start < m.end /\ m.end <= o.end =>
                    \E c \in CitationContexts(m.paper) : c[2].start = o.start

\* A paper that is promoted is mentioned somewhere in the documents, and if
\* the reranker failed or was not asked, in no less similar snippets and no
\* fewer than one left out though it had room and score.
PromotedMentioned ==
    pc = "done" /\ response.docs # Empty =>
        /\ DocsOf(response.docs) \subseteq Cited
        /\ Disregarded =>
            \A p \in DocsOf(response.docs) :
                \A q \in GetCitedCorpusIds \ DocsOf(response.docs) :
                    ~ /\ TotalHits(q) > TotalHits(p)
                      /\ Scored(p) # {} => BestScore(q) > BestScore(p)

SnippetsSound == SentencesTileText /\ LaterMentionsKept /\ PromotedMentioned
==============================================================================
