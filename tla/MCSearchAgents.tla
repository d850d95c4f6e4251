---------------------------- MODULE MCSearchAgents ----------------------------
(***************************************************************************)
(* The agents on small instances.                                          *)
(***************************************************************************)
EXTENDS SearchAgents, FiniteSets, FiniteSetsExt

CONSTANTS p1, p2, p3, a, b

Three == {p1, p2, p3}
Each(x, y, z) == [d \in Three |-> CASE d = p1 -> x [] d = p2 -> y [] d = p3 -> z]

(***************************************************************************)
(* MetadataPlanner                                                         *)
(***************************************************************************)
With(forms) == [f \in Fields |-> IF f \in DOMAIN forms THEN forms[f] ELSE "none"]
Of(n, from) ==
  UNION {{With(forms) : forms \in {g \in [fs -> Forms] : \A f \in fs : g[f] \in FormsOf(f)}} :
           fs \in kSubset(n, from)}

\* bounds: one specification of up to three fields, one of four of these, or two of one
Four     == {"name", "authors", "venue", "years", "venue_group", "field_of_study", "min_citations"}
One      == {s \in Of(1, Fields) : Positive(s)}
MCInputs == {<<s>> : s \in One \cup Of(2, Fields) \cup Of(3, Fields)}
            \cup {<<s>> : s \in {t \in Of(4, Four) : \A f \in Four : t[f] # "and"}}
            \cup (One \X One)

\* a document is given by the items it does not meet: of one or of both of a field,
\* and the items of exclude unless it is to be excluded
Composite == {f \in Fields : "or" \in FormsOf(f)} \cup {"name"}
Lacking == FoldSet(LAMBDA items, seq : Append(seq, items), <<>>,
                   {{}} \cup {{<<f, 1>>} : f \in Fields \ {"content"}}
                        \cup {{<<f, 2>>} : f \in Composite \cup {"exclude"}}
                        \cup {{<<f, 1>>, <<f, 2>>} : f \in Composite})
Excl    == {<<"exclude", 1>>, <<"exclude", 2>>}
MCDocs  == DOMAIN Lacking
MCMeets == [d \in MCDocs |-> IF Lacking[d] \cap Excl # {}
                             THEN ((Fields \X {1, 2}) \ Excl) \cup Lacking[d]
                             ELSE (Fields \X {1, 2}) \ (Lacking[d] \cup Excl)]
\* a title is of a paper that lacks one of these at most
MCTitles == {d \in MCDocs : Lacking[d] \subseteq {<<"publication_type", 1>>} \/ Lacking[d] = {<<"years", 1>>}
                            \/ Lacking[d] = {<<"exclude", 1>>} \/ Lacking[d] = {<<"name", 2>>}}
MCLosses == {{d \in MCDocs : Cardinality(Lacking[d]) < 2}}

(***************************************************************************)
(* SpecificPaperByName: a title may introduce the name or contain it, in   *)
(* another case too, and its neighbours may introduce it.                  *)
(***************************************************************************)
MCNameEvidences ==
    {[any |-> e, exact |-> [e EXCEPT !.title = "no"], link |-> FALSE] :
        e \in {[title |-> "introduces", times |-> 0, introduced |-> FALSE],
               [title |-> "contains",   times |-> 2, introduced |-> TRUE],
               [title |-> "no",         times |-> 4, introduced |-> FALSE]}}

MCNamePapers         == Three
MCNameStyles         == {"weird", "lower", "title"}
MCNameContents       == {"none", "blank", "words"}
MCNameAnswers        == {<< >>, <<p1, p2>>, <<p3>>}
MCNameContentAnswers == {<< >>, <<p2, p3>>}
MCNameSuggestions    == {<< >>, <<p1>>, <<p3, p2>>, <<p2, p1, p3>>}

(***************************************************************************)
(* SearchByAuthors: two profiles of a name at most, shown one a page; p1   *)
(* is by both authors, but of different profiles.                          *)
(***************************************************************************)
MCAuthorsPapers   == Three
MCAuthorsAuthors  == {a, b}
MCAuthorsBy       == Each({<<a, 1>>, <<b, 2>>}, {<<a, 2>>}, {<<b, 1>>})
MCAuthorsDated    == {p1, p2}
MCAuthorsPlaced   == {p1, p3}
MCAuthorsRelevant == {p1}
MCAuthorsAnswers  == {<<p1, p2>>, <<p3, p1>>}
MCAuthorsProfiles == 0..2

(***************************************************************************)
(* Snowball: 1 and 2 are found before or not, 5 is judged irrelevant; a    *)
(* paper may have a reference count that limits it or none.                *)
(***************************************************************************)
Graph ==
    [citations |-> [d \in 1..5 |->
        CASE d = 1 -> {<<3, FALSE>>, <<5, FALSE>>}
          [] d = 2 -> {<<3, FALSE>>, <<4, FALSE>>, <<5, TRUE>>, <<1, FALSE>>}
          [] OTHER -> {}],
     references |-> [d \in 1..5 |->
        CASE d = 1 -> {<<5, FALSE>>} [] d = 2 -> {<<3, FALSE>>, <<4, FALSE>>} [] OTHER -> {}],
     referenceCount |-> [d \in 1..5 |-> IF d \in 3..4 THEN 150 ELSE Unknown],
     citationCount  |-> [d \in 1..5 |-> CASE d = 3 -> 5000 [] d = 4 -> Unknown [] OTHER -> 10]]
OtherCounts ==
    [Graph EXCEPT !.referenceCount = [d \in 1..5 |-> CASE d = 5 -> 20 [] d = 3 -> 700
                                                                      [] OTHER -> 150]]

MCSnowPapers    == 1..5
MCSnowCollected == {<< >>, <<1, 2>>, <<2, 1, 3>>, <<3>>}
MCSnowRelevance == <<2, 3, 1, 2, 0>>
MCSnowGraphs    == {Graph, OtherCounts}
MCSnowBefore    == {3, 4, 5}
MCSnowMentioned == {<< >>, <<4>>}

(***************************************************************************)
(* SnippetSnowball: snippets of two sentences, whose bounds are known, of  *)
(* one of them, or are not, or are of another text; papers are mentioned in either sentence or *)
(* across both.                                                            *)
(***************************************************************************)
Text      == <<"x", ".", " ", "x", ".", " ">>
Sentences == <<[start |-> 0, end |-> 3], [start |-> 3, end |-> 6]>>
Mention(p, s, e) == [paper |-> p, start |-> s, end |-> e]
Snippet(sentences, mentions, score) ==
    [text |-> Text, placed |-> TRUE, ranked |-> FALSE, sentences |-> sentences,
     mentions |-> mentions, score |-> score]
Snippets ==
    {Snippet(Sentences, <<Mention(1, 4, 5), Mention(2, 1, 2)>>, 3),
     Snippet(Sentences, <<Mention(3, 3, 5), Mention(1, 2, 4)>>, 6),
     Snippet(<< >>, <<Mention(2, 3, 4)>>, Unknown),
     Snippet(<<[start |-> 0, end |-> 3], Unknown>>, <<Mention(2, 4, 5)>>, 4),
     [Snippet(<< >>, <<Mention(2, 0, 4), Mention(3, 1, 2)>>, 9) EXCEPT !.placed = FALSE],
     [Snippet(Sentences, <<Mention(3, 1, 2)>>, 1) EXCEPT !.ranked = TRUE],
     [Snippet(<< >>, << >>, 2) EXCEPT !.text = << >>]}
With2(x, y, z) == <<[id |-> 7, snippets |-> <<x, y>>], [id |-> 8, snippets |-> <<z>>]>>

MCMentionsCollected ==
    {<< >>} \cup {<<[id |-> 7, snippets |-> <<x>>]>> : x \in Snippets}
    \cup {With2(x, y, z) : x \in Snippets, y \in Snippets, z \in Snippets}
MCMentionsRerankScores == {0, 4, 7}

(***************************************************************************)
(* CitingPapers: two anchors with a paper that cites both.                 *)
(***************************************************************************)
MCCitingAll     == Three \cup {a, b}
MCCitingGiven   == {<< >>, <<p1>>}
MCCitingAnchors == {<< >>, <<a>>, <<a, b>>}
MCCitingOf      == [d \in MCCitingAll |-> CASE d = a -> <<p1, p2>> [] d = b -> <<p3, p1>>
                                       [] OTHER -> << >>]
MCCitingSnippets     == [d \in MCCitingAll |-> CASE d = p1 -> 3 [] d \in {p2, p3} -> 1 [] OTHER -> 0]
MCCitingFitting      == {p1, p3}
MCCitingRerankScores == {0, 5, 9}

(***************************************************************************)
(* DenseAgent: a query or as many that each has its page; three calls.     *)
(***************************************************************************)
MCDensePapers     == Three \cup {a}
MCDenseGiven      == {<< >>, <<p1, p3>>}
MCDenseAnchors    == {<< >>, <<a>>}
MCDenseRelevance  == [d \in Three \cup {a} |-> IF d = p3 THEN 0 ELSE 2]
MCDenseDatasets   == {"vespa", "e5"}
MCDenseAnswers    == {<<p2>>, <<p3, p1>>}
MCDenseNumQueries == {1, 9}

(***************************************************************************)
(* FastBroadSearch: three sources.                                         *)
(***************************************************************************)
MCFastPapers   == Three
MCFastArms     == <<"dense", "s2", "llm">>
MCFastAnswers  == {<< >>, <<p1, p2>>, <<p3, p1>>}
MCFastSnippets == {<< >>, <<p2>>}
MCFastFitting  == {p1, p2}
MCFastRelevant == {p2, p3}
MCFastUnscored == -1

(***************************************************************************)
(* KeywordSearch: columns with ties, with nothing known and in between.    *)
(***************************************************************************)
MCKeywordColumns ==
    [year : {Each(2001, 2020, Missing), Each(2020, 2020, 2020),
             Each(Missing, Missing, Missing), Each(2020, 2001, 2019)},
     citations : {Each(5, 500, 5), Each(Missing, 1, 1)},
     rerank : {Each(9, 8, 7), Each(Missing, Missing, Missing), Each(1, 1, 9)},
     snippets : {Each(0, 1, 0)}]
Preferring(recent, central) ==
    [recentExplicit  |-> FALSE, recentFirst  |-> "first" \in recent,
     recentLast      |-> "last" \in recent,
     centralExplicit |-> FALSE, centralFirst |-> "first" \in central,
     centralLast     |-> "last" \in central]

MCKeywordPapers  == Three
MCKeywordAnswers == {<< >>, <<p1, p2, p3>>, <<p3, p1>>}
MCKeywordPreferences ==
    {Preferring({}, {}), Preferring({"first"}, {}), Preferring({"last"}, {}),
     Preferring({"first"}, {"last"}), Preferring({"first"}, {"first"}),
     Preferring({"first", "last"}, {})}
MCKeywordRelevant == {p1}

(***************************************************************************)
(* Sorting: two papers that differ in some of the features.  Judgements of *)
(* 284 and 233 are 17 hundredths apart and of one level, of 233 and 200 less *)
(* than that and of two: (3, 3, 1) and (3, 3, 0) of three equal criteria.   *)
(***************************************************************************)
Feature(relevance, rerank, snippets, year, citations) ==
    [relevance |-> relevance, rerank |-> rerank, snippets |-> snippets,
     year |-> year, citations |-> citations]
SomeFeatures ==
    {Feature(284, 0, 0, 1990, 0), Feature(233, 300, 3, 2026, 500),
     Feature(233, 300, 3, 2006, 500), Feature(233, 300, 3, Unknown, 500),
     Feature(233, 300, 3, 2006, Unknown), Feature(233, 0, 0, 1990, 0),
     Feature(200, 300, 3, 2026, 500)}

MCSortPapers      == {p1, p2}
MCSortFeatures    == [{p1, p2} -> SomeFeatures]
MCSortLoaded      == {{}, {"relevance", "year", "citations"}}
MCSortExtracted   == [recent : {"none", "first", "last", "both"}, central : {"none", "last"}]
MCSortYears       == {1990, 2006, 2019, 2026}
MCSortCounts      == {0, 5, 50, 500}
MCSortRecentFirst == [y \in MCSortYears |-> CASE y = 2026 -> 300 [] y = 2019 -> 150 [] OTHER -> 0]
MCSortRecentLast  == [y \in MCSortYears |-> CASE y = 2026 -> 0 [] y = 2019 -> 37
                                              [] y = 2006 -> 150 [] y = 1990 -> 275]
MCSortCentralFirst == [n \in MCSortCounts |-> CASE n = 0 -> 0 [] n = 5 -> 6
                                                [] n = 50 -> 150 [] n = 500 -> 295]
MCSortSnippetScore == [n \in 0..3 |-> CASE n = 0 -> 0 [] n = 1 -> 157
                                         [] n = 2 -> 241 [] n = 3 -> 270]
===============================================================================
