------------------------------ MODULE MCServices ------------------------------
(***************************************************************************)
(* The services on small instances.                                        *)
(***************************************************************************)
EXTENDS MCPaperFinder, Services, FiniteSets

(***************************************************************************)
(* HeapqSemaphore: one permit, so that all tasks but one wait: four        *)
(* waiters is where the heap first has a choice of children to compare,    *)
(* and where it first reorders equal priorities.  The tasks are alike, so  *)
(* that they come in their order.                                          *)
(***************************************************************************)
MCWaiters == 1..5

ComeInOrder == \A i \in 2..5 : w4'[i] # "idle" => w4'[i - 1] # "idle"

(***************************************************************************)
(* ModelCalls: three calls that are only retried, one that races with no   *)
(* fallback, one or two, and two that race one after the other.            *)
(***************************************************************************)
Batch(calls, racing, fallbacks, attempts, concurrency, cancels, returns) ==
    [calls |-> calls, racing |-> racing, fallbacks |-> fallbacks, attempts |-> attempts,
     concurrency |-> concurrency, cancelPending |-> cancels, returnExceptions |-> returns]

MCSettings == {Batch(3, FALSE, 0, 2, 2, FALSE, r) : r \in BOOLEAN}
              \cup {Batch(1, TRUE, f, 2, 1, c, TRUE) : f \in 0..2, c \in BOOLEAN}
              \cup {Batch(2, TRUE, 1, 1, 1, TRUE, FALSE)}

(***************************************************************************)
(* ModelEndpoints: no parameters, one that the family of the model must    *)
(* convert or drop, and two of which one is of the other kind of thinking. *)
(***************************************************************************)
MCGiven == {<< >>, [temperature |-> 0], [thinking_budget |-> 0, max_tokens |-> 9]}
MCFallbacks == {<< >>, <<"gpt41-mini", "gemini2flash">>}

(***************************************************************************)
(* RelevantSnippets: texts with other signs and diacritics between the     *)
(* letters, of title, abstract, snippet and citation context; quotes of a  *)
(* part, of parts that occur more than once, and of one without letters.   *)
(***************************************************************************)
Texts == {<< >>, <<"a", ".", "b">>, <<"a", "b", ".", "a", "'", "b">>, <<".", "b", "a", ".">>}
Source(text, offset) == [text |-> text, offset |-> offset]

MCSnippetPapers ==
    {<<Source(t, 0), Source(x, 0), Source(s, o), Source(c, -1)>> :
        t \in Texts \ {<< >>}, x \in Texts, s \in Texts \cup {<<"'", "a", "c">>},
        o \in {4, -1}, c \in {<< >>, <<"a", "b", "c">>}}
MCQuotes == {<<<<"a", "b">>>>, <<<<"a", ".">>, <<"b">>>>,
             <<<<"c">>, <<"a">>, <<"b", "a">>>>, <<<<".">>, <<"a">>>>}

(***************************************************************************)
(* RelevanceJudgements: one and two criteria, with an optional one of      *)
(* another name or of the same.                                            *)
(***************************************************************************)
Criterion(n, weight) == [name |-> n, weight |-> weight]
Two == <<Criterion("x", 60), Criterion("y", 40)>>

MCDocuments == {<< >>, <<"d1">>, <<"d2", "d1", "d3">>}
MCCriteria == {[required |-> << >>, nice |-> << >>],
               [required |-> <<Criterion("x", 100)>>, nice |-> << >>],
               [required |-> Two, nice |-> <<Criterion("z", 50)>>],
               [required |-> Two, nice |-> <<Criterion("x", 10)>>]}

(***************************************************************************)
(* ManagedEnv: three providers with all dependencies of up to two on one   *)
(* another and on a name nobody provides, some of them given values.       *)
(***************************************************************************)
Providers == {"a", "b", "c"}

MCEnvironments == {[order |-> <<"a", "b", "c">>, deps |-> d, existing |-> e] :
    d \in {f \in [Providers -> SUBSET (Providers \cup {"q"})] :
              Cardinality(f["a"]) <= 2 /\ Cardinality(f["c"]) <= 1},
    e \in {{}, {"q"}, {"q", "b"}}}

(***************************************************************************)
(* DocumentFusing: three of five documents are of one paper, with snippets *)
(* that touch, overlap or lie within one another, and titles that are      *)
(* known, missing or not loaded; two of the lists have a computed field.   *)
(***************************************************************************)
Snip(kind, start, end, text) == [kind |-> kind, start |-> start, end |-> end, text |-> text]
Doc(id, title, refs, snips) == [id |-> id, title |-> title, origins |-> refs, snippets |-> snips]
Found(list, computed) == [docs |-> list, computed |-> computed]
Origin(query, rank) == [query |-> query, ranks |-> {rank}]

World(first, second, third, title, other) ==
    [docs |-> <<Doc(1, title, <<1>>, first), Doc(2, 5, <<2>>, << >>),
                Doc(1, other, <<3>>, second), Doc(1, 6, <<4, 5>>, third),
                Doc(3, -1, << >>, << >>)>>,
     origins |-> <<Origin(1, 1), Origin(1, 2), Origin(2, 1), Origin(1, 4), Origin(2, 3)>>,
     lists |-> <<Found(<<1, 2>>, 1), Found(<<3>>, 0), Found(<<4, 5>>, 2)>>]

Short == <<Snip(1, 1, 4, 0)>>
Next4 == <<Snip(1, 2, 6, 0)>>
Inner == <<Snip(1, 3, 5, 0), Snip(3, 0, 0, 7)>>

MCWorlds == {World(Short, Next4, Inner, -1, 9), World(Next4, Inner, Short, 0, -1),
             [World(Short, Next4, Inner, -1, 9) EXCEPT !.lists =
                 <<Found(<<1, 2, 3>>, 0), Found(<<5>>, 2), Found(<<4>>, 2)>>]}
MCRelevance == <<2, 3, -1>>

(***************************************************************************)
(* S2Loader: 2 was replaced by 1 and 5 by a paper nobody asked for, 4 is   *)
(* unknown and 9 is not of Semantic Scholar; batches of two.               *)
(***************************************************************************)
MCLoads == {[docs |-> d, citations |-> c, serial |-> s] : c, s \in BOOLEAN,
                  d \in {<<1, 2, 9, 3, 5>>, <<2, 4, 1>>, <<4>>, <<9>>, <<4, 5, 6, 3>>}}
MCCurrent == <<1, 1, 3, 0, 7, 6>>

(***************************************************************************)
(* S2Fetchers: years and dates around the last day that is allowed, which  *)
(* is the last of a year, of a month or neither; pages of two papers.      *)
(***************************************************************************)
Paper(year, date) == [year |-> year, date |-> date]
Search(kind, start, end, before, limit) ==
    [kind |-> kind, start |-> start, end |-> end, before |-> before, limit |-> limit]

MCSearches == {Search(k, s, e, b, l) : k \in {"search", "title"}, s, e \in {-1, 2, 3},
                  b \in {<< >>, <<3>>, <<3, 1>>, <<2, 1, 1>>}, l \in {1, 3}}
             \cup {Search(k, -1, -1, b, 5) : k \in {"author", "citing"},
                       b \in {<< >>, <<3>>, <<3, 1>>, <<2, 1, 1>>}}
MCCorpora == {<< >>, <<Paper(3, 15), Paper(2, 10), Paper(3, -1)>>,
              <<Paper(2, 8), Paper(3, 13), Paper(2, -1), Paper(-1, -1), Paper(3, 12),
                Paper(2, 11)>>}

(***************************************************************************)
(* The services, with the tasks in their order                             *)
(***************************************************************************)
RunHeapInOrder == RunHeap /\ ComeInOrder

MCNext == \/ Round \/ RunHeapInOrder \/ RunCalls \/ RunEndpoints \/ RunSnippets
          \/ RunJudgements \/ RunEnv \/ RunFusing
          \/ RunLoader \/ RunFetchers

MCSpec == ServicesInit /\ [][MCNext]_all /\ WF_all(RunCalls)
===============================================================================
