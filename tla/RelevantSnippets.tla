--------------------------- MODULE RelevantSnippets ---------------------------
(***************************************************************************)
(* Finding a model's quote in a paper (computed_fields/relevant_snippets): *)
(* each part of the quote is searched for in the title, the abstract, the  *)
(* snippets and the citation contexts, letter by letter, and one place is  *)
(* chosen for each part so that together they span as little as possible.  *)
(* A text is a sequence of letters, of "." for what is no letter, and of   *)
(* "'" for a diacritic that stands on its own.                             *)
(***************************************************************************)
EXTENDS Integers, FiniteSets, Sequences

CONSTANTS
    Papers,      \* the papers: sequences of [text, offset]
    Quotes,      \* the quotes of the model: sequences of parts, not empty
    ComboLimit   \* beyond as many choices the first place of each part is taken

VARIABLES
    sources,     \* the texts, in the order of the search: [text, offset], where a
                 \* text that has no place in the paper has the offset None
    quote,
    spans        \* the places found, << >> before the search

vars == <<sources, quote, spans>>

None     == -1
Infinity == -1

\* What the papers and quotes are.
Readable ==
    /\ \A texts \in Papers : texts \in Seq([text : Seq(STRING), offset : Nat \cup {None}])
    /\ Quotes \subseteq Seq(Seq(STRING)) \ {<< >>}

Init == sources \in Papers /\ quote \in Quotes /\ spans = << >>

(***************************************************************************)
(* One part in one text                                                    *)
(***************************************************************************)
\* A finite set of places, in their order.
Ascending(S) ==
    [r \in 1..Cardinality(S) |-> CHOOSE x \in S : Cardinality({y \in S : y <= x}) = r]

At(text, places) == [r \in DOMAIN places |-> text[places[r]]]

IsAlnum(ch)    == ch \notin {".", "'"}
Stripped(text) == At(text, Ascending({i \in DOMAIN text : text[i] # "'"}))

\* The letters of a text from one place to another.
Places(text, i, j)  == Ascending({k \in i..j : IsAlnum(text[k])})
Letters(text, i, j) == At(text, Places(text, i, j))
Cleaned(text)       == Letters(text, 1, Len(text))

\* Where each letter of the cleaned text stands in the text without diacritics.
IndexMap(text) == Places(Stripped(text), 1, Len(Stripped(text)))

\* The places are half-open, counted from 0, and in the order of the text.
\* mutant: the end is the place of the last letter
FuzzyFindSnippetText_Closed(text, part) ==
    LET needle == Cleaned(part)  n == Len(needle)
        cleaned == Cleaned(Stripped(text))  map == IndexMap(text)
        at == Ascending({f \in 1 .. Len(cleaned) - n + 1 :
                             SubSeq(cleaned, f, f + n - 1) = needle})
    IN  IF n = 0 THEN << >>
        ELSE [k \in DOMAIN at |-> [start |-> map[at[k]] - 1, end |-> map[at[k] + n - 1] - 1]]
FuzzyFindSnippetText(text, part) ==
    LET needle == Cleaned(part)  n == Len(needle)
        cleaned == Cleaned(Stripped(text))  map == IndexMap(text)
        at == Ascending({f \in 1 .. Len(cleaned) - n + 1 :
                             SubSeq(cleaned, f, f + n - 1) = needle})
    IN  IF n = 0 THEN << >>
        ELSE [k \in DOMAIN at |-> [start |-> map[at[k]] - 1, end |-> map[at[k] + n - 1]]]

\* A place in a text that has none in the paper spans without end.
Placed(i, place) ==
    IF sources[i].offset = None
    THEN [source |-> i, at |-> place, start |-> 0, end |-> Infinity]
    ELSE [source |-> i, at |-> place, start |-> sources[i].offset + place.start,
          end |-> sources[i].offset + place.end]

\* The places of a part in one text after those in the texts before it.
MatchesIn(i, part) ==
    LET places == FuzzyFindSnippetText(sources[i].text, part)
    IN  [k \in DOMAIN places |-> Placed(i, places[k])]

PartMatches(part) ==
    LET found[i \in 0..Len(sources)] ==
            IF i = 0 THEN << >> ELSE found[i - 1] \o MatchesIn(i, part)
    IN  found[Len(sources)]

(***************************************************************************)
(* One place for each part                                                 *)
(***************************************************************************)
Found(matches) == {p \in DOMAIN matches : matches[p] # << >>}

Combos(matches) ==
    {c \in [Found(matches) -> UNION {DOMAIN matches[p] : p \in Found(matches)}] :
        \A p \in Found(matches) : c[p] \in DOMAIN matches[p]}

Least(S)    == CHOOSE x \in S : \A y \in S : x <= y
Greatest(S) == CHOOSE x \in S : \A y \in S : y <= x

Extent(places) == Greatest({m.end : m \in places}) - Least({m.start : m \in places})

Span(matches, combo) ==
    LET places == {matches[p][combo[p]] : p \in DOMAIN combo}
    IN  IF \E m \in places : m.end = Infinity THEN Infinity ELSE Extent(places)

Before(c, d) ==
    \E p \in DOMAIN c : c[p] < d[p] /\ \A q \in DOMAIN c : q < p => c[q] = d[q]

\* The first of the choices with the smallest span, and the first of all when
\* every choice spans without end.
Best(matches) ==
    LET finite   == {Span(matches, c) : c \in Combos(matches)} \ {Infinity}
        smallest == IF finite = {} THEN Infinity ELSE Least(finite)
        best     == {c \in Combos(matches) : Span(matches, c) = smallest}
    IN  CHOOSE c \in best : \A d \in best \ {c} : Before(c, d)

ComboCount(matches) ==
    LET count[p \in 0..Len(matches)] ==
            IF p = 0 THEN 1
            ELSE count[p - 1] * (IF matches[p] = << >> THEN 1 ELSE Len(matches[p]))
    IN  count[Len(matches)]

ChooseMinCombinedSpan(matches) ==
    LET choice == IF ComboCount(matches) <= ComboLimit
                  THEN Best(matches) ELSE [p \in Found(matches) |-> 1]
    IN  [p \in DOMAIN matches |->
            IF p \in Found(matches) THEN <<matches[p][choice[p]]>> ELSE << >>]

Matches == [p \in DOMAIN quote |-> PartMatches(quote[p])]

FindRelevantSnippet ==
    /\ spans = << >>
    /\ spans' = IF Found(Matches) = {} THEN [p \in DOMAIN quote |-> << >>]
                ELSE ChooseMinCombinedSpan(Matches)
    /\ UNCHANGED <<sources, quote>>

Next == FindRelevantSnippet
Spec == Init /\ [][Next]_vars

(***************************************************************************)
(* What is found                                                           *)
(***************************************************************************)
Occurs(text, part) ==
    /\ Cleaned(part) # << >>
    /\ \E i, j \in DOMAIN text : Letters(text, i, j) = Cleaned(part)

\* A part of the quote has a place exactly when it occurs in one of the texts,
\* and the place holds the letters of the part, from the first to the last: the
\* offsets that the answer shows are those of the quote, whatever stands between
\* its letters, as long as no diacritic of the text stands on its own.
Holds(p, m) ==
    LET text == sources[m.source].text IN
    /\ Letters(text, m.at.start + 1, m.at.end) = Cleaned(quote[p])
    /\ m.at.start < m.at.end /\ IsAlnum(text[m.at.start + 1]) /\ IsAlnum(text[m.at.end])

Plain(text) == Stripped(text) = text

PlacesHold ==
    \A p \in DOMAIN spans :
        /\ spans[p] = << >> <=> ~\E i \in DOMAIN sources : Occurs(sources[i].text, quote[p])
        /\ \A k \in DOMAIN spans[p] :
               Plain(sources[spans[p][k].source].text) => Holds(p, spans[p][k])

\* The places chosen lie no further apart than any places of the parts within
\* one text do, unless there are too many choices to compare.
ChosenClose ==
    LET matches == Matches
        chosen  == UNION {{spans[p][i] : i \in DOMAIN spans[p]} : p \in DOMAIN spans}
        Near(m, l) == m.source = l.source /\ m.end # Infinity
    IN  chosen # {} /\ ComboCount(matches) <= ComboLimit =>
            \A c \in Combos(matches) :
                LET other == {matches[p][c[p]] : p \in DOMAIN c} IN
                (\A m, l \in other : Near(m, l)) =>
                    (\A m \in chosen : m.end # Infinity) /\ Extent(chosen) <= Extent(other)

SpansSound == PlacesHold /\ ChosenClose
===============================================================================
