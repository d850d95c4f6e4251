------------------------------ MODULE S2Fetchers ------------------------------
(***************************************************************************)
(* The searches of Semantic Scholar: by relevance or in bulk, by title, by *)
(* author and by the paper that is cited.  A search may be limited to      *)
(* years, and to what was there before some date (inserted_before), so     *)
(* that an old state of the source can be asked for; some of them leave    *)
(* that to the API, which has its own way with papers whose date is not    *)
(* known, and others look at each paper themselves.  Answers come in       *)
(* pages, and a failure starts a search again.                             *)
(* Days are numbers, DaysPerYear of them in a year.                        *)
(***************************************************************************)
EXTENDS Integers, Sequences, FiniteSets

CONSTANTS Queries,     \* searches: records with kind, start and end (years), before
                       \* (a year, month and day, or only the first of these) and limit
          Corpora,     \* what a source may hold: sequences of papers, which have a year
                       \* and a date, in the order of the answer
          DaysPerYear, DaysPerMonth,
          PageSize,    \* the papers of a page
          Attempts     \* how often s2_retry tries

None == -1

\* Years and days are numbers, and the source gives a paper the year of its date.
SourceAgrees ==
    /\ DaysPerYear \in Nat \ {0} /\ DaysPerMonth \in Nat /\ PageSize \in Nat \ {0}
    /\ LET Years == (Nat \ {0}) \cup {None}
       IN  /\ Queries \subseteq [kind : {"search", "title", "author", "citing"}, start : Years,
                               end : Years, before : Seq(Nat), limit : Nat]
           /\ Corpora \subseteq Seq([year : Years, date : Nat \cup {None}])
    /\ \A q \in Queries : q.before # << >> => q.before[1] > 0
    /\ \A c \in Corpora : \A i \in DOMAIN c :
           c[i].date # None => c[i].year = c[i].date \div DaysPerYear

VARIABLES query, corpus, tries, state, got, docs

vars == <<query, corpus, tries, state, got, docs>>

(***************************************************************************)
(* Dates                                                                   *)
(***************************************************************************)
YearOf(day) == day \div DaysPerYear

\* The parts that are not given are the first: 2020-05 is the first of May.
FirstDay(before) ==
    before[1] * DaysPerYear
    + (IF Len(before) > 1 THEN before[2] * DaysPerMonth ELSE 0)
    + (IF Len(before) > 2 THEN before[3] ELSE 0)

\* get_publication_date_from_inserted_before
LastAllowed(before) == IF before = << >> THEN None ELSE FirstDay(before) - 1

\* The last year counts if it is sooner than the last day.
EndsSooner(q) == q.end # None /\ q.end < YearOf(LastAllowed(q.before))

Contradicts(q) ==
    /\ q.before # << >> /\ q.start # None
    /\ q.start > (IF EndsSooner(q) THEN q.end ELSE YearOf(LastAllowed(q.before)))

\* The range that the API is asked for: the year it starts and the day it ends.
\* Without a date before which papers were inserted, the last year is not sent.
MergeTimeRange(q) ==
    [start |-> q.start,
     end   |-> IF q.before = << >> THEN None
               ELSE IF EndsSooner(q) THEN (q.end + 1) * DaysPerYear - 1
               ELSE LastAllowed(q.before)]

CheckInsertedBefore(before, p) ==
    LET last == LastAllowed(before)
    IN  \/ last = None
        \/ /\ p.date = None \/ p.date <= last
           /\ p.year # None /\ p.year <= YearOf(last)

(***************************************************************************)
(* The source: a paper of which only the year is known counts as one of    *)
(* the first day of it, one of which it is not, fits no range.             *)
(***************************************************************************)
Admits(range, p) ==
    (range.start = None /\ range.end = None) \/
    LET day == IF p.date # None THEN p.date ELSE p.year * DaysPerYear
    IN  /\ p.year # None
        /\ range.start # None => range.start <= YearOf(day)
        /\ range.end # None => day <= range.end

ByRange == query.kind \in {"search", "title"}
Refuses == ByRange /\ Contradicts(query)
Range   == IF ByRange THEN MergeTimeRange(query) ELSE [start |-> None, end |-> None]

\* Places in the order of the source.
InOrder(S) ==
    [k \in 1 .. Cardinality(S) |-> CHOOSE i \in S : Cardinality({j \in S : j <= i}) = k]

Matches == InOrder({i \in DOMAIN corpus : Admits(Range, corpus[i])})

Min2(a, b) == IF a < b THEN a ELSE b

Limit == IF query.kind = "title" THEN 1 ELSE query.limit

\* min(limit, PAPER_SEARCH_PER_CALL_LIMIT, total_limit)
PerCall == IF query.kind = "search" THEN Min2(PageSize, Limit) ELSE PageSize

(***************************************************************************)
(* A search                                                                *)
(***************************************************************************)
Init ==
    /\ query \in Queries /\ corpus \in Corpora
    /\ tries = 0 /\ state = "start" /\ got = << >> /\ docs = << >>

\* The range is empty: the source is not asked.
Refuse ==
    /\ state = "start" /\ Refuses
    /\ state' = "answered"
    /\ UNCHANGED <<query, corpus, tries, got, docs>>

\* A page, of which no more is taken than the search is limited to.
Page == SubSeq(Matches, Len(got) + 1, Min2(Len(got) + PerCall, Min2(Limit, Len(Matches))))

FirstPage ==
    /\ state = "start" /\ ~Refuses
    /\ got' = Page
    /\ state' = "paging"
    /\ UNCHANGED <<query, corpus, tries, docs>>

HasNextPage == Len(got) < Len(Matches) /\ Len(got) < Limit

NextPage ==
    /\ state = "paging" /\ HasNextPage
    /\ got' = got \o Page
    /\ UNCHANGED <<query, corpus, tries, state, docs>>

\* A failure that s2_retry tries again: the search begins anew.  A search by title
\* raises as well, unless there is no such paper.
Fail ==
    /\ \/ state = "start" /\ ~Refuses
       \/ state = "paging" /\ HasNextPage
    /\ got' = << >>
    /\ \E again \in BOOLEAN :
           state' = IF again /\ tries + 1 < Attempts THEN "start" ELSE "raised"
    /\ tries' = tries + 1
    /\ UNCHANGED <<query, corpus, docs>>

Answer(papers, ranked) ==
    /\ docs' = [i \in 1 .. Len(papers) |->
                   [paper |-> papers[i], rank |-> IF ranked THEN i ELSE None]]
    /\ state' = "answered"
    /\ UNCHANGED <<query, corpus, tries, got>>

\* s2_paper_search, and s2_papers_by_title with its one paper
AnswerSearch ==
    /\ state = "paging" /\ ~HasNextPage /\ ByRange
    /\ Answer(got, TRUE)

Inserted == InOrder({got[k] : k \in {l \in DOMAIN got :
                                        CheckInsertedBefore(query.before, corpus[got[l]])}})

\* s2_papers_by_author_id
AnswerByAuthor ==
    /\ state = "paging" /\ ~HasNextPage /\ query.kind = "author"
    /\ Answer(Inserted, FALSE)

\* s2_fetch_citing_papers
AnswerCiting ==
    /\ state = "paging" /\ ~HasNextPage /\ query.kind = "citing"
    /\ Answer(Inserted, TRUE)

Next == Refuse \/ FirstPage \/ NextPage \/ Fail \/ AnswerSearch \/ AnswerByAuthor
        \/ AnswerCiting

Spec == Init /\ [][Next]_vars

(***************************************************************************)
(* Properties                                                              *)
(***************************************************************************)
Cutoff == FirstDay(query.before)
Papers == {docs[i].paper : i \in 1 .. Len(docs)}

\* Of an old state of the source, no paper is from the date on that is asked for, or
\* of a later year, as far as it is known; and none is of another year than asked
\* for, but that the last year is not enforced where no such date is given.
OldStateKept ==
    \A i \in Papers :
        LET p == corpus[i]
        IN  /\ query.before # << >> =>
                   /\ p.year # None /\ p.year <= YearOf(Cutoff)
                   /\ p.date # None => p.date < Cutoff
                   /\ ByRange /\ query.end # None => p.year <= query.end
            /\ ByRange /\ query.start # None => p.year # None /\ p.year >= query.start

\* Whatever pages it comes in and whatever was tried again, an answer has no paper
\* twice, the papers in the order of the source under their ranks, and each of those
\* that fit among the first of the source, as many as the search is limited to.
InOrderOnce ==
    /\ \A i \in 1 .. Len(docs) : query.kind # "author" => docs[i].rank = i
    /\ \A i, j \in 1 .. Len(docs) : i < j => docs[i].paper < docs[j].paper
    /\ Len(docs) <= Limit

Fits(p) ==
    /\ query.before # << >> => p.date # None /\ p.date < Cutoff
    /\ ByRange => /\ query.start # None => p.year >= query.start
                  /\ query.end # None => p.year <= query.end

NothingSkipped ==
    state = "answered" =>
        \A i \in 1 .. Len(corpus) :
            corpus[i].year # None /\ Fits(corpus[i]) /\ i <= Limit => i \in Papers

FetchersSound == OldStateKept /\ InOrderOnce /\ NothingSkipped
===============================================================================
