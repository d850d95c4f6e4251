---------------------------- MODULE DocumentFusing ----------------------------
(***************************************************************************)
(* Collections of documents as objects (document.py, collection.py,        *)
(* fuse.py, sampling.py, factory.py): collections share their documents,   *)
(* documents share the origins in their lists, and a merge changes the     *)
(* documents of the collection that it is called on.  The text of a        *)
(* snippet that has a place is the text of its paper there, so that its    *)
(* bounds stand for it; the scores of snippets are merged as the ranks of  *)
(* origins are and are left out.                                           *)
(***************************************************************************)
EXTENDS Integers, Sequences, FiniteSets

CONSTANTS
    Worlds,    \* what the sources find: [docs, origins, lists], where a document is
               \* [id, title, origins, snippets], an origin [query, ranks], and a list
               \* [docs, computed] with the definition of a computed field, or None
    Relevance, \* how relevant a paper was judged, -1 without a judgement
    MaxCalls   \* a bound on the operations

VARIABLES
    docs, origins,  \* the documents and the origins that exist
    lists,          \* what the sources found, not yet in a collection
    colls,          \* the collections: [docs, computed], and the root, the first of
                    \* the collections that it has the documents of
    call            \* the last operation: its name, its arguments, if it raised

vars == <<docs, origins, lists, colls, call>>

\* Places count from 1 here, so that 0 stands for none: a snippet without a place
\* still comes before one at the start of its paper.
None     == 0
Unloaded == -1      \* of a title; a title that was loaded may be None

Members(list) == {list[i] : i \in DOMAIN list}

Snippets == [kind : Int, start : Nat, end : Nat, text : Int]

\* What the sources find: every fetcher makes a document of its own for each paper,
\* with an origin of its own (s2_paper_to_document), so that no document is found
\* twice and none has an origin of another paper.
Sourced ==
    /\ DOMAIN Relevance \subseteq Int /\ Relevance \in [DOMAIN Relevance -> Int]
    /\ \A world \in Worlds :
           /\ world.origins \in Seq([query : Int, ranks : SUBSET Int])
           /\ world.docs \in Seq([id : DOMAIN Relevance, title : Int,
                                  origins : Seq(DOMAIN world.origins), snippets : Seq(Snippets)])
           /\ \A d \in DOMAIN world.docs : \A s \in Members(world.docs[d].snippets) :
                  s.start = None => s.end = None
           /\ \A d, e \in DOMAIN world.docs :
                  world.docs[d].id # world.docs[e].id =>
                      Members(world.docs[d].origins) \cap Members(world.docs[e].origins) = {}
           /\ world.lists \in Seq([docs : Seq(DOMAIN world.docs), computed : Int])
           /\ \A i, j \in DOMAIN world.lists :
                  \A k \in DOMAIN world.lists[i].docs, l \in DOMAIN world.lists[j].docs :
                      world.lists[i].docs[k] = world.lists[j].docs[l] => i = j /\ k = l

Init ==
    /\ \E w \in Worlds : docs = w.docs /\ origins = w.origins /\ lists = w.lists
    /\ colls = << >>
    /\ call = [name |-> "none", with |-> << >>, raised |-> FALSE]

(***************************************************************************)
(* Fusing a document with another of the same paper.  A store is what      *)
(* documents and origins there are.                                        *)
(***************************************************************************)
TakeFirst(to, from) == IF to = Unloaded THEN from ELSE to

Firsts(keys) == {i \in DOMAIN keys : \A j \in 1 .. i - 1 : keys[j] # keys[i]}

\* A finite set in the order of a relation, and of numbers.
InOrder(S, before) ==
    [r \in 1 .. Cardinality(S) |->
        CHOOSE x \in S : Cardinality({y \in S : <<y, x>> \in before}) = r - 1]
Rising(S) == InOrder(S, {p \in S \X S : p[1] < p[2]})

\* One origin for each query, the first, which takes the ranks of the others.
FuseOriginQuery(store, list) ==
    LET query == [i \in DOMAIN list |-> store.origins[list[i]].query]
        first == Rising(Firsts(query))
    IN  [refs |-> [k \in DOMAIN first |-> list[first[k]]],
         origins |-> [o \in DOMAIN store.origins |->
             IF \A i \in Firsts(query) : list[i] # o THEN store.origins[o]
             ELSE [store.origins[o] EXCEPT !.ranks =
                      UNION {store.origins[list[i]].ranks :
                                 i \in {j \in DOMAIN list : query[j] = store.origins[o].query}}]]]

SortKey(s) ==
    <<s.kind, IF s.start = None THEN 0 ELSE s.start,
      IF s.start = None THEN 0 ELSE s.end, s.text>>
Earlier(s, t) ==
    \E i \in 1..4 : /\ SortKey(s)[i] < SortKey(t)[i]
                    /\ \A j \in 1 .. i - 1 : SortKey(s)[j] = SortKey(t)[j]

Overlap(s, next) ==
    /\ s.start # None /\ next.start # None
    /\ s.kind = next.kind /\ s.end > next.start

\* A snippet that goes on in the next one ends where that one starts.
CleanOverlaps(sorted) ==
    [i \in DOMAIN sorted |->
        IF i < Len(sorted) /\ Overlap(sorted[i], sorted[i + 1])
        THEN [sorted[i] EXCEPT !.end = sorted[i + 1].start] ELSE sorted[i]]

FuseSnippet(list) ==
    LET keys   == [i \in DOMAIN list |-> <<list[i].start, list[i].end, list[i].text>>]
        merged == {list[i] : i \in Firsts(keys)}
    IN  CleanOverlaps(InOrder(merged, {p \in merged \X merged : Earlier(p[1], p[2])}))

Fuse(store, to, from) ==
    LET a == store.docs[to]  b == store.docs[from]
        fused == FuseOriginQuery(store, a.origins \o b.origins)
    IN  [docs |-> [store.docs EXCEPT ![to] =
             [id |-> a.id, title |-> TakeFirst(a.title, b.title),
              origins |-> fused.refs, snippets |-> FuseSnippet(a.snippets \o b.snippets)]],
         origins |-> fused.origins, result |-> store.result]

\* A clone has lists of its own, of the same origins.
Clone(store, d) ==
    [docs |-> Append(store.docs, store.docs[d]), origins |-> store.origins,
     result |-> Append(store.result, Len(store.docs) + 1)]

Take(store, d) ==
    [docs |-> store.docs, origins |-> store.origins, result |-> Append(store.result, d)]

\* mutant: a new document is taken as it is
Add_Shared(store, d) == Take(store, d)
Add(store, d) == Clone(store, d)

\* A document joins the result: fused into the one of its paper, or added.
Join(store, d, cloned) ==
    LET same == {r \in Members(store.result) : store.docs[r].id = store.docs[d].id}
    IN  IF same # {} THEN Fuse(store, CHOOSE r \in same : TRUE, d)
        ELSE IF cloned THEN Add(store, d) ELSE Take(store, d)

JoinAll(store, list, cloned) ==
    LET joined[k \in 0 .. Len(list)] ==
            IF k = 0 THEN store ELSE Join(joined[k - 1], list[k], cloned)
    IN  joined[Len(list)]

(***************************************************************************)
(* The operations.  Everything that makes a collection of documents that   *)
(* other collections have too leaves them as they are.                     *)
(***************************************************************************)
Store(result) == [docs |-> docs, origins |-> origins, result |-> result]

Own == Len(colls) + 1

Made(store, computed, root) ==
    /\ docs' = store.docs /\ origins' = store.origins
    /\ colls' = Append(colls, [docs |-> store.result, computed |-> computed, root |-> root])

Calls(name, with, raised) ==
    /\ Len(colls) < MaxCalls /\ ~call.raised
    /\ call' = [name |-> name, with |-> with, raised |-> raised]

\* DocumentCollectionFactory.from_docs with what a source found: the first document
\* of a paper is fused with the others, in place.
FromDocs ==
    /\ lists # << >>
    /\ Calls("from_docs", << >>, FALSE)
    /\ lists' = Tail(lists)
    /\ Made(JoinAll(Store(<< >>), Head(lists).docs, FALSE), Head(lists).computed, Own)

Computed(cs) == {colls[c].computed : c \in cs} \ {None}
TheOne(cs) == IF Computed(cs) = {} THEN None ELSE CHOOSE f \in Computed(cs) : TRUE

\* The documents of collections, one collection after the other.
Together(cs) ==
    LET all[i \in 0 .. Len(cs)] == IF i = 0 THEN << >> ELSE all[i - 1] \o colls[cs[i]].docs
    IN  all[Len(cs)]

\* collections[a].merged(*others), or self when there are none.
Merged(a, others) ==
    /\ others # << >> /\ Cardinality(Computed({a} \cup Members(others))) <= 1
    /\ Calls("merged", <<a>> \o others, FALSE)
    /\ Made(JoinAll(Store(colls[a].docs), Together(others), TRUE),
            TheOne({a} \cup Members(others)), colls[a].root)
    /\ UNCHANGED lists

\* DocumentCollectionFactory.merge: merged into an empty collection.
FactoryMerge(cs) ==
    /\ cs # << >> /\ Cardinality(Computed(Members(cs))) <= 1
    /\ Calls("merge", cs, FALSE)
    /\ Made(JoinAll(Store(<< >>), Together(cs), TRUE), TheOne(Members(cs)), Own)
    /\ UNCHANGED lists

\* Two definitions of a computed field: what was fused before stays fused, and the
\* agent that merges fails.
MergeRaises(a, others) ==
    /\ Cardinality(Computed({a} \cup Members(others))) > 1
    /\ Calls("merged", <<a>> \o others, TRUE)
    /\ LET fit  == {n \in 0 .. Len(others) :
                       Cardinality(Computed({a} \cup Members(SubSeq(others, 1, n)))) <= 1}
           last == CHOOSE n \in fit : \A m \in fit : m <= n
           done == JoinAll(Store(colls[a].docs), Together(SubSeq(others, 1, last)), TRUE)
       IN  docs' = done.docs /\ origins' = done.origins
    /\ UNCHANGED <<lists, colls>>

Of(d) == docs[d]

\* filter, take, subtract and sorted keep some of the documents, in some order.
Without(list, ids) ==
    LET kept == Rising({i \in DOMAIN list : Of(list[i]).id \notin ids})
    IN  [k \in DOMAIN kept |-> list[kept[k]]]

Subtract(a, b) ==
    /\ a # b /\ Calls("subtract", <<a, b>>, FALSE)
    /\ Made(Store(Without(colls[a].docs, {Of(e).id : e \in Members(colls[b].docs)})),
            colls[a].computed, colls[a].root)
    /\ UNCHANGED lists

\* How relevant a document is, by its paper.
Relevant(d) == Relevance[Of(d).id]

\* A stable sort, by the pairs of which the first goes before the second.
SortedBy(list, less) ==
    LET order == InOrder(1 .. Len(list),
                    {p \in (1 .. Len(list)) \X (1 .. Len(list)) :
                        \/ <<list[p[1]], list[p[2]]>> \in less
                        \/ <<list[p[2]], list[p[1]]>> \notin less /\ p[1] < p[2]})
    IN  [k \in DOMAIN order |-> list[order[k]]]

\* A document's group in the sample by origins, and how many of it come after.
Group(d)       == IF Of(d).origins = << >> THEN None ELSE origins[Head(Of(d).origins)].query
After(list, i) == Cardinality({j \in DOMAIN list : j > i /\ Group(list[j]) = Group(list[i])})
PlaceIn(list, d) == CHOOSE i \in DOMAIN list : list[i] = d

ById(S)        == {p \in S \X S : Of(p[1]).id < Of(p[2]).id}
ByRelevance(S) == {p \in S \X S : Relevant(p[1]) > Relevant(p[2])}
ByOrigin(list) ==
    {p \in Members(list) \X Members(list) :
        LET i == After(list, PlaceIn(list, p[1]))  j == After(list, PlaceIn(list, p[2]))
        IN  \/ Relevant(p[1]) > Relevant(p[2])
            \/ Relevant(p[1]) = Relevant(p[2]) /\ (i > j \/ (i = j /\ Of(p[1]).id < Of(p[2]).id))}

Samples(list, n, method) ==
    LET size    == IF n < Len(list) THEN n ELSE Len(list)
        Best(T) == \A d \in T, e \in Members(list) \ T : Relevant(d) >= Relevant(e)
    IN  CASE method = "random" ->
               {s \in [1 .. size -> Members(list)] : \A i, j \in 1 .. size : s[i] = s[j] => i = j}
          [] method = "top_relevance" ->
               {SubSeq(SortedBy(list, ByRelevance(Members(list))), 1, size)}
          [] method = "random_stratified_relevance" ->
               {InOrder(T, ById(T)) :
                   T \in {U \in SUBSET Members(list) : Cardinality(U) = size /\ Best(U)}}
          [] OTHER -> {SubSeq(SortedBy(list, ByOrigin(list)), 1, size)}

Methods == {"random", "top_relevance", "random_stratified_relevance",
            "bottom_origin_rank_stratified_relevance"}

Sample(a) ==
    /\ \E n \in 1..2, method \in Methods : \E s \in Samples(colls[a].docs, n, method) :
           /\ Calls(method, <<a>>, FALSE)
           /\ Made(Store(s), colls[a].computed, colls[a].root)
    /\ UNCHANGED lists

\* Nobody merges a collection with itself.
Next ==
    \/ FromDocs
    \/ /\ lists = << >>
       /\ \E a \in DOMAIN colls :
           \/ \E b \in DOMAIN colls \ {a} : Merged(a, <<b>>) \/ Subtract(a, b)
           \/ \E b \in DOMAIN colls \ {a}, c \in DOMAIN colls \ {a} :
                  /\ b # c
                  /\ Merged(a, <<b, c>>) \/ FactoryMerge(<<b, c>>) \/ MergeRaises(a, <<b, c>>)
           \/ Sample(a)

Spec == Init /\ [][Next]_vars

(***************************************************************************)
(* What the operations promise                                             *)
(***************************************************************************)
Ranks(d, q) == UNION {origins[o].ranks : o \in {p \in Members(docs[d].origins) : origins[p].query = q}}
Queries     == {origins[o].query : o \in DOMAIN origins}
Shown(d)    == UNION {s.start .. s.end - 1 : s \in {t \in Members(docs[d].snippets) : t.start # None}}
SamePaper(d) == {e \in DOMAIN docs : docs[e].id = docs[d].id}

\* No operation takes a title or a rank from any document, nor gives it a rank that
\* no document of its paper had.
KnownKept ==
    \A d \in DOMAIN docs :
        /\ docs[d].title # Unloaded => docs'[d].title = docs[d].title
        /\ \A q \in Queries : /\ Ranks(d, q) \subseteq Ranks(d, q)'
                              /\ Ranks(d, q)' \subseteq UNION {Ranks(e, q) : e \in SamePaper(d)}

\* A merge changes the titles and the snippets of the collection that it is called
\* on, and of those that share its documents, but what another search found stays as
\* it was found.
OthersUntouched ==
    \A c \in DOMAIN colls :
        ~(call'.name = "merged" /\ colls[c].root = colls[call'.with[1]].root) =>
            \A d \in Members(colls[c].docs) :
                docs'[d].title = docs[d].title /\ docs'[d].snippets = docs[d].snippets

\* A collection that is merged has every paper of the others once, with the first
\* title known, every rank and all the text shown, unless a snippet lies inside another.
Nested(ds) ==
    LET all == {s \in UNION {Members(docs[d].snippets) : d \in ds} : s.start # None}
    IN  \E s, t \in all : s.start < t.start /\ t.end < s.end

MergedComplete ==
    call'.name \in {"merged", "merge"} /\ ~call'.raised =>
        LET sources == UNION {Members(colls[c].docs) : c \in Members(call'.with)}
            Same(r) == {d \in sources : docs[d].id = docs'[r].id}
            made    == colls'[Len(colls')].docs
        IN  /\ {docs'[r].id : r \in Members(made)} = {docs[d].id : d \in sources}
            /\ Cardinality(Members(made)) = Cardinality({docs[d].id : d \in sources})
            /\ \A r \in Members(made) :
                   /\ docs'[r].title = Unloaded <=> \A d \in Same(r) : docs[d].title = Unloaded
                   /\ \A q \in Queries : Ranks(r, q)' = UNION {Ranks(d, q) : d \in Same(r)}
                   /\ Nested(Same(r)) \/ Shown(r)' = UNION {Shown(d) : d \in Same(r)}

\* A sample by relevance leaves nothing out that is more relevant than what it takes.
SampleFair ==
    call'.name \in Methods \ {"random"} =>
        LET taken == Members(colls'[Len(colls')].docs)
        IN  \A d \in taken, e \in Members(colls[call'.with[1]].docs) \ taken :
                Relevant(d) >= Relevant(e)

FusingStep  == KnownKept /\ OthersUntouched /\ MergedComplete /\ SampleFair
FusingSound == [][FusingStep]_vars
===============================================================================
