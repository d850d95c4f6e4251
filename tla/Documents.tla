------------------------------ MODULE Documents ------------------------------
(***************************************************************************)
(* Collections of documents, as sequences of distinct documents, and the   *)
(* operations on them that every agent uses (PaperFinderDocumentCollection *)
(* and the helpers of DC).   What merging does to the fields of a document *)
(* is the subject of DocumentFusing.                                       *)
(***************************************************************************)
EXTENDS Integers, Sequences, FiniteSets

CONSTANTS Pending,    \* stands for an answer that has not come
          Failed,     \* for one that is an exception
          NotAsked    \* for a source that is not asked

\* The documents of a collection.
DocsOf(s) == {s[i] : i \in DOMAIN s}

\* All sequences of distinct members of S: what a source may answer.
Collections(S) ==
    {s \in UNION {[1..n -> S] : n \in 0..Cardinality(S)} :
        \A i, j \in DOMAIN s : s[i] = s[j] => i = j}

Empty == << >>

Kept(s, S) ==
    LET Places  == {i \in DOMAIN s : s[i] \in S}
        Rank(i) == Cardinality({j \in Places : j <= i})
    IN  [r \in 1..Cardinality(Places) |-> s[CHOOSE i \in Places : Rank(i) = r]]

\* DocumentCollection.subtract
Minus(s, t) == Kept(s, DocsOf(s) \ DocsOf(t))

\* DocumentCollection.merged: the first collection in its order, then what
\* is new in the second.
Merged(s, t) == s \o Minus(t, s)

\* DC.merge: the collections of a sequence merged from the left.
MergeAll(ss) ==
    LET merged[n \in 0..Len(ss)] == IF n = 0 THEN Empty ELSE Merged(merged[n - 1], ss[n])
    IN  merged[Len(ss)]

\* DocumentCollection.take, a slice: a negative n leaves the last -n out.
Slice(s, n) == SubSeq(s, 1, IF n >= 0 THEN (IF n < Len(s) THEN n ELSE Len(s))
                                      ELSE Len(s) + n)

\* DocumentCollection.sorted with order="desc": equal documents keep their
\* order, which list.sort(reverse=True) does.  key gives each its value.
SortedDesc(s, key) ==
    LET Before(i, j) == \/ key[s[i]] > key[s[j]]
                        \/ key[s[i]] = key[s[j]] /\ i < j
        Rank(i) == Cardinality({j \in DOMAIN s : Before(j, i)}) + 1
    IN  [r \in DOMAIN s |-> s[CHOOSE i \in DOMAIN s : Rank(i) = r]]

\* A finite set of numbers in rising order: the keys of a groupby, the cuts of
\* a text.
Ascending(S) ==
    [r \in 1..Cardinality(S) |-> CHOOSE x \in S : Cardinality({y \in S : y <= x}) = r]

\* The place of d in s.
Position(s, d) == CHOOSE i \in DOMAIN s : s[i] = d

(***************************************************************************)
(* The responses of an operative.  An exception that leaves                *)
(* handle_operation becomes a void response in Operative.__call__.         *)
(***************************************************************************)
NoResponse     == [kind |-> "none",     docs |-> Empty]
Complete(docs) == [kind |-> "complete", docs |-> docs]
Partial(docs)  == [kind |-> "partial",  docs |-> docs]
Void           == [kind |-> "void",     docs |-> Empty]
==============================================================================
