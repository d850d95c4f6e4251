--------------------------- MODULE MCDocumentLoading ---------------------------
(* DocumentLoading for TLC.  In one run a collection starts with two papers *)
(* of Semantic Scholar that lack different fields, so that each is asked    *)
(* for the field of the other, or with papers that have these fields and    *)
(* lack a computed one.  In the other a document comes from outside it.     *)
EXTENDS DocumentLoading, TLC

CONSTANTS c1, c2, p, q, outside, title, tldr, score

TwoCollections == {c1, c2}
OneCollection  == {c1}
Papers    == {p, q}
Mixed     == {p, outside}
OnlyP     == {p}
TwoFields == {title, tldr}
Score     == {score}

(* q has no tldr and no score.                                              *)
PapersTruth == [d \in Papers |-> [f \in TwoFields \cup Score |->
                  IF d = q /\ f # title THEN "none" ELSE "loaded"]]

(* Found by id, or by dense retrieval with both fields of one of them, with *)
(* the score known; or with all but the score.                              *)
PapersFetched ==
  LET lacking(came) == [d \in Papers |-> [f \in TwoFields \cup Score |->
        IF f = score THEN PapersTruth[d][f]
        ELSE IF <<d, f>> \in came THEN "fetched" ELSE "unloaded"]]
      unscored == [d \in Papers |-> [f \in TwoFields \cup Score |->
        IF f = score THEN "unloaded" ELSE PapersTruth[d][f]]]
  IN {lacking({}), lacking({<<q, title>>, <<q, tldr>>}), unscored}

MixedTruth == [d \in Mixed |-> [f \in TwoFields \cup Score |->
                 IF d = outside THEN "none" ELSE "loaded"]]

MixedFetched ==
  {[d \in Mixed |-> [f \in TwoFields \cup Score |->
      IF <<d, f>> = <<outside, title>> THEN "fetched" ELSE "unloaded"]]}

Symmetry2 == Permutations(TwoCollections)

=============================================================================
