--------------------------- MODULE SearchByAuthors ---------------------------
(***************************************************************************)
(* The agent that searches for the papers of some authors.  Authors are    *)
(* found one after the other among the profiles of Semantic Scholar; if    *)
(* the user described a content, two naive searches run beside.  What the  *)
(* sources answer is merged, filtered and judged.                          *)
(***************************************************************************)
EXTENDS Documents

CONSTANTS Papers, Authors,
          By,          \* By[d]: the authors of paper d, by the names of their profiles
          Dated,       \* the papers within the years asked for
          Placed,      \* the papers in the venues asked for
          Relevant,    \* the papers a judge finds relevant
          Answers,     \* what a source may answer
          Profiles,    \* how many profiles of a name there may be, a set
          Considered,  \* search_by_author_agent.consider_profiles_per_author
          Page,        \* AUTHOR_PAGINATION
          Quota,       \* search_by_author_agent.relevance_judgements_quota
          LimitForSpecific,
          Disambiguates,   \* disambiguate_authors, and the session has an inquiry
          NoAuthorMatched  \* stands for the exception of that name

\* Sources answer with collections of papers.
CollectionsAnswered == /\ Answers \subseteq Seq(Papers) /\ Profiles \subseteq Nat
                       /\ {Considered, Page, Quota, LimitForSpecific} \subseteq Nat

VARIABLES inputs, pc, got, response

vars == <<inputs, pc, got, response>>

\* authors is a list; a criterion needs a content to be judged by.
Requests == {r \in [authors : {s \in Collections(Authors) : s # Empty},
                    content : BOOLEAN, criteria : BOOLEAN,
                    years : BOOLEAN, venues : 0..2, specific : BOOLEAN] :
                 r.criteria => r.content}

Init ==
    /\ inputs \in Requests
    /\ pc = "gather"
    /\ got = [relevance   |-> IF inputs.content THEN Pending ELSE NotAsked,
              suggestions |-> IF inputs.content THEN Pending ELSE NotAsked,
              profiles    |-> << >>,    \* the profiles of the authors so far
              count       |-> 0,        \* profiles of the next one, if the user
              shown       |-> 0,        \* is asked, and how many were shown
              authors     |-> Pending]
    /\ response = NoResponse

(***************************************************************************)
(* The authors.  The profiles of a name are 1..n, best first.              *)
(***************************************************************************)
NextAuthor == Len(got.profiles) + 1
Searching  == pc = "gather" /\ got.authors = Pending
                            /\ NextAuthor <= Len(inputs.authors)

Choose(chosen) == got' = [got EXCEPT !.profiles = Append(@, chosen), !.count = 0, !.shown = 0]

FindProfiles(n) ==
    /\ Searching /\ got.count = 0
    /\ \/ n = 0 /\ got' = [got EXCEPT !.authors = NoAuthorMatched]
       \/ n > 0 /\ (~Disambiguates \/ n = 1)
               /\ Choose(1..(IF n < Considered THEN n ELSE Considered))
       \/ n > 1 /\ Disambiguates
               /\ got' = [got EXCEPT !.count = n,
                                     !.shown = IF n < Page THEN n ELSE Page]
    /\ UNCHANGED <<inputs, pc, response>>

\* s2_get_authors_by_name raises, or the inquiry, or the model.
FindFails ==
    /\ Searching
    /\ got' = [got EXCEPT !.authors = Failed]
    /\ UNCHANGED <<inputs, pc, response>>

\* The user answers with an index, or in words that a model turns into one.
\* It is used as an index of Python less one: 0 and the negative ones count
\* from the end, and any profile may be named, shown or not.
ReplyIndex(k) ==
    /\ Searching /\ got.count > 0
    /\ \/ k \in 1..got.count              /\ Choose({k})
       \/ k \in (1 - got.count)..0        /\ Choose({got.count + k})
       \/ k \notin (1 - got.count)..got.count
              /\ got' = [got EXCEPT !.authors = Failed]
    /\ UNCHANGED <<inputs, pc, response>>

\* After the last page "next" ends the loop.
ReplyNext ==
    /\ Searching /\ got.count > 0
    /\ got' = IF got.shown = got.count
              THEN [got EXCEPT !.authors = NoAuthorMatched]
              ELSE [got EXCEPT !.shown = IF @ + Page < got.count THEN @ + Page
                                                                 ELSE got.count]
    /\ UNCHANGED <<inputs, pc, response>>

\* A paper has an author of the list if it has one of the profiles taken for
\* that author; it names an author if it has any profile of that name.
HasAuthor(d, i) == \E k \in got.profiles[i] : <<inputs.authors[i], k>> \in By[d]
Named(d, a)     == \E p \in By[d] : p[1] = a

\* mutant: the papers of any of the authors
GetAuthorsPapersByS2Authors_AnyAuthor ==
    /\ pc = "gather" /\ got.authors = Pending
    /\ NextAuthor > Len(inputs.authors)
    /\ \E s \in Answers :
          /\ \A d \in DocsOf(s) : \E i \in DOMAIN inputs.authors : HasAuthor(d, i)
          /\ got' = [got EXCEPT !.authors = s]
    /\ UNCHANGED <<inputs, pc, response>>

\* Papers are fetched by profile and kept if all the authors are among theirs.
GetAuthorsPapersByS2Authors ==
    /\ pc = "gather" /\ got.authors = Pending
    /\ NextAuthor > Len(inputs.authors)
    /\ \E s \in Answers :
          /\ \A d \in DocsOf(s) : \E i \in DOMAIN inputs.authors : HasAuthor(d, i)
          /\ got' = [got EXCEPT !.authors = Kept(s, {d \in Papers :
                        \A i \in DOMAIN inputs.authors : HasAuthor(d, i)})]
    /\ UNCHANGED <<inputs, pc, response>>

PapersFail ==
    /\ pc = "gather" /\ got.authors = Pending
    /\ NextAuthor > Len(inputs.authors)
    /\ got' = [got EXCEPT !.authors = Failed]
    /\ UNCHANGED <<inputs, pc, response>>

\* The search for the content and the names, filtered by the names.
GetAuthorsPapersByS2Relevance ==
    /\ pc = "gather" /\ got.relevance = Pending
    /\ \/ \E s \in Answers :
              got' = [got EXCEPT !.relevance = Kept(s, {d \in Papers :
                        \A i \in DOMAIN inputs.authors : Named(d, inputs.authors[i])})]
       \/ got' = [got EXCEPT !.relevance = Failed]
    /\ UNCHANGED <<inputs, pc, response>>

\* The model is told the authors as a hint, and its papers are not checked.
GetLLMSuggestedPapers ==
    /\ pc = "gather" /\ got.suggestions = Pending
    /\ \E s \in Answers \cup {Failed} : got' = [got EXCEPT !.suggestions = s]
    /\ UNCHANGED <<inputs, pc, response>>

(***************************************************************************)
(* What is made of the answers when all have come.                         *)
(***************************************************************************)
Results  == <<got.relevance, got.suggestions, got.authors>>
Gathered == pc = "gather" /\ \A i \in 1..3 : Results[i] # Pending
Answered(s) == s \notin {Failed, NotAsked, NoAuthorMatched}
SomeAnswer  == \E i \in 1..3 : Answered(Results[i])
Combined    == MergeAll([i \in 1..3 |-> IF Answered(Results[i]) THEN Results[i] ELSE Empty])

Respond(r) == response' = r /\ pc' = "done" /\ UNCHANGED <<inputs, got>>

NobodyByThisName ==
    Gathered /\ got.authors = NoAuthorMatched /\ Respond(Complete(Empty))

AllSourcesFail == Gathered /\ got.authors # NoAuthorMatched
                           /\ ~SomeAnswer /\ Respond(Void)

\* relevance(): the filter and the judgement are behind one condition.
Judged     == inputs.criteria
Relevance  == inputs.years \/ inputs.venues > 1 \/ Judged
InMetadata(d) == /\ inputs.years      => d \in Dated
                 /\ inputs.venues > 0 => d \in Placed

\* More than the quota are reranked by a service, in whatever order it says.
Quotas(s) == IF Len(s) <= Quota THEN {s}
             ELSE {Slice(t, Quota) : t \in {u \in Collections(DocsOf(s)) : Len(u) = Len(s)}}

Relevants(s) ==
    LET filtered == Kept(s, {d \in Papers : InMetadata(d)})
    IN  IF ~Relevance THEN {s}
        ELSE IF ~Judged THEN {filtered}
        ELSE {Kept(t, Relevant) : t \in Quotas(filtered)}

Combine ==
    /\ Gathered /\ got.authors # NoAuthorMatched /\ SomeAnswer
    /\ \E s \in Relevants(Combined) :
          Respond(Complete(IF inputs.specific THEN Slice(s, LimitForSpecific) ELSE s))

\* Loading a field that the filter or the judge needs may raise.
RelevanceFails ==
    /\ Gathered /\ got.authors # NoAuthorMatched /\ SomeAnswer
    /\ Relevance
    /\ Respond(Void)

Next ==
    \/ \E n \in Profiles : FindProfiles(n)
    \/ \E n \in Profiles : ReplyIndex(n) \/ ReplyIndex(0 - n)
    \/ ReplyNext \/ FindFails \/ GetAuthorsPapersByS2Authors \/ PapersFail
    \/ GetAuthorsPapersByS2Relevance \/ GetLLMSuggestedPapers
    \/ NobodyByThisName \/ AllSourcesFail \/ Combine \/ RelevanceFails

Spec == Init /\ [][Next]_vars

(***************************************************************************)
(* Properties                                                              *)
(***************************************************************************)
\* What is answered is within the years and venues asked for, whichever
\* source failed or was cut: only one venue with nothing else escapes, which
\* relevance() does not filter by.
MetadataHeld ==
    \A d \in DocsOf(response.docs) :
        InMetadata(d) \/ (inputs.venues = 1 /\ ~inputs.years /\ ~inputs.criteria)

\* What is answered has a profile of each author's name, except what the
\* model suggested, which nobody checks for its authors.
ByTheAuthors ==
    \A d \in DocsOf(response.docs) :
        \/ got.suggestions \notin {NotAsked, Failed} /\ d \in DocsOf(got.suggestions)
        \/ \A i \in DOMAIN inputs.authors : Named(d, inputs.authors[i])

\* An answer meets the request as far as each of its sources was checked.
AnswersMeetRequest == MetadataHeld /\ ByTheAuthors
==============================================================================
