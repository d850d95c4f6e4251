----------------------------- MODULE BroadSearch ------------------------------
(***************************************************************************)
(* One broad search (agents/complex_search/broad_search.py): two           *)
(* iterations that collect documents from the sub-agents, merge them and   *)
(* have the most promising judged by a language model, within a quota and  *)
(* until enough relevant ones are known                                    *)
(* (agents/dense/relevance_loading_optimization.py), in batches that a     *)
(* bandit policy draws from the queries the documents came from            *)
(* (ai2i/dcollection/loaders/adaptive.py).                                 *)
(*                                                                         *)
(* A document is a model value; the queries it came from and whether it    *)
(* fits the metadata of the request never change.  The preloaded documents *)
(* of a query come first; otherwise their order and the bandit's choices   *)
(* are left open.  The field cache does not expire during a search.        *)
(***************************************************************************)
EXTENDS Integers, FiniteSets

CONSTANTS Docs,
          Queries,    \* the queries a document may come from: its origins
          Levels,     \* the relevance levels a judgement may have
          Origins,    \* Origins[d]: the queries document d came from
          Fits,       \* the documents that fit the time range and the venues
          Sources,    \* the sub-agents of iteration 1 besides the dense agent
          Quotas,     \* the values of relevance_judgement.quota
          Preload,    \* relevance_judgement.uniform_preload_size
          BatchSizes, \* the batch sizes of the policy
          ScoreCap,   \* relevance_judgement.highly_relevant_cap
          Threshold   \* of get_relevant_docs

Unjudged == -1

ASSUME SearchAssumption ==
  /\ IsFiniteSet(Docs) /\ IsFiniteSet(Queries)
  /\ Origins \in [Docs -> SUBSET Queries]
  /\ Levels \subseteq Nat
  /\ Quotas \subseteq Nat
  /\ Fits \subseteq Docs
  /\ Preload \in Nat /\ Threshold \in Nat
  /\ ScoreCap \in Nat \ {0}
  /\ BatchSizes \subseteq Nat \ {0}
  /\ {"dense", "snowball"} \cap Sources = {}

VARIABLES quota,     \* the configured quota
          iteration, \* of BroadSearchCommand.execute
          phase,
          awaited,   \* sources of the gather that have not answered
          found,     \* what the others answered
          known,     \* docs, as execute holds it
          judged,    \* those of them that carry a judgement
          verdict,   \* what the model said of a document (and the field cache keeps)
          base,      \* docs_with_loaded_field: judged before the call, or preloaded
          first,     \* the documents each query led the preload to
          left,      \* AdaptiveLoader._origin_to_iterators
          arms,      \* the queries the policy still chooses from
          room,      \* the size of the next batch
          batch,     \* the batch, as (query, document) pairs
          used,      \* AdaptiveLoader._used_quota
          loadQuota, \* AdaptiveLoader.load_quota
          seen,      \* loaded_docs of adaptive_load
          loads,     \* field_load_count
          iterCap,   \* _relevance_cap_iteration_shortcircuit
          allCap,    \* _relevance_cap_shortcircuit
          skipped,   \* the dense agent was not asked
          answer

fetchVars  == <<awaited, found, skipped>>
loaderVars == <<left, arms, room, batch, used, loadQuota>>
loadVars   == <<base, first, seen, loads, loaderVars>>
vars == <<quota, iteration, phase, known, judged, verdict, fetchVars, loadVars,
          iterCap, allCap, answer>>

Phases == {"iterate", "primary", "followup", "judge", "size", "draw", "merge", "done"}

NoSplit == [q \in Queries |-> {}]
NoCap == [ids |-> {}, score |-> 0, perfect |-> FALSE]

Init ==
  /\ quota \in Quotas
  /\ iteration = 0 /\ phase = "iterate"
  /\ awaited = {} /\ found = {} /\ skipped = FALSE
  /\ known = {} /\ judged = {}
  /\ verdict = [d \in Docs |-> Unjudged]
  /\ base = {} /\ seen = {} /\ loads = 0
  /\ left = NoSplit /\ first = NoSplit
  /\ arms = {} /\ room = 0 /\ batch = {}
  /\ used = 0 /\ loadQuota = 0
  /\ iterCap = NoCap /\ allCap = NoCap
  /\ answer = {}

-----------------------------------------------------------------------------
(* The shortcircuits *)

Relevant(docs) == {d \in docs : verdict'[d] >= 2}
Perfect(docs)  == {d \in docs : verdict'[d] = 3}

\* mutant: a document scores again whenever it is seen again
Accumulate_Again(cap, docs) ==
  [ids     |-> cap.ids \cup Relevant(docs),
   score   |-> cap.score + Cardinality(Relevant(docs)) + Cardinality(Perfect(docs)),
   perfect |-> cap.perfect \/ Perfect(docs) # {}]

\* accumulate: a document scores once, two points when it is perfect
Accumulate(cap, docs) ==
  LET new == Relevant(docs) \ cap.ids
  IN  [ids     |-> cap.ids \cup new,
       score   |-> cap.score + Cardinality(new) + Cardinality(Perfect(new)),
       perfect |-> cap.perfect \/ Perfect(docs) # {}]

ShouldBreak(cap) == cap.perfect /\ cap.score >= ScoreCap

-----------------------------------------------------------------------------
(* Collecting documents *)

\* the next pass of the loop of execute, with a fresh iteration shortcircuit
StartIteration ==
  /\ phase = "iterate" /\ iteration < 2
  /\ iteration' = iteration + 1
  /\ phase' = "primary"
  /\ awaited' = {"dense"} \cup (IF iteration = 0 THEN Sources ELSE {})
  /\ found' = {}
  /\ iterCap' = NoCap
  /\ UNCHANGED <<quota, known, judged, verdict, loadVars, allCap, skipped, answer>>

\* one source of the gather answers; a void response brings no document
SourceAnswers(s, docs) ==
  /\ s \in awaited
  /\ s = "dense" => ~ShouldBreak(allCap)
  /\ awaited' = awaited \ {s}
  /\ found' = found \cup docs
  /\ UNCHANGED <<quota, iteration, phase, known, judged, verdict, loadVars,
                 iterCap, allCap, skipped, answer>>

\* ShortcircuitOperative: the dense agent is not asked once the cap is reached
DenseSkipped ==
  /\ "dense" \in awaited
  /\ ShouldBreak(allCap)
  /\ awaited' = awaited \ {"dense"}
  /\ skipped' = TRUE
  /\ UNCHANGED <<quota, iteration, phase, found, known, judged, verdict, loadVars,
                 iterCap, allCap, answer>>

\* mutant: the merge starts from the answers, not from the documents so far
PrimaryMerged_Anew ==
  /\ phase = "primary" /\ awaited = {}
  /\ known' = found
  /\ judged' = judged \cap found
  /\ phase' = "followup"
  /\ awaited' = {"snowball"}
  /\ found' = {}
  /\ UNCHANGED <<quota, iteration, verdict, loadVars, iterCap, allCap, skipped,
                 answer>>

\* the answers of the primary sources are merged, then the followup is asked
PrimaryMerged ==
  /\ phase = "primary" /\ awaited = {}
  /\ known' = known \cup found
  /\ phase' = "followup"
  /\ awaited' = {"snowball"}
  /\ found' = {}
  /\ UNCHANGED <<quota, iteration, judged, verdict, loadVars, iterCap, allCap,
                 skipped, answer>>

FollowupMerged ==
  /\ phase = "followup" /\ awaited = {}
  /\ known' = known \cup found
  /\ found' = {}
  /\ phase' = "judge"
  /\ UNCHANGED <<quota, iteration, judged, verdict, awaited, skipped, loadVars,
                 iterCap, allCap, answer>>

-----------------------------------------------------------------------------
(* Judging them *)

\* what the model may say of the documents of a request: it fails on some,
\* and the field cache answers for the documents it has spoken of before
Judge(asked) ==
  \E says \in [{d \in asked : verdict[d] = Unjudged} -> Levels \cup {Unjudged}] :
    verdict' = [d \in Docs |-> IF d \in DOMAIN says THEN says[d] ELSE verdict[d]]

Judged(docs) == {d \in docs : verdict'[d] # Unjudged}

Pending == known \ judged
From(q) == {d \in Pending : q \in Origins[d]}

\* uniform_preload takes the first few documents of each query
Firsts(q) == {some \in SUBSET From(q) :
                Cardinality(some) = IF Cardinality(From(q)) < Preload
                                    THEN Cardinality(From(q)) ELSE Preload}
Takes == {take \in [Queries -> UNION {Firsts(q) : q \in Queries}] :
            \A q \in Queries : take[q] \in Firsts(q)}
AllOf(split) == UNION {split[q] : q \in Queries}

\* every document is judged already
NothingToJudge ==
  /\ phase = "judge" /\ Pending = {}
  /\ phase' = "iterate"
  /\ UNCHANGED <<quota, iteration, known, judged, verdict, fetchVars, loadVars,
                 iterCap, allCap, answer>>

\* mutant: what is left of the quota may be negative
BeginLoad_Negative(take) ==
  LET pre == AllOf(take)
  IN  /\ Pending # {}
      /\ Judge(pre)
      /\ judged' = judged \cup Judged(pre)
      /\ base' = judged \cup pre
      /\ first' = take
      /\ left' = [q \in Queries |-> From(q)]
      /\ arms' = {q \in Queries : From(q) # {}}
      /\ used' = 0
      /\ loadQuota' = quota - Cardinality(pre)
      /\ seen' = {} /\ loads' = 0
      /\ phase' = "size"
      /\ UNCHANGED <<quota, iteration, known, fetchVars, room, batch, iterCap,
                     allCap, answer>>

\* the preload judges copies: the documents of the queries stay unjudged
BeginLoad(take) ==
  LET pre == AllOf(take)
  IN  /\ Pending # {}
      /\ Judge(pre)
      /\ judged' = judged \cup Judged(pre)
      /\ base' = judged \cup pre
      /\ first' = take
      /\ left' = [q \in Queries |-> From(q)]
      /\ arms' = {q \in Queries : From(q) # {}}
      /\ used' = 0
      /\ loadQuota' = IF quota > Cardinality(pre) THEN quota - Cardinality(pre) ELSE 0
      /\ seen' = {} /\ loads' = 0
      /\ phase' = "size"
      /\ UNCHANGED <<quota, iteration, known, fetchVars, room, batch, iterCap,
                     allCap, answer>>

\* mutant: the size of the policy is taken as it is
SizeBatch_Unbounded(n) ==
  /\ phase = "size"
  /\ room' = n
  /\ batch' = {}
  /\ phase' = "draw"
  /\ UNCHANGED <<quota, iteration, known, judged, verdict, fetchVars, base, first,
                 seen, loads, left, arms, used, loadQuota, iterCap, allCap, answer>>

\* _get_next_batch_size: what the policy says, within what is left of the quota
SizeBatch(n) ==
  /\ phase = "size"
  /\ room' = IF n < loadQuota - used THEN n ELSE loadQuota - used
  /\ batch' = {}
  /\ phase' = "draw"
  /\ UNCHANGED <<quota, iteration, known, judged, verdict, fetchVars, base, first,
                 seen, loads, left, arms, used, loadQuota, iterCap, allCap, answer>>

\* a document yielded before came back judged: the queries share the object
Loaded(d) == d \in seen /\ verdict[d] # Unjudged
Drawing == phase = "draw" /\ Cardinality(batch) < room

\* the next document of the query the policy chose: the preloaded come first
Draw(q, d) ==
  /\ Drawing /\ q \in arms /\ d \in left[q]
  /\ left[q] \cap first[q] # {} => d \in first[q]
  /\ left' = [left EXCEPT ![q] = @ \ {d}]
  /\ batch' = batch \cup {<<q, d>>}
  /\ used' = IF Loaded(d) THEN used ELSE used + 1
  /\ UNCHANGED <<quota, iteration, phase, known, judged, verdict, fetchVars, base,
                 first, seen, loads, arms, room, loadQuota, iterCap, allCap, answer>>

\* mutant: the query stays among the arms
Exhausted_Stays(q) ==
  /\ Drawing /\ q \in arms /\ left[q] = {}
  /\ UNCHANGED vars

\* the policy chose a query that has no document left
Exhausted(q) ==
  /\ Drawing /\ q \in arms /\ left[q] = {}
  /\ arms' = arms \ {q}
  /\ UNCHANGED <<quota, iteration, phase, known, judged, verdict, fetchVars, base,
                 first, seen, loads, left, room, batch, used, loadQuota, iterCap, allCap,
                 answer>>

Drawn == phase = "draw" /\ (Cardinality(batch) >= room \/ arms = {})

\* StopAsyncIteration
NoBatch ==
  /\ Drawn /\ batch = {}
  /\ phase' = "merge"
  /\ UNCHANGED <<quota, iteration, known, judged, verdict, fetchVars, loadVars,
                 iterCap, allCap, answer>>

\* the batch is judged, both shortcircuits see all that was loaded, and the
\* loop goes on unless both break or as many documents as the quota came back
LoadBatch ==
  LET docs == {pair[2] : pair \in batch}
  IN  /\ Drawn /\ batch # {}
      /\ Judge(docs)
      /\ judged' = judged \cup Judged(docs)
      /\ seen' = seen \cup docs
      /\ iterCap' = Accumulate(iterCap, seen')
      /\ allCap' = Accumulate(allCap, seen')
      /\ loads' = loads + Cardinality(batch)
      /\ phase' = IF (ShouldBreak(iterCap') /\ ShouldBreak(allCap')) \/ loads' >= quota
                  THEN "merge" ELSE "size"
      /\ UNCHANGED <<quota, iteration, known, fetchVars, base, first, loaderVars,
                     answer>>

\* the locals of adaptive_load go out of scope
DropLocals ==
  /\ base' = {} /\ seen' = {} /\ loads' = 0
  /\ left' = NoSplit /\ first' = NoSplit
  /\ arms' = {} /\ room' = 0 /\ batch' = {}
  /\ used' = 0 /\ loadQuota' = 0

\* mutant: nothing is drained
MergeLoaded_Undrained ==
  /\ phase = "merge"
  /\ known' = base \cup seen
  /\ DropLocals
  /\ phase' = "iterate"
  /\ UNCHANGED <<quota, iteration, judged, verdict, fetchVars, iterCap, allCap,
                 answer>>

\* the documents not drawn are drained and all are merged into the preloaded
MergeLoaded ==
  /\ phase = "merge"
  /\ known' = base \cup seen \cup AllOf(left)
  /\ DropLocals
  /\ phase' = "iterate"
  /\ UNCHANGED <<quota, iteration, judged, verdict, fetchVars, iterCap, allCap,
                 answer>>

\* the relevant documents that fit the metadata
Finish ==
  /\ phase = "iterate" /\ iteration = 2
  /\ answer' = {d \in known \cap judged : verdict[d] >= Threshold} \cap Fits
  /\ phase' = "done"
  /\ UNCHANGED <<quota, iteration, known, judged, verdict, fetchVars, loadVars,
                 iterCap, allCap>>

Collect ==
  \/ StartIteration
  \/ \E s \in awaited, docs \in SUBSET Docs : SourceAnswers(s, docs)
  \/ DenseSkipped \/ PrimaryMerged \/ FollowupMerged

Load ==
  \/ NothingToJudge
  \/ phase = "judge" /\ \E take \in Takes : BeginLoad(take)
  \/ \E n \in BatchSizes : SizeBatch(n)
  \/ \E q \in Queries, d \in Docs : Draw(q, d)
  \/ \E q \in Queries : Exhausted(q)
  \/ NoBatch \/ LoadBatch \/ MergeLoaded

Next == Collect \/ Load \/ Finish

Spec     == Init /\ [][Next]_vars
FairSpec == Spec /\ WF_vars(Next)

-----------------------------------------------------------------------------
(* Properties *)

\* Every variable has its type.
TypeOK ==
  /\ quota \in Quotas
  /\ iteration \in 0..2 /\ phase \in Phases
  /\ awaited \subseteq Sources \cup {"dense", "snowball"}
  /\ found \subseteq Docs /\ known \subseteq Docs /\ judged \subseteq Docs
  /\ verdict \in [Docs -> Levels \cup {Unjudged}]
  /\ base \subseteq Docs /\ seen \subseteq Docs /\ answer \subseteq Docs
  /\ {left, first} \subseteq [Queries -> SUBSET Docs]
  /\ arms \subseteq Queries /\ batch \subseteq Queries \X Docs
  /\ loads \in Nat /\ room \in Nat /\ used \in Nat /\ loadQuota \in Nat
  /\ {iterCap, allCap} \subseteq [ids : SUBSET Docs, score : Nat, perfect : BOOLEAN]
  /\ skipped \in BOOLEAN

\* The model judges no more documents in an iteration than the quota, or than
\* the preload takes when that is more (adaptive_load and AdaptiveLoader).
QuotaHeld ==
  LET preload == Preload * Cardinality(Queries)
  IN  Cardinality(judged) <= iteration * (IF quota > preload THEN quota ELSE preload)

\* The cap that spares the dense agent counts every relevant document of the
\* batches of both iterations, and each of them once (accumulate).
ScoresOnce ==
  /\ {d \in seen : verdict[d] >= 2} \subseteq allCap.ids
  /\ iterCap.ids \subseteq allCap.ids
  /\ allCap.score = Cardinality(allCap.ids) + Cardinality({d \in allCap.ids : verdict[d] = 3})
  /\ allCap.perfect <=> \E d \in allCap.ids : verdict[d] = 3

\* A document that came from a query stays among the documents of the search,
\* however it is split over the queries, preloaded, drawn or drained.
Sourced == {d \in Docs : Origins[d] # {}}
KeptOnceFound == [][known \cap Sourced \subseteq known']_vars

\* The answer has every document the model found relevant in either iteration
\* and that fits the metadata, and no other.
JudgedAnswered ==
  phase = "done" => answer = {d \in Fits : verdict[d] >= Threshold}

\* The search comes to its end once its sources and the model answer.
SearchEnds == <>(phase = "done")
=============================================================================
