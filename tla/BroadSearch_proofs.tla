-------------------------- MODULE BroadSearch_proofs ---------------------------
(***************************************************************************)
(* Theorems about BroadSearch, for every finite set of documents, every    *)
(* set of queries, every quota and every batch size.                       *)
(***************************************************************************)
EXTENDS BroadSearch, FiniteSetTheorems, FunctionTheorems, TLAPS

Loading == phase \in {"size", "draw", "merge"}
InBatch == {pair[2] : pair \in batch}

(* The judgements the model gave are those the documents carry, and no      *)
(* document leaves the sets adaptive_load works on.                          *)
JudgedKnown ==
  /\ judged \subseteq known
  /\ \A d \in Docs : d \in judged <=> verdict[d] # Unjudged

Split ==
  Loading =>
    /\ base \subseteq known /\ seen \subseteq known
    /\ \A q \in Queries : left[q] \subseteq known
    /\ phase = "draw" => InBatch \subseteq known
    /\ judged \subseteq base \cup seen
    /\ known \cap Sourced \subseteq
         base \cup seen \cup AllOf(left) \cup (IF phase = "draw" THEN InBatch ELSE {})

(* Every document drawn has room in the batch, and the batch in the quota.  *)
QuotaSpent ==
  /\ IsFiniteSet(batch)
  /\ Loading => used <= loadQuota
  /\ phase = "draw" =>
       /\ used + room <= loadQuota + Cardinality(batch)
       /\ \A pair \in batch : pair[2] \notin left[pair[1]]

IInv ==
  /\ TypeOK
  /\ JudgedKnown
  /\ Split
  /\ QuotaSpent
  /\ JudgedAnswered

-----------------------------------------------------------------------------
(* The initial state satisfies the invariant.                               *)
LEMMA InitIInv == Init => IInv
<1> SUFFICES ASSUME Init PROVE IInv
  OBVIOUS
<1> USE SearchAssumption
<1>a. NoCap \in [ids : SUBSET Docs, score : Nat, perfect : BOOLEAN]
  BY DEF NoCap
<1>b. {left, first} \subseteq [Queries -> SUBSET Docs]
  BY DEF Init, NoSplit
<1>c. {iterCap, allCap} \subseteq [ids : SUBSET Docs, score : Nat, perfect : BOOLEAN]
  BY <1>a DEF Init
<1>d. verdict \in [Docs -> Levels \cup {Unjudged}]
  BY DEF Init
<1>e. /\ quota \in Quotas /\ iteration \in 0..2 /\ phase \in Phases
      /\ awaited \subseteq Sources \cup {"dense", "snowball"}
  BY DEF Init, Phases
<1>h. skipped \in BOOLEAN
  BY Zenon DEF Init
<1>f. /\ found \subseteq Docs /\ known \subseteq Docs /\ judged \subseteq Docs
      /\ base \subseteq Docs /\ seen \subseteq Docs /\ answer \subseteq Docs
      /\ arms \subseteq Queries /\ batch \subseteq Queries \X Docs
  BY DEF Init
<1>g. loads \in Nat /\ room \in Nat /\ used \in Nat /\ loadQuota \in Nat
  BY DEF Init
<1>1. TypeOK
  BY <1>b, <1>c, <1>d, <1>e, <1>f, <1>g, <1>h DEF TypeOK
<1>2. JudgedKnown /\ Split /\ JudgedAnswered
  BY DEF Init, JudgedKnown, Split, Loading, JudgedAnswered
<1>3. QuotaSpent
  BY FS_EmptySet DEF Init, QuotaSpent, Loading
<1>4. QED
  BY <1>1, <1>2, <1>3 DEF IInv

-----------------------------------------------------------------------------
(* What a request to the model does to the judgements.                      *)
LEMMA JudgeStep ==
  ASSUME TypeOK, JudgedKnown, NEW docs \in SUBSET known, Judge(docs),
         judged' = judged \cup Judged(docs)
  PROVE  /\ verdict' \in [Docs -> Levels \cup {Unjudged}]
         /\ judged' \subseteq known
         /\ \A d \in Docs : d \in judged' <=> verdict'[d] # Unjudged
<1>1. PICK says \in [{d \in docs : verdict[d] = Unjudged} -> Levels \cup {Unjudged}] :
        verdict' = [d \in Docs |-> IF d \in DOMAIN says THEN says[d] ELSE verdict[d]]
  BY DEF Judge
<1>2. verdict' \in [Docs -> Levels \cup {Unjudged}]
  BY <1>1 DEF TypeOK
<1>3. judged' \subseteq known
  BY DEF JudgedKnown, Judged
<1>4. ASSUME NEW d \in Docs
      PROVE  d \in judged' <=> verdict'[d] # Unjudged
  <2>1. CASE d \in docs
    BY <1>1, <2>1 DEF JudgedKnown, Judged, TypeOK
  <2>2. CASE d \notin docs
    BY <1>1, <2>2 DEF JudgedKnown, Judged, TypeOK
  <2>3. QED
    BY <2>1, <2>2
<1>5. QED
  BY <1>2, <1>3, <1>4

(* A shortcircuit that accumulates documents keeps its type.                *)
LEMMA AccumulateType ==
  ASSUME NEW cap \in [ids : SUBSET Docs, score : Nat, perfect : BOOLEAN],
         NEW docs \in SUBSET Docs
  PROVE  Accumulate(cap, docs) \in [ids : SUBSET Docs, score : Nat, perfect : BOOLEAN]
<1> DEFINE new == Relevant(docs) \ cap.ids
<1>1. new \in SUBSET Docs /\ Perfect(new) \in SUBSET Docs
  BY DEF Relevant, Perfect
<1>2. Cardinality(new) \in Nat /\ Cardinality(Perfect(new)) \in Nat
  BY <1>1, FS_Subset, FS_CardinalityType, SearchAssumption
<1> HIDE DEF new
<1>3. cap.ids \cup new \in SUBSET Docs
  BY <1>1
<1>4. cap.score + Cardinality(new) + Cardinality(Perfect(new)) \in Nat
  BY <1>2
<1>5. (cap.perfect \/ Perfect(docs) # {}) \in BOOLEAN
  OBVIOUS
<1>6. Accumulate(cap, docs) =
        [ids |-> cap.ids \cup new,
         score |-> cap.score + Cardinality(new) + Cardinality(Perfect(new)),
         perfect |-> cap.perfect \/ Perfect(docs) # {}]
  BY DEF Accumulate, new
<1>7. QED
  BY <1>3, <1>4, <1>5, <1>6

-----------------------------------------------------------------------------
(* Collecting documents.                                                    *)

\* A step that leaves the judgements, the split and the loader alone.
LEMMA CollectStep ==
  ASSUME IInv, TypeOK', phase \notin {"done", "size", "draw", "merge"},
         phase' \notin {"done", "size", "draw", "merge"},
         known \subseteq known', UNCHANGED <<judged, verdict, batch>>
  PROVE  IInv'
<1>1. JudgedKnown'
  BY DEF IInv, JudgedKnown
<1>2. Split' /\ JudgedAnswered'
  BY DEF Split, Loading, JudgedAnswered
<1>3. QuotaSpent'
  BY DEF IInv, QuotaSpent, Loading
<1>4. QED
  BY <1>1, <1>2, <1>3 DEF IInv

LEMMA StartIterationStep == IInv /\ StartIteration => IInv'
<1> SUFFICES ASSUME IInv, StartIteration PROVE IInv'
  OBVIOUS
<1>1. NoCap \in [ids : SUBSET Docs, score : Nat, perfect : BOOLEAN]
  BY DEF NoCap
<1>2. awaited' \subseteq Sources \cup {"dense", "snowball"}
  BY DEF StartIteration
<1>3. TypeOK'
  BY <1>1, <1>2 DEF IInv, TypeOK, StartIteration, loadVars, loaderVars, Phases
<1>4. QED
  BY <1>3, CollectStep DEF StartIteration, loadVars, loaderVars

LEMMA PrimaryMergedStep == IInv /\ PrimaryMerged => IInv'
<1> SUFFICES ASSUME IInv, PrimaryMerged PROVE IInv'
  OBVIOUS
<1>1. TypeOK'
  BY DEF IInv, TypeOK, PrimaryMerged, loadVars, loaderVars, Phases
<1>2. QED
  BY <1>1, CollectStep DEF PrimaryMerged, loadVars, loaderVars

LEMMA FollowupMergedStep == IInv /\ FollowupMerged => IInv'
<1> SUFFICES ASSUME IInv, FollowupMerged PROVE IInv'
  OBVIOUS
<1>1. TypeOK'
  BY DEF IInv, TypeOK, FollowupMerged, loadVars, loaderVars, Phases
<1>2. QED
  BY <1>1, CollectStep DEF FollowupMerged, loadVars, loaderVars

LEMMA NothingToJudgeStep == IInv /\ NothingToJudge => IInv'
<1> SUFFICES ASSUME IInv, NothingToJudge PROVE IInv'
  OBVIOUS
<1>1. TypeOK'
  BY DEF IInv, TypeOK, NothingToJudge, fetchVars, loadVars, loaderVars, Phases
<1>2. QED
  BY <1>1, CollectStep DEF NothingToJudge, fetchVars, loadVars, loaderVars

\* A source answers, or the dense agent is spared: the documents wait in found.
LEMMA AnswerStep ==
  ASSUME IInv, TypeOK',
         UNCHANGED <<quota, iteration, phase, known, judged, verdict, loadVars, answer>>
  PROVE  IInv'
BY DEF IInv, JudgedKnown, Split, QuotaSpent, JudgedAnswered, Loading, InBatch, AllOf,
       loadVars, loaderVars

LEMMA SourceAnswersStep ==
  ASSUME IInv, NEW s \in awaited, NEW docs \in SUBSET Docs, SourceAnswers(s, docs)
  PROVE  IInv'
<1>1. TypeOK'
  BY DEF IInv, TypeOK, SourceAnswers, loadVars, loaderVars
<1>2. QED
  BY <1>1, AnswerStep DEF SourceAnswers

LEMMA DenseSkippedStep == IInv /\ DenseSkipped => IInv'
<1> SUFFICES ASSUME IInv, DenseSkipped PROVE IInv'
  OBVIOUS
<1>1. skipped' \in BOOLEAN
  BY Zenon DEF DenseSkipped
<1>2. TypeOK'
  BY <1>1 DEF IInv, TypeOK, DenseSkipped, loadVars, loaderVars
<1>3. QED
  BY <1>2, AnswerStep DEF DenseSkipped

-----------------------------------------------------------------------------
(* Judging them.                                                            *)

\* The preload: every pending document of a query is left to draw.
LEMMA BeginLoadStep ==
  ASSUME IInv, phase = "judge", NEW take \in Takes, BeginLoad(take)
  PROVE  IInv'
<1> DEFINE pre == AllOf(take)
<1> USE DEF IInv
<1>1. /\ take \in [Queries -> SUBSET Docs]
      /\ \A q \in Queries : take[q] \subseteq From(q)
      /\ \A q \in Queries : From(q) \subseteq known /\ From(q) \subseteq Docs
  BY DEF Takes, Firsts, From, Pending, TypeOK
<1>2. pre \in SUBSET known /\ pre \subseteq Docs
  BY <1>1 DEF AllOf
<1>3. Judge(pre) /\ judged' = judged \cup Judged(pre) /\ known' = known
  BY DEF BeginLoad
<1>4. JudgedKnown' /\ verdict' \in [Docs -> Levels \cup {Unjudged}]
  BY <1>2, <1>3, JudgeStep DEF JudgedKnown
<1>5. Cardinality(pre) \in Nat
  BY <1>2, FS_Subset, FS_CardinalityType, SearchAssumption
<1>6. loadQuota' \in Nat /\ used' = 0
  BY <1>5, SearchAssumption DEF BeginLoad, TypeOK
<1>7. {left', first'} \subseteq [Queries -> SUBSET Docs]
  BY <1>1 DEF BeginLoad
<1>8. judged' \subseteq Docs /\ base' \subseteq Docs
  BY <1>2, <1>3 DEF BeginLoad, TypeOK, Judged
<1>9. TypeOK'
  BY <1>4, <1>6, <1>7, <1>8 DEF BeginLoad, TypeOK, fetchVars, Phases
<1>10. Split'
  <2>1. base' \subseteq known /\ seen' = {} /\ judged' \subseteq base'
    BY <1>2, <1>3 DEF BeginLoad, JudgedKnown, Judged
  <2>2. \A q \in Queries : left'[q] = From(q)
    BY DEF BeginLoad
  <2>3. known \cap Sourced \subseteq judged \cup AllOf(left)'
    <3> SUFFICES ASSUME NEW d \in known, d \in Sourced, d \notin judged
                 PROVE  \E q \in Queries : d \in left'[q]
      BY DEF AllOf
    <3>1. PICK q \in Queries : q \in Origins[d]
      BY SearchAssumption DEF Sourced
    <3>2. d \in From(q)
      BY <3>1 DEF From, Pending
    <3>3. QED
      BY <2>2, <3>2
  <2>4. QED
    BY <1>1, <1>3, <2>1, <2>2, <2>3 DEF Split, BeginLoad
<1>11. QuotaSpent'
  BY <1>6 DEF BeginLoad, QuotaSpent, Loading
<1>12. QED
  BY <1>4, <1>9, <1>10, <1>11 DEF JudgedAnswered, BeginLoad

LEMMA SizeBatchStep ==
  ASSUME IInv, NEW n \in BatchSizes, SizeBatch(n)
  PROVE  IInv'
<1> USE DEF IInv
<1>1. /\ n \in Nat /\ used \in Nat /\ loadQuota \in Nat /\ used <= loadQuota
      /\ phase = "size"
  BY SearchAssumption DEF SizeBatch, TypeOK, QuotaSpent, Loading
<1>2. room' \in Nat /\ used + room' <= loadQuota
  BY <1>1 DEF SizeBatch
<1>3. TypeOK'
  BY <1>2 DEF SizeBatch, TypeOK, fetchVars, Phases
<1>4. JudgedKnown' /\ JudgedAnswered'
  BY DEF SizeBatch, JudgedKnown, JudgedAnswered
<1>5. Split'
  BY <1>1 DEF SizeBatch, Split, Loading, InBatch, AllOf
<1>6. QuotaSpent'
  BY <1>1, <1>2, FS_EmptySet DEF SizeBatch, QuotaSpent, Loading
<1>7. QED
  BY <1>3, <1>4, <1>5, <1>6

\* A document moves from its query to the batch and takes what it uses of the quota.
LEMMA DrawStep ==
  ASSUME IInv, NEW q \in Queries, NEW d \in Docs, Draw(q, d)
  PROVE  IInv'
<1> USE DEF IInv
<1>1. /\ phase = "draw" /\ d \in left[q] /\ d \in known
      /\ IsFiniteSet(batch) /\ Cardinality(batch) \in Nat /\ Cardinality(batch) < room
  BY FS_CardinalityType DEF Draw, Drawing, QuotaSpent, Split, Loading
<1>2. batch' = batch \cup {<<q, d>>} /\ <<q, d>> \notin batch
  BY <1>1 DEF Draw, QuotaSpent
<1>3. IsFiniteSet(batch') /\ Cardinality(batch') = Cardinality(batch) + 1
  BY <1>1, <1>2, FS_AddElement
<1>4. used' \in {used, used + 1} /\ used \in Nat /\ room \in Nat /\ loadQuota \in Nat
  BY DEF Draw, TypeOK
<1>5. /\ left' \in [Queries -> SUBSET Docs]
      /\ \A p \in Queries : left'[p] = IF p = q THEN left[q] \ {d} ELSE left[p]
  BY DEF Draw, TypeOK
<1>6. batch' \subseteq Queries \X Docs /\ used' \in Nat
  BY <1>2, <1>4 DEF TypeOK
<1>7. TypeOK'
  BY <1>5, <1>6 DEF Draw, TypeOK, fetchVars
<1>8. JudgedKnown' /\ JudgedAnswered'
  BY DEF Draw, JudgedKnown, JudgedAnswered
<1>9. Split'
  <2>1. InBatch' = InBatch \cup {d}
    BY <1>2 DEF InBatch
  <2>2. AllOf(left) \subseteq AllOf(left)' \cup {d}
    BY <1>5 DEF AllOf
  <2>3. QED
    BY <1>1, <1>5, <2>1, <2>2 DEF Split, Loading, Draw
<1>10. QuotaSpent'
  <2>1. used' <= loadQuota /\ used' + room <= loadQuota + Cardinality(batch')
    BY <1>1, <1>3, <1>4 DEF QuotaSpent, Loading
  <2>2. \A pair \in batch' : pair[2] \notin left'[pair[1]]
    BY <1>2, <1>5 DEF QuotaSpent, Draw, Drawing, TypeOK
  <2>3. QED
    BY <1>1, <1>3, <2>1, <2>2 DEF QuotaSpent, Draw
<1>11. QED
  BY <1>7, <1>8, <1>9, <1>10

LEMMA ExhaustedStep ==
  ASSUME IInv, NEW q \in Queries, Exhausted(q)
  PROVE  IInv'
BY DEF IInv, TypeOK, JudgedKnown, Split, QuotaSpent, JudgedAnswered, Loading, InBatch,
       AllOf, Exhausted, fetchVars

LEMMA NoBatchStep == IInv /\ NoBatch => IInv'
<1> SUFFICES ASSUME IInv, NoBatch PROVE IInv'
  OBVIOUS
<1>1. InBatch = {} /\ phase = "draw"
  BY DEF NoBatch, Drawn, InBatch
<1>2. TypeOK'
  BY DEF IInv, TypeOK, NoBatch, fetchVars, loadVars, loaderVars, Phases
<1>3. QED
  BY <1>1, <1>2 DEF IInv, JudgedKnown, Split, QuotaSpent, JudgedAnswered, Loading, AllOf,
     NoBatch, fetchVars, loadVars, loaderVars

\* The documents of the batch come back judged or not; either way they are seen.
LEMMA LoadBatchStep == IInv /\ LoadBatch => IInv'
<1> SUFFICES ASSUME IInv, LoadBatch PROVE IInv'
  OBVIOUS
<1> USE DEF IInv
<1>1. phase = "draw" /\ phase' \in {"size", "merge"} /\ InBatch \in SUBSET known
  BY DEF LoadBatch, Drawn, Split, Loading
<1>2. /\ Judge(InBatch) /\ judged' = judged \cup Judged(InBatch)
      /\ seen' = seen \cup InBatch
      /\ iterCap' = Accumulate(iterCap, seen') /\ allCap' = Accumulate(allCap, seen')
      /\ UNCHANGED <<quota, iteration, known, awaited, found, skipped, base, first, left,
                     arms, room, batch, used, loadQuota, answer>>
  BY DEF LoadBatch, InBatch, fetchVars, loaderVars
<1>3. JudgedKnown' /\ verdict' \in [Docs -> Levels \cup {Unjudged}]
  BY <1>1, <1>2, JudgeStep DEF JudgedKnown
<1>4. seen' \in SUBSET Docs /\ judged' \subseteq Docs
  BY <1>1, <1>2 DEF TypeOK, Judged
<1>5. {iterCap', allCap'} \subseteq [ids : SUBSET Docs, score : Nat, perfect : BOOLEAN]
  BY <1>2, <1>4, AccumulateType DEF TypeOK
<1>6. loads' \in Nat
  <2>1. Cardinality(batch) \in Nat
    BY FS_CardinalityType DEF QuotaSpent
  <2>2. QED
    BY <2>1 DEF LoadBatch, TypeOK
<1>7. TypeOK'
  BY <1>1, <1>2, <1>3, <1>4, <1>5, <1>6 DEF TypeOK, Phases
<1>8. Split'
  BY <1>1, <1>2 DEF Split, Loading, AllOf, Judged
<1>9. QuotaSpent' /\ JudgedAnswered'
  BY <1>1, <1>2 DEF QuotaSpent, JudgedAnswered, Loading
<1>10. QED
  BY <1>3, <1>7, <1>8, <1>9

LEMMA MergeLoadedStep == IInv /\ MergeLoaded => IInv'
<1> SUFFICES ASSUME IInv, MergeLoaded PROVE IInv'
  OBVIOUS
<1> USE DEF IInv
<1>1. known' = base \cup seen \cup AllOf(left) /\ judged \subseteq known'
  BY DEF MergeLoaded, Split, Loading
<1>2. known' \subseteq Docs
  BY <1>1 DEF TypeOK, AllOf
<1>3. {left', first'} \subseteq [Queries -> SUBSET Docs]
  BY DEF MergeLoaded, DropLocals, NoSplit
<1>4. TypeOK'
  BY <1>2, <1>3 DEF MergeLoaded, DropLocals, TypeOK, fetchVars, Phases
<1>5. JudgedKnown' /\ Split' /\ JudgedAnswered'
  BY <1>1 DEF MergeLoaded, JudgedKnown, Split, Loading, JudgedAnswered
<1>6. QuotaSpent'
  BY FS_EmptySet DEF MergeLoaded, DropLocals, QuotaSpent, Loading
<1>7. QED
  BY <1>4, <1>5, <1>6

\* The answer takes what the documents carry, which is all the model said.
LEMMA FinishStep == IInv /\ Finish => IInv'
<1> SUFFICES ASSUME IInv, Finish PROVE IInv'
  OBVIOUS
<1> USE DEF IInv
<1>1. answer' = {d \in Fits : verdict[d] >= Threshold}
  <2>1. \A d \in Fits : verdict[d] >= Threshold => d \in known \cap judged
    BY SearchAssumption DEF JudgedKnown, TypeOK, Unjudged
  <2>2. QED
    BY <2>1 DEF Finish
<1>2. TypeOK'
  BY <1>1, SearchAssumption DEF Finish, TypeOK, fetchVars, loadVars, loaderVars, Phases
<1>3. QED
  BY <1>1, <1>2 DEF Finish, JudgedKnown, Split, QuotaSpent, JudgedAnswered, Loading,
     fetchVars, loadVars, loaderVars

LEMMA NextIInv == IInv /\ [Next]_vars => IInv'
<1> SUFFICES ASSUME IInv, [Next]_vars PROVE IInv'
  OBVIOUS
<1>1. CASE Collect
  BY <1>1, StartIterationStep, SourceAnswersStep, DenseSkippedStep, PrimaryMergedStep,
     FollowupMergedStep DEF Collect
<1>2. CASE Load
  BY <1>2, NothingToJudgeStep, BeginLoadStep, SizeBatchStep, DrawStep, ExhaustedStep,
     NoBatchStep, LoadBatchStep, MergeLoadedStep DEF Load
<1>3. CASE Finish
  BY <1>3, FinishStep
<1>4. CASE UNCHANGED vars
  BY <1>4 DEF IInv, TypeOK, JudgedKnown, Split, QuotaSpent, JudgedAnswered, Loading,
     InBatch, AllOf, vars, fetchVars, loadVars, loaderVars
<1>5. QED
  BY <1>1, <1>2, <1>3, <1>4 DEF Next

LEMMA Invariance == Spec => []IInv
BY InitIInv, NextIInv, PTL DEF Spec

-----------------------------------------------------------------------------
(* Theorems                                                                 *)

(* Every variable has its type; in particular what is left of the quota and *)
(* the size of a batch are never negative (adaptive_load,                   *)
(* AdaptiveLoader._get_next_batch_size).                                    *)
THEOREM TypeCorrect == Spec => []TypeOK
<1>1. IInv => TypeOK
  BY DEF IInv
<1>2. QED
  BY <1>1, Invariance, PTL

(* The adaptive loader asks for no more documents than its quota: a batch   *)
(* never outgrows what is left of it (AdaptiveLoader._get_next_batch).      *)
THEOREM LoaderWithinQuota == Spec => [](Loading => used <= loadQuota)
<1>1. IInv => (Loading => used <= loadQuota)
  BY DEF IInv, QuotaSpent
<1>2. QED
  BY <1>1, Invariance, PTL

(* The answer has exactly the documents the model ever found relevant and   *)
(* that fit the metadata (BroadSearchCommand.execute).                      *)
THEOREM AnswersTheJudged == Spec => []JudgedAnswered
<1>1. IInv => JudgedAnswered
  BY DEF IInv
<1>2. QED
  BY <1>1, Invariance, PTL

(* No step loses a document that came from a query: what is split over the  *)
(* queries is drawn or drained (adaptive_load).                             *)
THEOREM KeepsTheFound == Spec => KeptOnceFound
<1>1. IInv /\ [Next]_vars => [known \cap Sourced \subseteq known']_vars
  <2> SUFFICES ASSUME IInv, Next PROVE known \cap Sourced \subseteq known'
    OBVIOUS
  <2>1. CASE MergeLoaded
    BY <2>1 DEF IInv, Split, Loading, MergeLoaded
  <2>2. CASE Collect
    BY <2>2 DEF Collect, StartIteration, SourceAnswers, DenseSkipped, PrimaryMerged,
       FollowupMerged
  <2>3. CASE Load /\ ~MergeLoaded
    BY <2>3 DEF Load, NothingToJudge, BeginLoad, SizeBatch, Draw, Exhausted, NoBatch,
       LoadBatch
  <2>4. CASE Finish
    BY <2>4 DEF Finish
  <2>5. QED
    BY <2>1, <2>2, <2>3, <2>4 DEF Next
<1>2. QED
  BY <1>1, Invariance, PTL DEF Spec, KeptOnceFound

-----------------------------------------------------------------------------
(* The limits: the quota of judgements and the cap on relevant documents,   *)
(* for every finite set of documents and of queries, every quota, preload   *)
(* and batch size.                                                          *)

(* The documents that an iteration may have judged.                         *)
Limit == LET preload == Preload * Cardinality(Queries)
         IN  IF quota > preload THEN quota ELSE preload

(* Those of the batch that is drawn are judged next.                        *)
Charged == judged \cup (IF phase = "draw" THEN InBatch ELSE {})

(* An iteration is charged for its preload and for what the loader used:    *)
(* a document of the batch either is judged or was paid for.                *)
Budget ==
  /\ phase \in {"iterate", "done"} => Cardinality(judged) <= iteration * Limit
  /\ phase \in {"primary", "followup", "judge"} =>
       /\ iteration >= 1
       /\ Cardinality(judged) <= (iteration - 1) * Limit
  /\ Loading =>
       /\ iteration >= 1
       /\ Cardinality(Charged) <= (iteration - 1) * Limit + Cardinality(AllOf(first)) + used
       /\ Cardinality(AllOf(first)) + loadQuota <= Limit

(* What the cap counts stays relevant, since a judgement is never changed.  *)
CapSound ==
  /\ ScoresOnce
  /\ \A d \in allCap.ids : verdict[d] >= 2

-----------------------------------------------------------------------------
(* Counting                                                                 *)

LEMMA SubsetCounts ==
  ASSUME NEW T \in SUBSET Docs, NEW S \in SUBSET T
  PROVE  /\ IsFiniteSet(S) /\ Cardinality(S) \in Nat
         /\ IsFiniteSet(T) /\ Cardinality(T) \in Nat
         /\ Cardinality(S) <= Cardinality(T)
BY SearchAssumption, FS_Subset, FS_CardinalityType

LEMMA UnionCounts ==
  ASSUME NEW S \in SUBSET Docs, NEW T \in SUBSET Docs
  PROVE  Cardinality(S \cup T) <= Cardinality(S) + Cardinality(T)
<1>1. /\ IsFiniteSet(S) /\ IsFiniteSet(T) /\ IsFiniteSet(S \cap T)
      /\ Cardinality(S) \in Nat /\ Cardinality(T) \in Nat /\ Cardinality(S \cap T) \in Nat
  BY SearchAssumption, FS_Subset, FS_CardinalityType
<1>2. Cardinality(S \cup T) = Cardinality(S) + Cardinality(T) - Cardinality(S \cap T)
  BY <1>1, FS_Union
<1> QED BY <1>1, <1>2

LEMMA DisjointCounts ==
  ASSUME NEW S \in SUBSET Docs, NEW T \in SUBSET Docs, S \cap T = {}
  PROVE  Cardinality(S \cup T) = Cardinality(S) + Cardinality(T)
<1>1. IsFiniteSet(S) /\ IsFiniteSet(T) /\ Cardinality(S) \in Nat /\ Cardinality(T) \in Nat
  BY SearchAssumption, FS_Subset, FS_CardinalityType
<1>2. Cardinality(S \cup T) = Cardinality(S) + Cardinality(T) - Cardinality({})
  BY <1>1, FS_Union
<1> QED BY <1>1, <1>2, FS_EmptySet

(* A union of sets of at most n elements: each element is told by the set   *)
(* it is found in and its number there.                                     *)
LEMMA UnionBound ==
  ASSUME NEW S, IsFiniteSet(S), NEW n \in Nat, NEW split,
         \A q \in S : IsFiniteSet(split[q]) /\ Cardinality(split[q]) <= n
  PROVE  Cardinality(UNION {split[q] : q \in S}) <= Cardinality(S) * n
<1> DEFINE U == UNION {split[q] : q \in S}
           numbering(q) == CHOOSE f : f \in Bijection(1 .. Cardinality(split[q]), split[q])
           owner(d) == CHOOSE q : q \in S /\ d \in split[q]
           number(d) == CHOOSE i : i \in 1 .. n /\ numbering(owner(d))[i] = d
           F == [d \in U |-> <<owner(d), number(d)>>]
<1>1. ASSUME NEW q \in S
      PROVE  numbering(q) \in Bijection(1 .. Cardinality(split[q]), split[q])
  BY FS_CardinalityType DEF ExistsBijection
<1>2. ASSUME NEW d \in U
      PROVE  owner(d) \in S /\ d \in split[owner(d)]
  OBVIOUS
<1>3. ASSUME NEW d \in U
      PROVE  number(d) \in 1 .. n /\ numbering(owner(d))[number(d)] = d
  <2> DEFINE o == owner(d)
  <2>1. o \in S /\ d \in split[o]
    BY <1>2
  <2>2. /\ numbering(o) \in Bijection(1 .. Cardinality(split[o]), split[o])
        /\ Cardinality(split[o]) \in Nat /\ Cardinality(split[o]) <= n
    BY <1>1, <2>1, FS_CardinalityType
  <2> HIDE DEF o
  <2> HIDE DEF numbering
  <2>3. \E i \in 1 .. Cardinality(split[o]) : numbering(o)[i] = d
    BY <2>1, <2>2, Fun_BijectionProperties
  <2>4. \E i : i \in 1 .. n /\ numbering(o)[i] = d
    BY <2>2, <2>3
  <2> QED BY <2>4 DEF o
<1> HIDE DEF U, owner, number, numbering
<1>4. F \in [U -> S \X (1 .. n)]
  BY <1>2, <1>3
<1>5. \A a, b \in U : F[a] = F[b] => a = b
  BY <1>3
<1>6. F \in Injection(U, S \X (1 .. n))
  BY <1>4, <1>5, Fun_IsInj
<1>7. /\ IsFiniteSet(1 .. n) /\ Cardinality(1 .. n) = n
  BY FS_Interval
<1>8. /\ IsFiniteSet(S \X (1 .. n))
      /\ Cardinality(S \X (1 .. n)) = Cardinality(S) * n
  BY <1>7, FS_Product
<1>9. Cardinality(U) <= Cardinality(S \X (1 .. n))
  BY <1>6, <1>8, FS_Injection
<1> QED BY <1>8, <1>9 DEF U

-----------------------------------------------------------------------------
(* The quota                                                                *)

LEMMA LimitBounds ==
  ASSUME TypeOK
  PROVE  /\ Limit \in Nat
         /\ quota \in Nat /\ quota <= Limit
         /\ Cardinality(Queries) * Preload <= Limit
<1>1. Cardinality(Queries) \in Nat
  BY SearchAssumption, FS_CardinalityType
<1>2. quota \in Nat /\ Preload \in Nat
  BY SearchAssumption DEF TypeOK
<1>3. /\ Preload * Cardinality(Queries) \in Nat
      /\ Preload * Cardinality(Queries) = Cardinality(Queries) * Preload
  BY <1>1, <1>2
<1> QED BY <1>2, <1>3 DEF Limit

(* One more iteration adds the limit once.                                  *)
LEMMA NextLimit ==
  ASSUME TypeOK, iteration >= 1
  PROVE  /\ iteration * Limit = (iteration - 1) * Limit + Limit
         /\ (iteration - 1) * Limit \in Nat /\ iteration * Limit \in Nat
<1>1. Limit \in Nat
  BY LimitBounds
<1>2. CASE iteration = 1
  BY <1>1, <1>2
<1>3. CASE iteration = 2
  BY <1>1, <1>3
<1> QED BY <1>2, <1>3 DEF TypeOK

(* uniform_preload takes no more than its size of each query.               *)
LEMMA PreloadBound ==
  ASSUME TypeOK, NEW take \in Takes
  PROVE  /\ AllOf(take) \in SUBSET known
         /\ Cardinality(AllOf(take)) \in Nat
         /\ Cardinality(AllOf(take)) <= Limit
<1>1. ASSUME NEW q \in Queries
      PROVE  /\ take[q] \subseteq From(q) /\ From(q) \in SUBSET Docs
             /\ From(q) \subseteq known
             /\ IsFiniteSet(take[q]) /\ Cardinality(take[q]) <= Preload
  <2>1. /\ take[q] \subseteq From(q)
        /\ Cardinality(take[q]) = IF Cardinality(From(q)) < Preload
                                  THEN Cardinality(From(q)) ELSE Preload
    BY DEF Takes, Firsts
  <2>2. From(q) \in SUBSET Docs /\ From(q) \subseteq known
    BY DEF From, Pending, TypeOK
  <2>3. IsFiniteSet(take[q]) /\ Cardinality(From(q)) \in Nat
    BY <2>1, <2>2, SubsetCounts
  <2> QED BY <2>1, <2>2, <2>3, SearchAssumption
<1>2. Cardinality(AllOf(take)) <= Cardinality(Queries) * Preload
  BY <1>1, UnionBound, SearchAssumption DEF AllOf
<1>3. AllOf(take) \in SUBSET known /\ known \in SUBSET Docs
  BY <1>1 DEF AllOf, TypeOK
<1>4. Cardinality(AllOf(take)) \in Nat /\ Cardinality(Queries) * Preload \in Nat
  <2>1. Cardinality(Queries) \in Nat
    BY SearchAssumption, FS_CardinalityType
  <2> QED BY <1>3, <2>1, SubsetCounts, SearchAssumption
<1> QED BY <1>2, <1>3, <1>4, LimitBounds

LEMMA InitBudget == Init => Budget
<1> SUFFICES ASSUME Init PROVE Budget
  OBVIOUS
<1>1. Limit \in Nat
  BY InitIInv, LimitBounds DEF IInv
<1>2. Cardinality(judged) <= iteration * Limit
  BY <1>1, FS_EmptySet DEF Init
<1> QED BY <1>2 DEF Init, Budget, Loading

(* The steps that judge nothing.                                            *)
LEMMA CollectBudget == IInv /\ Budget /\ Collect => Budget'
<1> SUFFICES ASSUME IInv, Budget, Collect PROVE Budget'
  OBVIOUS
<1>1. /\ TypeOK /\ UNCHANGED <<judged, quota>>
      /\ Limit' = Limit
  BY DEF IInv, Collect, StartIteration, SourceAnswers, DenseSkipped, PrimaryMerged,
     FollowupMerged, Limit
<1>2. CASE StartIteration
  BY <1>1, <1>2 DEF StartIteration, Budget, Loading, TypeOK
<1>3. CASE \E s \in awaited, docs \in SUBSET Docs : SourceAnswers(s, docs)
  BY <1>1, <1>3 DEF SourceAnswers, Budget, Loading, Charged, InBatch, AllOf, loadVars, loaderVars
<1>4. CASE DenseSkipped
  BY <1>1, <1>4 DEF DenseSkipped, Budget, Loading, Charged, InBatch, AllOf, loadVars, loaderVars
<1>5. CASE PrimaryMerged \/ FollowupMerged
  BY <1>1, <1>5 DEF PrimaryMerged, FollowupMerged, Budget, Loading
<1> QED BY <1>2, <1>3, <1>4, <1>5 DEF Collect

LEMMA NothingToJudgeBudget == IInv /\ Budget /\ NothingToJudge => Budget'
<1> SUFFICES ASSUME IInv, Budget, NothingToJudge PROVE Budget'
  OBVIOUS
<1>1. /\ TypeOK /\ phase = "judge" /\ phase' = "iterate"
      /\ UNCHANGED <<judged, iteration>> /\ Limit' = Limit
  BY DEF IInv, NothingToJudge, Limit
<1>2. Cardinality(judged) \in Nat /\ Limit \in Nat
  BY <1>1, SubsetCounts, LimitBounds DEF TypeOK
<1>3. Cardinality(judged) <= iteration * Limit
  BY <1>1, <1>2, NextLimit DEF Budget
<1> QED BY <1>1, <1>3 DEF Budget, Loading

(* The preload is charged to the iteration, and the loader gets what is     *)
(* left of the quota.                                                       *)
LEMMA BeginLoadBudget ==
  ASSUME IInv, Budget, phase = "judge", NEW take \in Takes, BeginLoad(take)
  PROVE  Budget'
<1> DEFINE pre == AllOf(take)
<1>1. /\ TypeOK /\ pre \in SUBSET Docs
      /\ Cardinality(pre) \in Nat /\ Cardinality(pre) <= Limit
  BY PreloadBound DEF IInv, TypeOK
<1>2. /\ phase' = "size" /\ first' = take /\ used' = 0 /\ Limit' = Limit
      /\ iteration' = iteration
      /\ loadQuota' = IF quota > Cardinality(pre) THEN quota - Cardinality(pre) ELSE 0
      /\ judged' = judged \cup Judged(pre)
  BY DEF BeginLoad, Limit
<1>3. /\ judged \cup pre \in SUBSET Docs /\ judged' \in SUBSET (judged \cup pre)
      /\ judged \in SUBSET Docs
  BY <1>1, <1>2 DEF Judged, TypeOK
<1>4. /\ Cardinality(judged') \in Nat /\ Cardinality(judged) \in Nat
      /\ Cardinality(judged') <= Cardinality(judged) + Cardinality(pre)
  <2>1. Cardinality(judged \cup pre) <= Cardinality(judged) + Cardinality(pre)
    BY <1>1, <1>3, UnionCounts
  <2>2. /\ Cardinality(judged') \in Nat /\ Cardinality(judged \cup pre) \in Nat
        /\ Cardinality(judged') <= Cardinality(judged \cup pre)
    BY <1>3, SubsetCounts
  <2>3. Cardinality(judged) \in Nat
    BY <1>3, SubsetCounts
  <2> QED BY <1>1, <2>1, <2>2, <2>3
<1>5. iteration >= 1 /\ Cardinality(judged) <= (iteration - 1) * Limit
  BY DEF Budget
<1>6. Cardinality(judged') <= (iteration - 1) * Limit + Cardinality(pre)
  BY <1>1, <1>4, <1>5, NextLimit
<1>7. Cardinality(pre) + loadQuota' <= Limit
  BY <1>1, <1>2, LimitBounds
<1>8. AllOf(first)' = pre /\ Charged' = judged'
  BY <1>2 DEF AllOf, Charged
<1> HIDE DEF pre
<1>9. (iteration - 1) * Limit \in Nat
  BY <1>1, <1>5, NextLimit
<1> QED BY <1>1, <1>2, <1>5, <1>6, <1>7, <1>8, <1>9 DEF Budget, Loading

(* A document that is drawn is judged already, or it is paid for.           *)
LEMMA DrawBudget ==
  ASSUME IInv, Budget, NEW q \in Queries, NEW d \in Docs, Draw(q, d)
  PROVE  Budget'
<1>1. /\ TypeOK /\ phase = "draw" /\ phase' = "draw" /\ Limit' = Limit
      /\ UNCHANGED <<iteration, judged, first, loadQuota>>
      /\ used' = IF Loaded(d) THEN used ELSE used + 1
      /\ AllOf(first)' = AllOf(first)
  BY DEF IInv, Draw, Drawing, Limit, AllOf
<1>2. Charged' = Charged \cup {d} /\ Charged \in SUBSET Docs
  <2>1. batch' = batch \cup {<<q, d>>} /\ batch \subseteq Queries \X Docs
    BY <1>1 DEF Draw, TypeOK
  <2>2. InBatch' = InBatch \cup {d}
    <3>1. \A x : x \in InBatch' <=> \E pair \in batch' : x = pair[2]
      BY DEF InBatch
    <3>2. \A x : x \in InBatch <=> \E pair \in batch : x = pair[2]
      BY DEF InBatch
    <3>3. <<q, d>>[2] = d
      OBVIOUS
    <3>4. \A x : x \in InBatch' <=> x \in InBatch \/ x = d
      BY <2>1, <3>1, <3>2, <3>3, Zenon
    <3> QED BY <3>4
  <2>3. InBatch \subseteq Docs
    BY <2>1 DEF InBatch
  <2> QED BY <1>1, <2>2, <2>3 DEF Charged, TypeOK
<1>3. /\ Cardinality(Charged) \in Nat
      /\ Cardinality(Charged') <= IF d \in Charged THEN Cardinality(Charged)
                                  ELSE Cardinality(Charged) + 1
      /\ Cardinality(Charged') \in Nat
  <2>1. IsFiniteSet(Charged) /\ Cardinality(Charged) \in Nat
    BY <1>2, SubsetCounts
  <2>2. /\ IsFiniteSet(Charged \cup {d})
        /\ Cardinality(Charged \cup {d}) = IF d \in Charged THEN Cardinality(Charged)
                                           ELSE Cardinality(Charged) + 1
    BY <2>1, FS_AddElement
  <2> QED BY <1>2, <2>1, <2>2
<1>4. Loaded(d) => d \in Charged
  BY DEF Loaded, IInv, JudgedKnown, Charged
<1>5. /\ iteration >= 1 /\ Cardinality(AllOf(first)) + loadQuota <= Limit
      /\ Cardinality(Charged) <= (iteration - 1) * Limit + Cardinality(AllOf(first)) + used
  BY <1>1 DEF Budget, Loading
<1>6. /\ (iteration - 1) * Limit \in Nat /\ used \in Nat
      /\ Cardinality(AllOf(first)) \in Nat
  <2>1. AllOf(first) \in SUBSET Docs
    BY <1>1 DEF TypeOK, AllOf
  <2> QED BY <1>1, <1>5, <2>1, NextLimit, SubsetCounts DEF TypeOK
<1>7. Cardinality(Charged') <= (iteration - 1) * Limit + Cardinality(AllOf(first)) + used'
  BY <1>1, <1>3, <1>4, <1>5, <1>6
<1> QED BY <1>1, <1>5, <1>7 DEF Budget, Loading

LEMMA LoadBatchBudget == IInv /\ Budget /\ LoadBatch => Budget'
<1> SUFFICES ASSUME IInv, Budget, LoadBatch PROVE Budget'
  OBVIOUS
<1>1. /\ TypeOK /\ phase = "draw" /\ phase' \in {"size", "merge"} /\ Limit' = Limit
      /\ UNCHANGED <<iteration, first, used, loadQuota>>
      /\ AllOf(first)' = AllOf(first)
      /\ judged' = judged \cup Judged(InBatch)
  BY DEF IInv, LoadBatch, Drawn, Limit, AllOf, InBatch, loaderVars
<1>2. Charged' \in SUBSET Charged /\ Charged \in SUBSET Docs
  BY <1>1 DEF Charged, InBatch, Judged, TypeOK
<1>3. /\ Cardinality(Charged') \in Nat /\ Cardinality(Charged) \in Nat
      /\ Cardinality(Charged') <= Cardinality(Charged)
  BY <1>2, SubsetCounts
<1>4. /\ iteration >= 1 /\ Cardinality(AllOf(first)) + loadQuota <= Limit
      /\ Cardinality(Charged) <= (iteration - 1) * Limit + Cardinality(AllOf(first)) + used
  BY <1>1 DEF Budget, Loading
<1>5. /\ (iteration - 1) * Limit \in Nat /\ used \in Nat
      /\ Cardinality(AllOf(first)) \in Nat
  <2>1. AllOf(first) \in SUBSET Docs
    BY <1>1 DEF TypeOK, AllOf
  <2> QED BY <1>1, <1>4, <2>1, NextLimit, SubsetCounts DEF TypeOK
<1>6. Cardinality(Charged') <= (iteration - 1) * Limit + Cardinality(AllOf(first)) + used
  BY <1>3, <1>4, <1>5
<1> QED BY <1>1, <1>4, <1>6 DEF Budget, Loading

(* Sizing a batch, an empty query and the end of the draws charge nothing.  *)
LEMMA UnchargedBudget ==
  ASSUME IInv, Budget,
         \/ \E n \in BatchSizes : SizeBatch(n)
         \/ \E q \in Queries : Exhausted(q)
         \/ NoBatch
  PROVE  Budget'
<1>1. /\ Loading /\ Loading' /\ Limit' = Limit
      /\ UNCHANGED <<iteration, judged, used, loadQuota>>
      /\ AllOf(first)' = AllOf(first)
  BY DEF SizeBatch, Exhausted, NoBatch, Drawing, Drawn, Loading, Limit, AllOf, loadVars, loaderVars
<1>2. Charged' = Charged
  BY DEF SizeBatch, Exhausted, NoBatch, Drawing, Drawn, Charged, InBatch
<1> QED BY <1>1, <1>2 DEF Budget, Loading

(* What the loader used is within what the preload left of the quota.       *)
LEMMA MergeLoadedBudget == IInv /\ Budget /\ MergeLoaded => Budget'
<1> SUFFICES ASSUME IInv, Budget, MergeLoaded PROVE Budget'
  OBVIOUS
<1>1. /\ TypeOK /\ phase = "merge" /\ phase' = "iterate" /\ Limit' = Limit
      /\ UNCHANGED <<iteration, judged>>
      /\ used <= loadQuota
  BY DEF IInv, QuotaSpent, Loading, MergeLoaded, Limit
<1>2. Charged = judged
  BY <1>1 DEF Charged
<1>3. /\ iteration >= 1 /\ Cardinality(AllOf(first)) + loadQuota <= Limit
      /\ Cardinality(judged) <= (iteration - 1) * Limit + Cardinality(AllOf(first)) + used
  BY <1>1, <1>2 DEF Budget, Loading
<1>4. /\ used \in Nat /\ loadQuota \in Nat /\ Limit \in Nat
      /\ Cardinality(judged) \in Nat /\ Cardinality(AllOf(first)) \in Nat
  <2>1. AllOf(first) \in SUBSET Docs /\ judged \in SUBSET Docs
    BY <1>1 DEF TypeOK, AllOf
  <2> QED BY <1>1, <2>1, LimitBounds, SubsetCounts DEF TypeOK
<1>5. Cardinality(judged) <= iteration * Limit
  BY <1>1, <1>3, <1>4, NextLimit
<1> QED BY <1>1, <1>5 DEF Budget, Loading

LEMMA NextBudget == IInv /\ Budget /\ [Next]_vars => Budget'
<1> SUFFICES ASSUME IInv, Budget, [Next]_vars PROVE Budget'
  OBVIOUS
<1>1. CASE Collect
  BY <1>1, CollectBudget
<1>2. CASE Load
  BY <1>2, NothingToJudgeBudget, BeginLoadBudget, UnchargedBudget, DrawBudget, LoadBatchBudget,
     MergeLoadedBudget DEF Load
<1>3. CASE Finish
  BY <1>3 DEF Finish, Budget, Loading, Limit
<1>4. CASE UNCHANGED vars
  BY <1>4 DEF vars, fetchVars, loadVars, loaderVars, Budget, Loading, Limit, Charged, InBatch, AllOf
<1> QED BY <1>1, <1>2, <1>3, <1>4 DEF Next

-----------------------------------------------------------------------------
(* The cap                                                                  *)

(* A judgement, once given, is kept.                                        *)
LEMMA JudgeKeeps ==
  ASSUME NEW docs, Judge(docs), NEW d \in Docs, verdict[d] # Unjudged
  PROVE  verdict'[d] = verdict[d]
BY DEF Judge

(* Counting the new ones, and the perfect ones twice, keeps the score right. *)
LEMMA LoadBatchCap == IInv /\ CapSound /\ LoadBatch => CapSound'
<1> SUFFICES ASSUME IInv, CapSound, LoadBatch PROVE CapSound'
  OBVIOUS
<1> DEFINE ids  == allCap.ids
           new  == Relevant(seen') \ ids
           both == {d \in ids : verdict[d] = 3}
<1>1. /\ TypeOK /\ ids \in SUBSET Docs /\ iterCap.ids \in SUBSET Docs
      /\ allCap.score \in Nat /\ allCap.perfect \in BOOLEAN
  BY DEF IInv, TypeOK
<1>2. /\ seen' \in SUBSET Docs
      /\ verdict' \in [Docs -> Levels \cup {Unjudged}]
  BY LoadBatchStep DEF IInv, TypeOK
<1>3. /\ iterCap'.ids = iterCap.ids \cup (Relevant(seen') \ iterCap.ids)
      /\ allCap'.ids = ids \cup new
      /\ allCap'.score = allCap.score + Cardinality(new) + Cardinality(Perfect(new))
      /\ allCap'.perfect = (allCap.perfect \/ Perfect(seen') # {})
  BY DEF LoadBatch, Accumulate
<1>4. /\ allCap.score = Cardinality(ids) + Cardinality(both)
      /\ iterCap.ids \subseteq ids
      /\ allCap.perfect <=> both # {}
      /\ \A d \in ids : verdict[d] >= 2
  BY DEF CapSound, ScoresOnce
<1>5. \A d \in ids : verdict'[d] = verdict[d]
  <2>1. \A d \in ids : verdict[d] # Unjudged
    BY <1>4 DEF Unjudged
  <2>2. \E docs : Judge(docs)
    BY DEF LoadBatch
  <2> QED BY <1>1, <2>1, <2>2, JudgeKeeps
<1>6. /\ \A d \in new : verdict'[d] >= 2 /\ d \in seen'
      /\ new \in SUBSET Docs /\ both \in SUBSET Docs
      /\ Perfect(new) \in SUBSET Docs
      /\ new \cap ids = {} /\ both \cap Perfect(new) = {}
  BY <1>1, <1>2 DEF Relevant, Perfect
<1>7. {d \in allCap'.ids : verdict'[d] = 3} = both \cup Perfect(new)
  BY <1>3, <1>5 DEF Perfect
<1>8. /\ Cardinality(ids \cup new) = Cardinality(ids) + Cardinality(new)
      /\ Cardinality(both \cup Perfect(new)) = Cardinality(both) + Cardinality(Perfect(new))
  BY <1>1, <1>6, DisjointCounts
<1>9. /\ Cardinality(ids) \in Nat /\ Cardinality(new) \in Nat
      /\ Cardinality(both) \in Nat /\ Cardinality(Perfect(new)) \in Nat
  BY <1>1, <1>6, SubsetCounts
<1>10. allCap'.score = Cardinality(allCap'.ids) + Cardinality({d \in allCap'.ids : verdict'[d] = 3})
  <2>1. Cardinality({d \in allCap'.ids : verdict'[d] = 3})
          = Cardinality(both) + Cardinality(Perfect(new))
    BY <1>7, <1>8
  <2>2. Cardinality(allCap'.ids) = Cardinality(ids) + Cardinality(new)
    BY <1>3, <1>8
  <2>3. allCap'.score = Cardinality(ids) + Cardinality(both) + Cardinality(new)
                        + Cardinality(Perfect(new))
    BY <1>3, <1>4
  <2> HIDE DEF ids, new, both
  <2> QED BY <1>9, <2>1, <2>2, <2>3
<1>11. /\ {d \in seen' : verdict'[d] >= 2} \subseteq allCap'.ids
       /\ iterCap'.ids \subseteq allCap'.ids
  BY <1>3, <1>4 DEF Relevant
<1>12. allCap'.perfect <=> \E d \in allCap'.ids : verdict'[d] = 3
  <2>1. Perfect(seen') # {} => \E d \in allCap'.ids : verdict'[d] = 3
    BY <1>11 DEF Perfect
  <2>2. both # {} => \E d \in allCap'.ids : verdict'[d] = 3
    BY <1>3, <1>5
  <2>3. ASSUME NEW d \in allCap'.ids, verdict'[d] = 3
        PROVE  both # {} \/ Perfect(seen') # {}
    BY <1>3, <1>5, <1>6, <2>3 DEF Perfect
  <2> QED BY <1>3, <1>4, <2>1, <2>2, <2>3
<1>13. \A d \in allCap'.ids : verdict'[d] >= 2
  BY <1>3, <1>4, <1>5, <1>6
<1> QED BY <1>10, <1>11, <1>12, <1>13 DEF CapSound, ScoresOnce

(* The preload judges what the cap has not counted, and nothing is seen yet. *)
LEMMA BeginLoadCap ==
  ASSUME IInv, CapSound, NEW take \in Takes, BeginLoad(take)
  PROVE  CapSound'
<1>1. /\ allCap.ids \in SUBSET Docs /\ UNCHANGED <<iterCap, allCap>> /\ seen' = {}
  BY DEF IInv, TypeOK, BeginLoad
<1>2. \A d \in allCap.ids : verdict'[d] = verdict[d]
  <2>1. \A d \in allCap.ids : verdict[d] # Unjudged
    BY DEF CapSound, Unjudged
  <2>2. \E docs : Judge(docs)
    BY DEF BeginLoad
  <2> QED BY <1>1, <2>1, <2>2, JudgeKeeps
<1>3. {d \in allCap'.ids : verdict'[d] = 3} = {d \in allCap.ids : verdict[d] = 3}
  BY <1>1, <1>2
<1> QED BY <1>1, <1>2, <1>3 DEF CapSound, ScoresOnce

(* Every other step leaves the judgements and the cap of the search as they *)
(* are; it may forget what was seen, or start another iteration.            *)
LEMMA OtherCap ==
  ASSUME CapSound, UNCHANGED <<verdict, allCap>>, seen' \in {seen, {}},
         iterCap' \in {iterCap, NoCap}
  PROVE  CapSound'
BY DEF CapSound, ScoresOnce, NoCap

LEMMA NextCap == IInv /\ CapSound /\ [Next]_vars => CapSound'
<1> SUFFICES ASSUME IInv, CapSound, [Next]_vars PROVE CapSound'
  OBVIOUS
<1>1. CASE Collect
  BY <1>1, OtherCap DEF Collect, StartIteration, SourceAnswers, DenseSkipped, PrimaryMerged,
     FollowupMerged, loadVars
<1>2. CASE \/ NothingToJudge \/ \E n \in BatchSizes : SizeBatch(n)
           \/ \E q \in Queries, d \in Docs : Draw(q, d)
           \/ \E q \in Queries : Exhausted(q)
           \/ NoBatch \/ MergeLoaded
  BY <1>2, OtherCap DEF NothingToJudge, SizeBatch, Draw, Exhausted, NoBatch, MergeLoaded,
     DropLocals, loadVars
<1>3. CASE (\E take \in Takes : BeginLoad(take)) \/ LoadBatch
  BY <1>3, BeginLoadCap, LoadBatchCap
<1>4. CASE Finish \/ UNCHANGED vars
  BY <1>4, OtherCap DEF Finish, vars, loadVars
<1> QED BY <1>1, <1>2, <1>3, <1>4 DEF Next, Load

-----------------------------------------------------------------------------
(* Theorems                                                                 *)

(* The model judges no more documents in an iteration than the quota, or    *)
(* than the preload takes when that is more, whatever the sources answer    *)
(* and the policy chooses (adaptive_load and AdaptiveLoader).               *)
THEOREM JudgesWithinQuota == Spec => []QuotaHeld
<1>1. IInv /\ Budget => QuotaHeld
  <2> SUFFICES ASSUME IInv, Budget PROVE Cardinality(judged) <= iteration * Limit
    BY DEF QuotaHeld, Limit
  <2>1. /\ TypeOK /\ Limit \in Nat /\ Cardinality(judged) \in Nat
        /\ judged \in SUBSET Charged /\ Charged \in SUBSET Docs
        /\ AllOf(first) \in SUBSET Docs
    BY LimitBounds, SubsetCounts DEF IInv, TypeOK, Charged, InBatch, AllOf
  <2>2. CASE phase \in {"iterate", "done"}
    BY <2>2 DEF Budget
  <2>3. CASE phase \in {"primary", "followup", "judge"}
    BY <2>1, <2>3, NextLimit DEF Budget
  <2>4. CASE Loading
    <3>1. /\ used \in Nat /\ loadQuota \in Nat /\ used <= loadQuota
          /\ Cardinality(AllOf(first)) \in Nat /\ Cardinality(Charged) \in Nat
          /\ Cardinality(judged) <= Cardinality(Charged)
      BY <2>1, <2>4, SubsetCounts DEF IInv, TypeOK, QuotaSpent
    <3>2. /\ iteration >= 1 /\ Cardinality(AllOf(first)) + loadQuota <= Limit
          /\ Cardinality(Charged) <= (iteration - 1) * Limit + Cardinality(AllOf(first)) + used
      BY <2>4 DEF Budget
    <3>3. iteration * Limit = (iteration - 1) * Limit + Limit /\ (iteration - 1) * Limit \in Nat
      BY <2>1, <3>2, NextLimit
    <3> QED BY <2>1, <3>1, <3>2, <3>3
  <2> QED BY <2>1, <2>2, <2>3, <2>4 DEF TypeOK, Phases, Loading
<1> QED BY <1>1, InitBudget, NextBudget, Invariance, PTL DEF Spec

(* The cap that spares the dense agent counts the relevant documents of all *)
(* batches, each of them once and the perfect ones twice (accumulate).      *)
THEOREM CapCountsOnce == Spec => []ScoresOnce
<1>1. Init => CapSound
  BY FS_EmptySet DEF Init, NoCap, CapSound, ScoresOnce
<1>2. CapSound => ScoresOnce
  BY DEF CapSound
<1> QED BY <1>1, <1>2, NextCap, Invariance, PTL DEF Spec

===============================================================================
