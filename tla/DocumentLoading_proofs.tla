------------------------ MODULE DocumentLoading_proofs -------------------------
(***************************************************************************)
(* Theorems about DocumentLoading, for every set of collections, documents *)
(* and fields, whatever the documents come with, what the loaders answer   *)
(* and when entries expire.                                                *)
(***************************************************************************)
EXTENDS DocumentLoading, TLAPS

Entries == {"absent", "notset"} \cup Values
Rows    == UNION {[R -> Entries \cup {"none", "error"}] : R \in SUBSET Fields}
Tables  == UNION {[D -> Rows] : D \in SUBSET Docs}
Loads   == [req : SUBSET Fields, needing : SUBSET Docs, hits : Tables,
            ask : SUBSET Docs, askFields : SUBSET Fields, answer : Tables]

Types ==
  /\ doc \in [Collections -> [Docs -> [Fields -> {"unloaded", "none"} \cup Values]]]
  /\ cache \in [Docs -> [Fields -> Entries]]
  /\ pc \in [Collections -> {"new", "idle", "asking", "storing", "applying"}]
  /\ load \in [Collections -> Loads]

(* What an entry says of a field is what its loader says, and nothing comes *)
(* with a document that has to be computed.                                 *)
True(entry, d, f) ==
  /\ entry = "notset" => Truth[d][f] = "none"
  /\ entry = "loaded" => Truth[d][f] = "loaded"
  /\ entry = "fetched" => f \in S2Fields

CacheTrue == \A d \in Docs, f \in Fields : True(cache[d][f], d, f)

(* The fields of a load have one loader.                                    *)
OneLoader(l) == l.req \subseteq S2Fields \/ \E f \in ComputedFields : l.req = {f}

(* What a load has read: true entries, and for what is missing an order to  *)
(* ask.  A document is asked for only if some field of it is missing.       *)
HitsTrue(l) ==
  /\ l.ask \subseteq l.needing /\ l.askFields \subseteq l.req
  /\ \A d \in l.needing, f \in l.req :
       /\ l.hits[d][f] \in Entries
       /\ True(l.hits[d][f], d, f)
       /\ l.hits[d][f] = "absent" => d \in l.ask /\ f \in l.askFields
  /\ \A d \in l.ask : \E f \in l.req : l.hits[d][f] = "absent"

(* What a loader has answered: the truth, or an error of a computation.     *)
AnswerTrue(l) ==
  /\ DOMAIN l.answer \subseteq l.ask
  /\ \A d \in DOMAIN l.answer, f \in l.askFields :
       l.answer[d][f] = Truth[d][f] \/ (f \in ComputedFields /\ l.answer[d][f] = "error")

(* A computation answers for every document it is asked for.                *)
AnswerComplete(l) == \A f \in ComputedFields : f \in l.req => DOMAIN l.answer = l.ask

Busy(c) == pc[c] \in {"asking", "storing", "applying"}

LoadTrue ==
  \A c \in Collections :
    /\ Busy(c) => OneLoader(load[c]) /\ HitsTrue(load[c]) /\ AnswerTrue(load[c])
    /\ ~Busy(c) => load[c] = NoLoad
    /\ pc[c] \in {"storing", "applying"} => AnswerComplete(load[c])

(* The inductive invariant: ComputedTruthful needs to know what a load that *)
(* is under way has read and been told, and CacheTruthful that no computed  *)
(* value comes from elsewhere.                                              *)
IInv == Types /\ CacheTrue /\ LoadTrue /\ ComputedTruthful

-----------------------------------------------------------------------------
(* The facts about the constants that the proofs use.                       *)
LEMMA Constants ==
  /\ S2Docs \subseteq Docs
  /\ S2Fields \cap ComputedFields = {}
  /\ S2Fields \subseteq Fields /\ ComputedFields \subseteq Fields
  /\ \A d \in Docs, f \in Fields : Truth[d][f] \in {"loaded", "none"}
BY LoadingAssumption DEF Fields

LEMMA EmptyTable == [d \in {} |-> {}] \in Tables
<1>1. [d \in {} |-> {}] \in [{} -> Rows]
  OBVIOUS
<1>2. {} \in SUBSET Docs
  OBVIOUS
<1> QED BY <1>1, <1>2 DEF Tables

LEMMA TableOf ==
  ASSUME NEW D \in SUBSET Docs, NEW R \in SUBSET Fields, NEW T,
         T \in [D -> [R -> Entries \cup {"none", "error"}]]
  PROVE  T \in Tables
<1>1. [R -> Entries \cup {"none", "error"}] \subseteq Rows
  BY DEF Rows
<1>2. T \in [D -> Rows]
  BY <1>1
<1> QED BY <1>2 DEF Tables

LEMMA NoLoadType == NoLoad \in Loads
BY EmptyTable DEF NoLoad, Loads

-----------------------------------------------------------------------------
(* Init => IInv *)
LEMMA InitInv == Init => IInv
<1> SUFFICES ASSUME Init PROVE IInv
  OBVIOUS
<1>1. Types
  BY NoLoadType, LoadingAssumption DEF Init, Types, Entries
<1>2. CacheTrue
  BY DEF Init, CacheTrue, True
<1>3. LoadTrue
  BY DEF Init, LoadTrue, Busy
<1>4. ComputedTruthful
  <2> SUFFICES ASSUME NEW c \in Collections, NEW d \in Docs, NEW f \in ComputedFields
               PROVE  doc[c][d][f] \in {"unloaded", Truth[d][f]}
    BY DEF ComputedTruthful
  <2>1. doc[c] \in Fetched
    BY DEF Init
  <2> QED BY <2>1, LoadingAssumption
<1> QED BY <1>1, <1>2, <1>3, <1>4 DEF IInv

-----------------------------------------------------------------------------
(* One lemma per action.  Those that leave loads and documents alone need   *)
(* only the cache.                                                          *)
LEMMA CacheStep ==
  ASSUME IInv, UNCHANGED <<doc, load>>, cache' \in [Docs -> [Fields -> Entries]], CacheTrue',
         pc' \in [Collections -> {"new", "idle", "asking", "storing", "applying"}],
         \A c \in Collections :
           /\ Busy(c)' <=> Busy(c)
           /\ pc'[c] \in {"storing", "applying"} => pc[c] \in {"storing", "applying"}
  PROVE  IInv'
<1>1. Types'
  BY DEF IInv, Types
<1>2. LoadTrue'
  BY DEF IInv, LoadTrue
<1>3. ComputedTruthful'
  BY DEF IInv, ComputedTruthful
<1> QED BY <1>1, <1>2, <1>3 DEF IInv

LEMMA PutInv ==
  ASSUME IInv, NEW c \in Collections, Put(c)
  PROVE  IInv'
<1>1. \A d \in Docs, f \in Fields :
        cache'[d][f] = IF Enabled /\ Offered(c, d, f) THEN "fetched" ELSE cache[d][f]
  BY DEF Put, Offered, IInv, Types
<1>2. cache' \in [Docs -> [Fields -> Entries]]
  BY DEF Put, Offered, IInv, Types, Entries, Values
<1>3. CacheTrue'
  BY <1>1 DEF IInv, CacheTrue, True, Offered
<1>4. \A b \in Collections : /\ Busy(b)' <=> Busy(b)
                             /\ pc'[b] \in {"storing", "applying"} => pc[b] \in {"storing", "applying"}
  BY DEF Put, Busy, IInv, Types
<1> QED BY <1>2, <1>3, <1>4, CacheStep DEF Put, IInv, Types

LEMMA NoPutInv ==
  ASSUME IInv, NEW c \in Collections, NoPut(c)
  PROVE  IInv'
<1>1. \A b \in Collections : /\ Busy(b)' <=> Busy(b)
                             /\ pc'[b] \in {"storing", "applying"} => pc[b] \in {"storing", "applying"}
  BY DEF NoPut, Busy, IInv, Types
<1> QED BY <1>1, CacheStep DEF NoPut, IInv, Types, CacheTrue

LEMMA ExpireInv ==
  ASSUME IInv, NEW e \in Docs, NEW g \in Fields, Expire(e, g)
  PROVE  IInv'
<1>1. \A d \in Docs, f \in Fields :
        cache'[d][f] = IF d = e /\ f = g THEN "absent" ELSE cache[d][f]
  BY DEF Expire, IInv, Types
<1>2. cache' \in [Docs -> [Fields -> Entries]]
  BY DEF Expire, IInv, Types, Entries
<1>3. CacheTrue'
  BY <1>1 DEF IInv, CacheTrue, True
<1> QED BY <1>2, <1>3, CacheStep DEF Expire, IInv, Types, Busy

(* What store writes is true, as only the truth was answered.               *)
LEMMA StoreInv ==
  ASSUME IInv, NEW c \in Collections, Store(c)
  PROVE  IInv'
<1> DEFINE l == load[c]
<1>1. AnswerTrue(l) /\ l.askFields \subseteq Fields
  <2>1. Busy(c)
    BY DEF Store, Busy
  <2>2. l \in Loads
    BY DEF IInv, Types
  <2> QED BY <2>1, <2>2 DEF IInv, LoadTrue, Loads
<1>2. \A d \in Docs, f \in Fields :
        cache'[d][f] = IF d \in DOMAIN l.answer /\ f \in l.askFields
                       THEN Stored(cache[d][f], l.answer[d][f]) ELSE cache[d][f]
  BY DEF Store
<1>3. \A d \in Docs, f \in Fields :
        cache'[d][f] \in Entries /\ True(cache'[d][f], d, f)
  <2> SUFFICES ASSUME NEW d \in Docs, NEW f \in Fields
               PROVE  cache'[d][f] \in Entries /\ True(cache'[d][f], d, f)
    OBVIOUS
  <2>1. cache[d][f] \in Entries /\ True(cache[d][f], d, f)
    BY DEF IInv, Types, CacheTrue
  <2>2. CASE d \in DOMAIN l.answer /\ f \in l.askFields
    <3>1. l.answer[d][f] = Truth[d][f] \/ l.answer[d][f] = "error"
      BY <2>2, <1>1 DEF AnswerTrue
    <3>2. Truth[d][f] \in {"loaded", "none"}
      BY Constants
    <3> QED BY <1>2, <2>1, <2>2, <3>1, <3>2 DEF Stored, True, Entries, Values
  <2> QED BY <1>2, <2>1, <2>2
<1>4. cache' \in [Docs -> [Fields -> Entries]]
  BY <1>3 DEF Store
<1>5. CacheTrue'
  BY <1>3 DEF CacheTrue, True
<1>6. \A b \in Collections : /\ Busy(b)' <=> Busy(b)
                             /\ pc'[b] \in {"storing", "applying"} => pc[b] \in {"storing", "applying"}
  BY DEF Store, Busy, IInv, Types
<1> QED BY <1>4, <1>5, <1>6, CacheStep DEF Store, IInv, Types

(* A step of one load, which leaves the cache and the documents alone.      *)
LEMMA LoadStep ==
  ASSUME IInv, NEW c \in Collections, UNCHANGED <<doc, cache>>,
         NEW l \in Loads, load' = [load EXCEPT ![c] = l],
         NEW p \in {"idle", "asking", "storing", "applying"}, pc' = [pc EXCEPT ![c] = p],
         IF p = "idle" THEN l = NoLoad
         ELSE /\ OneLoader(l) /\ HitsTrue(l) /\ AnswerTrue(l)
              /\ p # "asking" => AnswerComplete(l)
  PROVE  IInv'
<1>1. Types'
  BY DEF IInv, Types
<1>2. LoadTrue'
  <2> SUFFICES ASSUME NEW b \in Collections
               PROVE  /\ Busy(b)' => /\ OneLoader(load'[b]) /\ HitsTrue(load'[b])
                                     /\ AnswerTrue(load'[b])
                      /\ ~Busy(b)' => load'[b] = NoLoad
                      /\ pc'[b] \in {"storing", "applying"} => AnswerComplete(load'[b])
    BY DEF LoadTrue
  <2>1. CASE b = c
    BY <2>1 DEF IInv, Types, Busy
  <2>2. CASE b # c
    BY <2>2 DEF IInv, Types, LoadTrue, Busy
  <2> QED BY <2>1, <2>2
<1>3. CacheTrue' /\ ComputedTruthful'
  BY DEF IInv, CacheTrue, ComputedTruthful
<1> QED BY <1>1, <1>2, <1>3 DEF IInv

LEMMA RaiseInv ==
  ASSUME IInv, NEW c \in Collections, Raise(c)
  PROVE  IInv'
BY LoadStep, NoLoadType DEF Raise

LEMMA RequestsAre ==
  ASSUME NEW req \in Requests
  PROVE  /\ req \subseteq Fields
         /\ req \subseteq S2Fields \/ \E f \in ComputedFields : req = {f}
BY Constants DEF Requests

LEMMA StartLoadInv ==
  ASSUME IInv, NEW c \in Collections, StartLoad(c)
  PROVE  IInv'
<1>1. PICK req \in Requests :
        LET lookup == Lookup(req, NeedingLoader(c, req))
        IN /\ load' = [load EXCEPT ![c] = lookup]
           /\ pc' = [pc EXCEPT ![c] = IF lookup.ask = {} THEN "applying" ELSE "asking"]
  BY DEF StartLoad
<1> DEFINE needing    == NeedingLoader(c, req)
           missing(d) == {f \in req : cache[d][f] = "absent"}
           l          == Lookup(req, needing)
           p          == IF l.ask = {} THEN "applying" ELSE "asking"
<1>2. req \subseteq Fields /\ (req \subseteq S2Fields \/ \E f \in ComputedFields : req = {f})
  BY RequestsAre
<1>3. /\ l.req = req /\ l.needing = needing /\ l.answer = [d \in {} |-> {}]
      /\ l.hits = [d \in needing |-> [f \in req |-> cache[d][f]]]
      /\ l.ask = {d \in needing : missing(d) # {}}
      /\ l.askFields = UNION {missing(d) : d \in l.ask}
  BY DEF Lookup
<1>4. needing \subseteq Docs
  BY DEF NeedingLoader
<1>5. l \in Loads
  <2>1. l.hits \in Tables
    <3>1. l.hits \in [needing -> [req -> Entries \cup {"none", "error"}]]
      BY <1>2, <1>3, <1>4 DEF IInv, Types
    <3>2. needing \in SUBSET Docs /\ req \in SUBSET Fields
      BY <1>2, <1>4
    <3> HIDE DEF needing, l
    <3> QED BY <3>1, <3>2, TableOf
  <2>2. l.ask \subseteq Docs /\ l.askFields \subseteq Fields
    BY <1>2, <1>3, <1>4
  <2>3. l.answer \in Tables
    BY <1>3, EmptyTable
  <2> QED BY <1>2, <1>4, <2>1, <2>2, <2>3 DEF Loads, Lookup
<1>6. HitsTrue(l)
  <2>1. l.ask \subseteq l.needing /\ l.askFields \subseteq l.req
    BY <1>3
  <2>2. ASSUME NEW d \in l.needing, NEW f \in l.req
        PROVE  /\ l.hits[d][f] \in Entries
               /\ True(l.hits[d][f], d, f)
               /\ l.hits[d][f] = "absent" => d \in l.ask /\ f \in l.askFields
    <3>1. d \in Docs /\ f \in Fields /\ d \in needing /\ f \in req
      BY <1>2, <1>3, <1>4
    <3>2. l.hits[d][f] = cache[d][f]
      BY <1>3, <3>1
    <3>3. cache[d][f] \in Entries /\ True(cache[d][f], d, f)
      BY <3>1 DEF IInv, Types, CacheTrue
    <3>4. cache[d][f] = "absent" => f \in missing(d)
      BY <3>1
    <3> QED BY <1>3, <3>1, <3>2, <3>3, <3>4
  <2>3. \A d \in l.ask : \E f \in l.req : l.hits[d][f] = "absent"
    BY <1>3
  <2> QED BY <2>1, <2>2, <2>3 DEF HitsTrue
<1>7. OneLoader(l) /\ AnswerTrue(l)
  BY <1>2, <1>3 DEF OneLoader, AnswerTrue
<1>8. p # "asking" => AnswerComplete(l)
  BY <1>3 DEF AnswerComplete
<1>9. load' = [load EXCEPT ![c] = l] /\ pc' = [pc EXCEPT ![c] = p] /\ UNCHANGED <<doc, cache>>
  BY <1>1 DEF StartLoad
<1>10. p \in {"idle", "asking", "storing", "applying"} /\ p # "idle"
  OBVIOUS
<1> HIDE DEF l, p
<1> QED BY <1>5, <1>6, <1>7, <1>8, <1>9, <1>10, LoadStep

(* Whatever a loader answers is the truth about the fields it was asked for.*)
LEMMA AnswersTrue ==
  ASSUME NEW l \in Loads, OneLoader(l), HitsTrue(l), NEW answer \in Answers(l)
  PROVE  /\ answer \in Tables
         /\ AnswerTrue([l EXCEPT !.answer = answer])
         /\ AnswerComplete([l EXCEPT !.answer = answer])
<1> DEFINE m == [l EXCEPT !.answer = answer]
<1>1. /\ m.req = l.req /\ m.ask = l.ask /\ m.askFields = l.askFields /\ m.answer = answer
      /\ l.ask \subseteq Docs /\ l.req \subseteq Fields /\ l.askFields \subseteq l.req
  BY DEF Loads, HitsTrue
<1>2. CASE l.req \subseteq S2Fields
  <2>1. PICK found \in SUBSET (l.ask \cap S2Docs) :
          answer = [d \in found |-> [f \in S2Fields |->
                      IF f \in l.askFields THEN Truth[d][f] ELSE "none"]]
    BY <1>2 DEF Answers, S2Answers
  <2>2. answer \in Tables
    <3>1. answer \in [found -> [S2Fields -> Entries \cup {"none", "error"}]]
      BY <1>1, <2>1, Constants DEF Entries, Values
    <3>2. found \in SUBSET Docs /\ S2Fields \in SUBSET Fields
      BY <1>1, <2>1, Constants
    <3> QED BY <3>1, <3>2, TableOf
  <2>3. AnswerTrue(m)
    BY <1>1, <1>2, <2>1 DEF AnswerTrue
  <2>4. AnswerComplete(m)
    BY <1>1, <1>2, Constants DEF AnswerComplete
  <2> QED BY <2>2, <2>3, <2>4
<1>3. CASE ~(l.req \subseteq S2Fields)
  <2>1. PICK failed \in SUBSET l.ask :
          answer = [d \in l.ask |-> [f \in l.req |->
                      IF d \in failed THEN "error" ELSE Truth[d][f]]]
    BY <1>3 DEF Answers, ComputedAnswers
  <2>2. answer \in Tables
    <3>1. answer \in [l.ask -> [l.req -> Entries \cup {"none", "error"}]]
      BY <1>1, <2>1, Constants DEF Entries, Values
    <3>2. l.ask \in SUBSET Docs /\ l.req \in SUBSET Fields
      BY <1>1
    <3> QED BY <3>1, <3>2, TableOf
  <2>3. \A f \in l.req : f \in ComputedFields
    BY <1>3 DEF OneLoader
  <2>4. AnswerTrue(m)
    BY <1>1, <2>1, <2>3 DEF AnswerTrue
  <2>5. AnswerComplete(m)
    BY <1>1, <2>1 DEF AnswerComplete
  <2> QED BY <2>2, <2>4, <2>5
<1> QED BY <1>2, <1>3

LEMMA AnswerInv ==
  ASSUME IInv, NEW c \in Collections, Answer(c)
  PROVE  IInv'
<1> DEFINE l == load[c]
<1>1. l \in Loads /\ OneLoader(l) /\ HitsTrue(l)
  BY DEF Answer, IInv, Types, LoadTrue, Busy
<1>2. PICK answer \in Answers(l) :
        /\ load' = [load EXCEPT ![c].answer = answer]
        /\ pc' = [pc EXCEPT ![c] = IF DOMAIN answer = {} THEN "applying" ELSE "storing"]
  BY DEF Answer
<1> DEFINE m == [l EXCEPT !.answer = answer]
           p == IF DOMAIN answer = {} THEN "applying" ELSE "storing"
<1> HIDE DEF l
<1>3. answer \in Tables /\ AnswerTrue(m) /\ AnswerComplete(m)
  BY <1>1, <1>2, AnswersTrue
<1>4. m \in Loads /\ OneLoader(m) /\ HitsTrue(m)
  <2>1. m \in Loads
    BY <1>1, <1>3 DEF Loads
  <2>2. /\ m.req = l.req /\ m.needing = l.needing /\ m.hits = l.hits
        /\ m.ask = l.ask /\ m.askFields = l.askFields
    BY <1>1 DEF Loads
  <2> HIDE DEF m
  <2> QED BY <1>1, <2>1, <2>2 DEF OneLoader, HitsTrue
<1>5. load' = [load EXCEPT ![c] = m] /\ pc' = [pc EXCEPT ![c] = p] /\ UNCHANGED <<doc, cache>>
  BY <1>2 DEF Answer, l
<1>6. p \in {"idle", "asking", "storing", "applying"} /\ p # "idle"
  OBVIOUS
<1> HIDE DEF m, p
<1> QED BY <1>3, <1>4, <1>5, <1>6, LoadStep

-----------------------------------------------------------------------------
(* What a load assigns.                                                     *)
LEMMA AssignedValues ==
  ASSUME IInv, NEW c \in Collections, pc[c] = "applying",
         NEW d \in load[c].needing, NEW f \in load[c].req
  PROVE  /\ Assigned(load[c], d, f) \in {"unloaded", "none"} \cup Values
         /\ f \in ComputedFields => Assigned(load[c], d, f) \in {"unloaded", Truth[d][f]}
         /\ load[c].hits[d][f] \in Values => Assigned(load[c], d, f) \in Values
<1> DEFINE l == load[c]
<1>1. l \in Loads /\ OneLoader(l) /\ HitsTrue(l) /\ AnswerTrue(l) /\ AnswerComplete(l)
  BY DEF IInv, Types, LoadTrue, Busy
<1>2. d \in Docs /\ f \in Fields
  BY <1>1 DEF Loads
<1>3. Truth[d][f] \in {"loaded", "none"} /\ S2Fields \cap ComputedFields = {}
  BY <1>2, Constants
<1>4. /\ l.hits[d][f] \in Entries /\ True(l.hits[d][f], d, f)
      /\ l.hits[d][f] = "absent" => d \in l.ask /\ f \in l.askFields
  BY <1>1 DEF HitsTrue
<1> HIDE DEF l
<1>5. CASE Answered(l, d, f) /\ l.answer[d][f] = "error"
  <2>1. f \in ComputedFields
    BY <1>1, <1>3, <1>5 DEF Answered, AnswerTrue
  <2>2. l.req = {f} /\ d \in l.ask
    BY <1>1, <1>3, <1>5, <2>1 DEF Answered, AnswerTrue, OneLoader, l
  <2>3. l.hits[d][f] = "absent"
    BY <1>1, <2>2 DEF HitsTrue
  <2> QED BY <1>5, <2>3 DEF Assigned, Loaded, Values, l
<1>6. CASE Answered(l, d, f) /\ l.answer[d][f] = Truth[d][f] /\ Truth[d][f] = "loaded"
  BY <1>6 DEF Assigned, Loaded, Values, l
<1>7. CASE ~Answered(l, d, f) \/ l.answer[d][f] = "none"
  <2>1. Assigned(l, d, f) = Cached(l, d, f)
    BY <1>4, <1>7 DEF Assigned, Loaded, Cached, Entries, Values
  <2>2. f \in ComputedFields => Cached(l, d, f) = Truth[d][f]
    <3> SUFFICES ASSUME f \in ComputedFields PROVE Cached(l, d, f) = Truth[d][f]
      OBVIOUS
    <3>1. CASE Answered(l, d, f)
      <4>1. l.answer[d][f] = Truth[d][f]
        BY <1>1, <1>7, <3>1 DEF Answered, AnswerTrue
      <4> QED BY <1>3, <1>4, <1>7, <3>1, <4>1 DEF Cached, True, Entries, Values
    <3>2. CASE ~Answered(l, d, f)
      <4>1. d \in l.ask => d \in DOMAIN l.answer
        BY <1>1 DEF AnswerComplete, l
      <4>2. l.hits[d][f] # "absent"
        BY <1>4, <3>2, <4>1 DEF Answered
      <4> QED BY <1>3, <1>4, <4>2 DEF Cached, True, Entries, Values
    <3> QED BY <3>1, <3>2
  <2> QED BY <1>4, <2>1, <2>2 DEF Cached, Entries, Values, l
<1>8. Answered(l, d, f) => l.answer[d][f] = Truth[d][f] \/ l.answer[d][f] = "error"
  BY <1>1 DEF Answered, AnswerTrue
<1> QED BY <1>3, <1>5, <1>6, <1>7, <1>8

LEMMA ApplyInv ==
  ASSUME IInv, NEW c \in Collections, Apply(c)
  PROVE  IInv'
<1> DEFINE l == load[c]
<1>1. \A b \in Collections, d \in Docs, f \in Fields :
        doc'[b][d][f] = IF b = c /\ d \in l.needing /\ f \in l.req THEN Assigned(l, d, f)
                        ELSE doc[b][d][f]
  BY DEF Apply, IInv, Types
<1>2. \A b \in Collections, d \in Docs, f \in Fields :
        /\ doc'[b][d][f] \in {"unloaded", "none"} \cup Values
        /\ f \in ComputedFields => doc'[b][d][f] \in {"unloaded", Truth[d][f]}
  <2> SUFFICES ASSUME NEW b \in Collections, NEW d \in Docs, NEW f \in Fields
               PROVE  /\ doc'[b][d][f] \in {"unloaded", "none"} \cup Values
                      /\ f \in ComputedFields => doc'[b][d][f] \in {"unloaded", Truth[d][f]}
    OBVIOUS
  <2>1. CASE b = c /\ d \in l.needing /\ f \in l.req
    BY <1>1, <2>1, AssignedValues DEF Apply
  <2>2. CASE ~(b = c /\ d \in l.needing /\ f \in l.req)
    BY <1>1, <2>2 DEF IInv, Types, ComputedTruthful
  <2> QED BY <2>1, <2>2
<1>3. doc' \in [Collections -> [Docs -> [Fields -> {"unloaded", "none"} \cup Values]]]
  <2> DEFINE row == [d \in Docs |-> [f \in Fields |->
                       IF d \in l.needing /\ f \in l.req THEN Assigned(l, d, f) ELSE doc[c][d][f]]]
  <2>1. doc' = [doc EXCEPT ![c] = row]
    BY DEF Apply
  <2>2. doc'[c] = row
    BY <2>1 DEF IInv, Types
  <2>3. \A d \in Docs, f \in Fields : row[d][f] \in {"unloaded", "none"} \cup Values
    BY <1>2, <2>2
  <2>4. row \in [Docs -> [Fields -> {"unloaded", "none"} \cup Values]]
    BY <2>3
  <2> HIDE DEF row
  <2> QED BY <2>1, <2>4 DEF IInv, Types
<1>4. Types'
  BY <1>3, NoLoadType DEF Apply, IInv, Types
<1>5. LoadTrue'
  <2> SUFFICES ASSUME NEW b \in Collections
               PROVE  /\ Busy(b)' => /\ OneLoader(load'[b]) /\ HitsTrue(load'[b])
                                     /\ AnswerTrue(load'[b])
                      /\ ~Busy(b)' => load'[b] = NoLoad
                      /\ pc'[b] \in {"storing", "applying"} => AnswerComplete(load'[b])
    BY DEF LoadTrue
  <2>1. CASE b = c
    BY <2>1 DEF Apply, IInv, Types, Busy
  <2>2. CASE b # c
    BY <2>2 DEF Apply, IInv, Types, LoadTrue, Busy
  <2> QED BY <2>1, <2>2
<1>6. CacheTrue'
  BY DEF Apply, IInv, CacheTrue
<1>7. ComputedTruthful'
  BY <1>2, Constants DEF ComputedTruthful
<1> QED BY <1>4, <1>5, <1>6, <1>7 DEF IInv

-----------------------------------------------------------------------------
(* IInv /\ [Next]_vars => IInv' *)
LEMMA NextInv == IInv /\ [Next]_vars => IInv'
<1> SUFFICES ASSUME IInv, [Next]_vars PROVE IInv'
  OBVIOUS
<1>1. ASSUME NEW c \in Collections,
             \/ Put(c) \/ NoPut(c) \/ StartLoad(c) \/ Answer(c)
             \/ Raise(c) \/ Store(c) \/ Apply(c)
      PROVE  IInv'
  BY <1>1, PutInv, NoPutInv, StartLoadInv, AnswerInv, RaiseInv, StoreInv, ApplyInv
<1>2. ASSUME NEW d \in Docs, NEW f \in Fields, Expire(d, f) PROVE IInv'
  BY <1>2, ExpireInv
<1>3. CASE UNCHANGED vars
  BY <1>3, CacheStep DEF vars, IInv, Types, Busy, CacheTrue
<1> QED BY <1>1, <1>2, <1>3 DEF Next

LEMMA Invariance == Spec => []IInv
BY InitInv, NextInv, PTL DEF Spec

-----------------------------------------------------------------------------
(* The types, which TypeOK states of the parts of a load.                   *)
THEOREM TypeCorrect == Spec => []TypeOK
<1>1. IInv => TypeOK
  <2> SUFFICES ASSUME IInv PROVE TypeOK
    OBVIOUS
  <2>1. ASSUME NEW c \in Collections
        PROVE  /\ load[c].needing \subseteq Docs
               /\ load[c].ask \subseteq load[c].needing
               /\ load[c].askFields \subseteq load[c].req
               /\ DOMAIN load[c].answer \subseteq load[c].ask
    <3>1. CASE Busy(c)
      BY <3>1 DEF IInv, Types, Loads, LoadTrue, HitsTrue, AnswerTrue
    <3>2. CASE ~Busy(c)
      BY <3>2 DEF IInv, LoadTrue, NoLoad
    <3> QED BY <3>1, <3>2
  <2> QED BY <2>1 DEF IInv, Types, Entries, TypeOK
<1> QED BY <1>1, Invariance, PTL

(* What the cache and the documents hold is what the loaders say: "no       *)
(* value" is recorded only where a loader, asked, has none, and a           *)
(* computation that failed is never remembered (cache.py:180-203).          *)
THEOREM OnlyTheTruth == Spec => []ValuesTruthful
<1>1. IInv => ValuesTruthful
  BY DEF IInv, CacheTrue, True, ValuesTruthful, CacheTruthful
<1> QED BY <1>1, Invariance, PTL

(* A value in the cache is never replaced by the marker that says there is  *)
(* none, whichever loads and put() race on its key (cache.py:199).          *)
THEOREM ValuesKept == Spec => KnownValueKept
<1>1. ASSUME IInv, [Next]_vars, NEW d \in Docs, NEW f \in Fields, cache[d][f] \in Values
      PROVE  cache'[d][f] # "notset"
  <2>1. ASSUME NEW c \in Collections, Put(c) PROVE cache'[d][f] # "notset"
    BY <1>1, <2>1 DEF Put, Offered, Values
  <2>2. ASSUME NEW c \in Collections, Store(c) PROVE cache'[d][f] # "notset"
    <3>1. AnswerTrue(load[c])
      BY <1>1, <2>2 DEF Store, IInv, LoadTrue, Busy
    <3>2. CASE d \in DOMAIN load[c].answer /\ f \in load[c].askFields
      <4>1. load[c].answer[d][f] \in {"loaded", "none", "error"}
        BY <3>1, <3>2, Constants DEF AnswerTrue
      <4>2. Stored(cache[d][f], load[c].answer[d][f]) # "notset"
        BY <1>1, <4>1 DEF Stored, Values
      <4> QED BY <2>2, <3>2, <4>2 DEF Store
    <3>3. CASE ~(d \in DOMAIN load[c].answer /\ f \in load[c].askFields)
      BY <1>1, <2>2, <3>3 DEF Store, Values
    <3> QED BY <3>2, <3>3
  <2>3. ASSUME NEW e \in Docs, NEW g \in Fields, Expire(e, g) PROVE cache'[d][f] # "notset"
    BY <1>1, <2>3 DEF Expire, Values, IInv, Types
  <2>4. CASE UNCHANGED cache
    BY <1>1, <2>4 DEF Values
  <2> QED BY <1>1, <2>1, <2>2, <2>3, <2>4
           DEF Next, NoPut, StartLoad, Answer, Raise, Apply, vars
<1>2. IInv /\ [Next]_vars
        => [\A d \in Docs, f \in Fields : cache[d][f] \in Values => cache'[d][f] # "notset"]_vars
  BY <1>1
<1> QED BY <1>2, Invariance, PTL DEF Spec, KnownValueKept

(* A value that a load found in the cache reaches the document, whatever    *)
(* the answer to a second question about it is (cache.py:103).              *)
THEOREM CachedServed == Spec => CachedValueServed
<1>1. ASSUME IInv, [Next]_vars, NEW c \in Collections, NEW d \in load[c].needing,
             NEW f \in load[c].req, pc[c] = "applying", pc'[c] = "idle",
             load[c].hits[d][f] \in Values
      PROVE  doc'[c][d][f] \in Values
  <2>1. Apply(c)
    <3>1. ASSUME NEW b \in Collections,
                 Put(b) \/ NoPut(b) \/ StartLoad(b) \/ Answer(b) \/ Raise(b) \/ Store(b)
          PROVE  ~(pc[c] = "applying" /\ pc'[c] = "idle")
      BY <1>1, <3>1 DEF Put, NoPut, StartLoad, Answer, Raise, Store, IInv, Types
    <3>2. ASSUME NEW b \in Collections, Apply(b), b # c PROVE pc'[c] = pc[c]
      BY <1>1, <3>2 DEF Apply, IInv, Types
    <3>3. ASSUME NEW e \in Docs, NEW g \in Fields, Expire(e, g) PROVE pc'[c] = pc[c]
      BY <3>3 DEF Expire
    <3>4. CASE UNCHANGED vars
      BY <1>1, <3>4 DEF vars
    <3> QED BY <1>1, <3>1, <3>2, <3>3, <3>4 DEF Next
  <2>2. d \in Docs /\ f \in Fields
    BY <1>1 DEF IInv, Types, Loads
  <2>3. doc'[c][d][f] = Assigned(load[c], d, f)
    BY <1>1, <2>1, <2>2 DEF Apply, IInv, Types
  <2> QED BY <1>1, <2>3, AssignedValues
<1>2. IInv /\ [Next]_vars
        => [\A c \in Collections : \A d \in load[c].needing, f \in load[c].req :
              (pc[c] = "applying" /\ pc'[c] = "idle" /\ load[c].hits[d][f] \in Values)
                 => doc'[c][d][f] \in Values]_vars
  BY <1>1
<1> QED BY <1>2, Invariance, PTL DEF Spec, CachedValueServed

===============================================================================
