---------------------------- MODULE DocumentLoading ----------------------------
(***************************************************************************)
(* How the fields of documents are loaded: load_many of a collection       *)
(* (libs/dcollection, collection.py), the cache its loaders go through     *)
(* (caching/cache.py) and what comes back from a loader (loaders/s2_rest.py *)
(* for the fields of Semantic Scholar, a computation for a computed field). *)
(*                                                                         *)
(* One step runs from one suspension to the next.  A call of the in-memory *)
(* aiocache does not suspend, so reading all the keys of a load is one     *)
(* step, and so is storing its answer: the two tasks of the gather in      *)
(* _cache_fetched_data run back to back.  The collections, one per agent,  *)
(* have documents of their own and share the cache.  `cache.enabled` in    *)
(* load_many is a method that is not called, so a load always goes through *)
(* the cache; only put() looks at the switch.                              *)
(***************************************************************************)
EXTENDS Naturals, FiniteSets

CONSTANTS Collections,    \* the collections that load fields concurrently
          Docs,           \* corpus ids, the same in every collection
          S2Docs,         \* those with a numeric id, known to Semantic Scholar
          S2Fields,       \* the fields whose loader is from_s2
          ComputedFields, \* the fields with a loader of their own
          Enabled,        \* cache.is_enabled
          Fetched,        \* the documents a collection may start with
          Truth           \* what the loader of a field has to say of a document

Fields == S2Fields \cup ComputedFields

(* "unloaded" and "none" are states of a field of a document, "absent" and  *)
(* "notset" of a key of the cache; "fetched" is a value the document came   *)
(* with, "loaded" one its loader gave.                                      *)
Values == {"fetched", "loaded"}

ASSUME LoadingAssumption ==
  /\ S2Docs \subseteq Docs
  /\ S2Fields \cap ComputedFields = {}
  /\ Enabled \in BOOLEAN
  /\ Truth \in [Docs -> [Fields -> {"loaded", "none"}]]
  /\ Fetched \subseteq [Docs -> [Fields -> {"unloaded", "none"} \cup Values]]
  /\ \A fetched \in Fetched, d \in Docs, f \in ComputedFields :
       fetched[d][f] \in {"unloaded", Truth[d][f]}

VARIABLES doc,    \* doc[c][d][f]: field f of document d of collection c
          cache,  \* cache[d][f]: the entry of the shared cache
          pc,     \* where the load of each collection is
          load    \* its local variables

vars == <<doc, cache, pc, load>>

NoLoad == [req |-> {}, needing |-> {}, hits |-> [d \in {} |-> {}],
           ask |-> {}, askFields |-> {}, answer |-> [d \in {} |-> {}]]

Init ==
  /\ doc \in [Collections -> Fetched]
  /\ cache = [d \in Docs |-> [f \in Fields |-> "absent"]]
  /\ pc = [c \in Collections |-> "new"]
  /\ load = [c \in Collections |-> NoLoad]

-----------------------------------------------------------------------------
(* from_dense_retrieval: put() offers the cache the values that came with   *)
(* the documents, when the cache is enabled.  Other fetchers do not.        *)
Offered(c, d, f) == d \in S2Docs /\ f \in S2Fields /\ doc[c][d][f] = "fetched"

Put(c) ==
  /\ pc[c] = "new"
  /\ pc' = [pc EXCEPT ![c] = "idle"]
  /\ cache' = IF Enabled
              THEN [d \in Docs |-> [f \in Fields |->
                      IF Offered(c, d, f) THEN doc[c][d][f] ELSE cache[d][f]]]
              ELSE cache
  /\ UNCHANGED <<doc, load>>

NoPut(c) ==
  /\ pc[c] = "new"
  /\ pc' = [pc EXCEPT ![c] = "idle"]
  /\ UNCHANGED <<doc, cache, load>>

-----------------------------------------------------------------------------
(* The fields of one loader: some of Semantic Scholar's, or a computed one. *)
Requests == (SUBSET S2Fields \ {{}}) \cup {{f} : f \in ComputedFields}

(* entities_needing_this_loader                                             *)
NeedingLoader(c, req) == {d \in Docs : \E f \in req : doc[c][d][f] = "unloaded"}

(* _process_cache_results: what is read, which documents and which fields   *)
(* must be asked for.  A field one document lacks is asked for all of them. *)
Lookup(req, needing) ==
  LET missing(d) == {f \in req : cache[d][f] = "absent"}
      ask == {d \in needing : missing(d) # {}}
  IN [req |-> req, needing |-> needing,
      hits |-> [d \in needing |-> [f \in req |-> cache[d][f]]],
      ask |-> ask, askFields |-> UNION {missing(d) : d \in ask},
      answer |-> [d \in {} |-> {}]]

StartLoad(c) ==
  /\ pc[c] = "idle"
  /\ \E req \in Requests :
       LET lookup == Lookup(req, NeedingLoader(c, req))
       IN /\ lookup.needing # {}
          /\ load' = [load EXCEPT ![c] = lookup]
          /\ pc' = [pc EXCEPT ![c] = IF lookup.ask = {} THEN "applying" ELSE "asking"]
  /\ UNCHANGED <<doc, cache>>

(* The answers a loader may give: from_s2 finds some of the documents it    *)
(* knows and sets every field of them, "none" where it was not asked; a     *)
(* computation answers for every document, with a value or with a           *)
(* DocLoadingError.                                                         *)
S2Answers(l) ==
  {[d \in found |-> [f \in S2Fields |-> IF f \in l.askFields THEN Truth[d][f] ELSE "none"]] :
     found \in SUBSET (l.ask \cap S2Docs)}

ComputedAnswers(l) ==
  {[d \in l.ask |-> [f \in l.req |-> IF d \in failed THEN "error" ELSE Truth[d][f]]] :
     failed \in SUBSET l.ask}

Answers(l) == IF l.req \subseteq S2Fields THEN S2Answers(l) ELSE ComputedAnswers(l)

Answer(c) ==
  /\ pc[c] = "asking"
  /\ \E answer \in Answers(load[c]) :
       /\ load' = [load EXCEPT ![c].answer = answer]
       /\ pc' = [pc EXCEPT ![c] = IF DOMAIN answer = {} THEN "applying" ELSE "storing"]
  /\ UNCHANGED <<doc, cache>>

(* A loader raises: so does load_many, and no document has changed.         *)
Raise(c) ==
  /\ pc[c] = "asking"
  /\ pc' = [pc EXCEPT ![c] = "idle"]
  /\ load' = [load EXCEPT ![c] = NoLoad]
  /\ UNCHANGED <<doc, cache>>

(* _cache_assigned_values and _cache_none_values: an answer of "none" is    *)
(* recorded only where the cache has nothing.                               *)
Stored_Always(entry, value) ==      \* mutant: the marker is written unchecked
  CASE value = "error" -> entry
    [] value = "none"  -> "notset"
    [] OTHER           -> value

Stored(entry, value) ==
  CASE value = "error" -> entry
    [] value = "none"  -> IF entry = "absent" THEN "notset" ELSE entry
    [] OTHER           -> value

Store_EveryField(c) ==              \* mutant: fields not asked for are stored
  /\ pc[c] = "storing"
  /\ LET l == load[c]
     IN cache' = [d \in Docs |-> [f \in Fields |->
                    IF d \in DOMAIN l.answer /\ f \in DOMAIN l.answer[d]
                    THEN Stored(cache[d][f], l.answer[d][f]) ELSE cache[d][f]]]
  /\ pc' = [pc EXCEPT ![c] = "applying"]
  /\ UNCHANGED <<doc, load>>

Store(c) ==
  /\ pc[c] = "storing"
  /\ LET l == load[c]
     IN cache' = [d \in Docs |-> [f \in Fields |->
                    IF d \in DOMAIN l.answer /\ f \in l.askFields
                    THEN Stored(cache[d][f], l.answer[d][f]) ELSE cache[d][f]]]
  /\ pc' = [pc EXCEPT ![c] = "applying"]
  /\ UNCHANGED <<doc, load>>

-----------------------------------------------------------------------------
(* _apply_all_values on the clones: a hit first, then the answer unless it  *)
(* is "none" and the hit has set the field.  All clones are returned, also  *)
(* those the loader had nothing for, whose fields are None.                 *)
Cached(l, d, f) == IF l.hits[d][f] = "absent" \/ l.hits[d][f] = "notset"
                   THEN "none" ELSE l.hits[d][f]

Answered(l, d, f) == d \in DOMAIN l.answer /\ f \in l.askFields

Loaded_AnswerWins(l, d, f) ==       \* mutant: an answer of None replaces a hit
  IF Answered(l, d, f) THEN l.answer[d][f] ELSE Cached(l, d, f)

Loaded(l, d, f) ==
  IF Answered(l, d, f) /\ l.answer[d][f] # "none" THEN l.answer[d][f] ELSE Cached(l, d, f)

(* assign_loaded_values: an error clears the field.                         *)
Assigned_Unchecked(l, d, f) ==      \* mutant: a field that failed counts as loaded
  IF Loaded(l, d, f) = "error" THEN "none" ELSE Loaded(l, d, f)

Assigned(l, d, f) == IF Loaded(l, d, f) = "error" THEN "unloaded" ELSE Loaded(l, d, f)

Apply(c) ==
  /\ pc[c] = "applying"
  /\ LET l == load[c]
     IN doc' = [doc EXCEPT ![c] = [d \in Docs |-> [f \in Fields |->
                   IF d \in l.needing /\ f \in l.req THEN Assigned(l, d, f)
                                                     ELSE doc[c][d][f]]]]
  /\ pc' = [pc EXCEPT ![c] = "idle"]
  /\ load' = [load EXCEPT ![c] = NoLoad]
  /\ UNCHANGED cache

(* The time to live of an entry is over.                                    *)
Expire(d, f) ==
  /\ cache[d][f] # "absent"
  /\ cache' = [cache EXCEPT ![d][f] = "absent"]
  /\ UNCHANGED <<doc, pc, load>>

-----------------------------------------------------------------------------
Next ==
  \/ \E c \in Collections :
       \/ Put(c) \/ NoPut(c) \/ StartLoad(c) \/ Answer(c)
       \/ Raise(c) \/ Store(c) \/ Apply(c)
  \/ \E d \in Docs, f \in Fields : Expire(d, f)

Spec == Init /\ [][Next]_vars

-----------------------------------------------------------------------------
\* The types of the variables.
TypeOK ==
  /\ doc \in [Collections -> [Docs -> [Fields -> {"unloaded", "none"} \cup Values]]]
  /\ cache \in [Docs -> [Fields -> {"absent", "notset"} \cup Values]]
  /\ pc \in [Collections -> {"new", "idle", "asking", "storing", "applying"}]
  /\ \A c \in Collections :
       /\ load[c].needing \subseteq Docs
       /\ load[c].ask \subseteq load[c].needing
       /\ load[c].askFields \subseteq load[c].req
       /\ DOMAIN load[c].answer \subseteq load[c].ask

(* The cache agrees with the loaders, whoever filled it: "no value" is      *)
(* recorded only where the loader, asked, has none, although from_s2 leaves *)
(* the fields it was not asked for empty on the documents it returns, and   *)
(* nothing is recorded of a document it did not find or failed on.          *)
CacheTruthful ==
  \A d \in Docs, f \in Fields :
    /\ cache[d][f] = "notset" => Truth[d][f] = "none"
    /\ cache[d][f] = "loaded" => Truth[d][f] = "loaded"

(* Two loads and a put() race on a key: a value in the cache is never       *)
(* replaced by the marker that says there is none.                          *)
KnownValueKept ==
  [][\A d \in Docs, f \in Fields : cache[d][f] \in Values => cache'[d][f] # "notset"]_vars

(* A value found in the cache reaches the document, although the document   *)
(* is asked for again because it, or another one, lacks some other field,   *)
(* and whatever the second answer is.                                       *)
CachedValueServed ==
  [][\A c \in Collections : \A d \in load[c].needing, f \in load[c].req :
       (pc[c] = "applying" /\ pc'[c] = "idle" /\ load[c].hits[d][f] \in Values)
          => doc'[c][d][f] \in Values]_vars

(* A computed field holds what its computation says or is not loaded: a     *)
(* computation that failed, in this collection or in another one that       *)
(* shares the cache, is never remembered as an empty value.                 *)
ComputedTruthful ==
  \A c \in Collections, d \in Docs, f \in ComputedFields : doc[c][d][f] \in {"unloaded", Truth[d][f]}

(* What the cache and the documents hold is what the sources say, through   *)
(* races of two loads, expiry, partial answers and failures (cache.py and   *)
(* batch_computation_based_loader).                                         *)
ValuesTruthful == CacheTruthful /\ ComputedTruthful

(* loaders/s2_rest.py: "the load_many assign_loaded_values loop simply      *)
(* doesn't iterate over non-S2 ones, so their fields stay untouched on the  *)
(* originals."                                                              *)
OutsideDocsUntouched ==
  [][\A c \in Collections, d \in Docs \ S2Docs, f \in S2Fields :
       doc[c][d][f] \in Values => doc'[c][d][f] = doc[c][d][f]]_vars

=============================================================================
