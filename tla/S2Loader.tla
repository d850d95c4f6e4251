------------------------------- MODULE S2Loader -------------------------------
(***************************************************************************)
(* The loader that asks Semantic Scholar for fields of documents           *)
(* (from_s2): the documents with one of its ids are asked for in batches,  *)
(* as many at a time as the semaphore admits, and a batch is tried again   *)
(* as a whole.  The citations of papers that have many are asked for one   *)
(* paper after the other.  Semantic Scholar may answer with the paper that *)
(* replaces the one it was asked for; the ids it left out are therefore    *)
(* asked for once more, each by itself.                                    *)
(***************************************************************************)
EXTENDS Integers, Sequences, FiniteSets

CONSTANTS Requests,  \* loads: records with docs, a sequence of ids without
                     \* repetition, citations (BOOLEAN) and serial (BOOLEAN),
                     \* context.force_deterministic
          Current,   \* the paper that an id stands for now, or Unknown
          Foreign,   \* the ids that are not of Semantic Scholar
          Many,      \* the papers with many citations
          BatchSize, \* DEFAULT_BATCH_SIZE
          Concurrency, \* context.s2_max_concurrency
          Attempts   \* how often s2_retry tries

Unknown == 0

\* What replaces a paper is not replaced itself.
LoadsGiven ==
    /\ BatchSize \in Nat \ {0} /\ Concurrency \in Nat
    /\ Current \in [DOMAIN Current -> Nat] /\ DOMAIN Current \subseteq Nat \ {Unknown}
    /\ \A id \in DOMAIN Current :
           Current[id] \in DOMAIN Current => Current[Current[id]] = Current[id]
    /\ Requests \subseteq [docs : Seq(DOMAIN Current \cup Foreign),
                          citations : BOOLEAN, serial : BOOLEAN]
    /\ \A r \in Requests : \A i, j \in DOMAIN r.docs : r.docs[i] = r.docs[j] => i = j

VARIABLES request, batch, result

vars == <<request, batch, result>>

(***************************************************************************)
(* The batches                                                             *)
(***************************************************************************)
IsForeign(id) == id \in Foreign

\* The places of the documents that are asked for, and which of them is at i.
Entities == {i \in DOMAIN request.docs : ~IsForeign(request.docs[i])}
Rank(i)  == Cardinality({j \in Entities : j <= i})

CreateBatches ==
    [b \in 1 .. ((Cardinality(Entities) + BatchSize - 1) \div BatchSize) |->
        {request.docs[i] : i \in {j \in Entities : (Rank(j) - 1) \div BatchSize + 1 = b}}]

Ids(b) == CreateBatches[b]

NewBatch == [stage |-> "queued", tries |-> 0, papers |-> {}, cited |-> {}, waiting |-> {},
             docs |-> << >>, lost |-> {}]

Init ==
    /\ request \in Requests
    /\ batch = [b \in DOMAIN CreateBatches |-> NewBatch]
    /\ result = [state |-> "loading", docs |-> << >>]

AtWork  == {b \in DOMAIN batch : batch[b].stage \notin {"queued", "ended", "raised"}}

\* A deterministic gather starts a batch when the one before has ended.
Enter(b) ==
    /\ batch[b].stage = "queued" /\ Cardinality(AtWork) < Concurrency
    /\ request.serial => \A d \in DOMAIN batch : d < b => batch[d].stage = "ended"
    /\ batch' = [batch EXCEPT ![b].stage = "papers"]
    /\ UNCHANGED <<request, result>>

(***************************************************************************)
(* The requests of a batch                                                 *)
(***************************************************************************)
\* mutant: what is not among the answers is not asked for again
ToDocs_Once(b, papers) ==
    [batch EXCEPT ![b] = [@ EXCEPT !.stage = "ended",
                                   !.docs  = [id \in papers \cap Ids(b) |-> id]]]
\* What is answered for the batch's own ids; the others are asked for again.
ToDocs(b, papers) ==
    LET found == papers \cap Ids(b)
    IN  [batch EXCEPT ![b] =
            [@ EXCEPT !.stage   = IF found = Ids(b) THEN "ended" ELSE "missing",
                      !.docs    = [id \in found |-> id],
                      !.waiting = Ids(b) \ papers]]

\* The next request for citations, once few of them are there.
AskMany(b, papers, cited) ==
    [batch EXCEPT ![b] = [@ EXCEPT !.stage = "many", !.papers = papers, !.cited = cited,
                                   !.waiting = papers \cap Many]]

\* "No valid paper ids given" is an empty answer, not an error.
GetPapers(b) ==
    /\ batch[b].stage = "papers"
    /\ LET papers == {Current[id] : id \in Ids(b)} \ {Unknown}
       IN  batch' = IF papers = {} THEN [batch EXCEPT ![b].stage = "ended"]
                    ELSE IF ~request.citations THEN ToDocs(b, papers)
                    ELSE IF papers \subseteq Many THEN AskMany(b, papers, {})
                    ELSE [batch EXCEPT ![b].stage = "few", ![b].papers = papers]
    /\ UNCHANGED <<request, result>>

GetFewCitations(b) ==
    /\ batch[b].stage = "few"
    /\ batch' = AskMany(b, batch[b].papers, batch[b].papers \ Many)
    /\ UNCHANGED <<request, result>>

\* A request for the whole batch fails, in a way that s2_retry tries again or not.
BatchFails(b) ==
    /\ batch[b].stage \in {"papers", "few"}
    /\ \E again \in BOOLEAN :
           batch' = [batch EXCEPT ![b] =
               [NewBatch EXCEPT !.stage = IF again /\ batch[b].tries + 1 < Attempts
                                          THEN "papers" ELSE "raised",
                                !.tries = batch[b].tries + 1]]
    /\ UNCHANGED <<request, result>>

\* One paper after the other; a failure leaves the paper without citations.
GetManyCitations(b) ==
    /\ batch[b].stage = "many" /\ batch[b].waiting # {}
    /\ LET p == CHOOSE q \in batch[b].waiting : \A r \in batch[b].waiting : q <= r
       IN  \E answered \in BOOLEAN :
               batch' = [batch EXCEPT ![b].waiting = @ \ {p},
                                      ![b].cited = IF answered THEN @ \cup {p} ELSE @]
    /\ UNCHANGED <<request, result>>

\* The papers without citations are left out, and so asked for again.
MergeCitations(b) ==
    /\ batch[b].stage = "many" /\ batch[b].waiting = {}
    /\ batch' = ToDocs(b, batch[b].cited)
    /\ UNCHANGED <<request, result>>

\* The paper is given the id that was asked for.  A failure is no error.
FillMissing(b) ==
    /\ batch[b].stage = "missing"
    /\ \E id \in batch[b].waiting, answered \in BOOLEAN :
           LET has   == batch[b].docs
               found == answered /\ Current[id] # Unknown
           IN  batch' = [batch EXCEPT
                   ![b].waiting = @ \ {id},
                   ![b].docs = IF found THEN [d \in DOMAIN has \cup {id} |->
                                                 IF d = id THEN Current[id] ELSE has[d]]
                               ELSE has,
                   ![b].lost = IF answered THEN @ ELSE @ \cup {id}]
    /\ UNCHANGED <<request, result>>

Filled(b) ==
    /\ batch[b].stage = "missing" /\ batch[b].waiting = {}
    /\ batch' = [batch EXCEPT ![b].stage = "ended"]
    /\ UNCHANGED <<request, result>>

(***************************************************************************)
(* The gather                                                              *)
(***************************************************************************)
Return ==
    /\ result.state = "loading" /\ \A b \in DOMAIN batch : batch[b].stage = "ended"
    /\ result' = [state |-> "returned",
                  docs |-> [id \in UNION {DOMAIN batch[b].docs : b \in DOMAIN batch} |->
                      batch[CHOOSE b \in DOMAIN batch : id \in DOMAIN batch[b].docs].docs[id]]]
    /\ UNCHANGED <<request, batch>>

\* The first error is raised; batches that were started go on.
Raise ==
    /\ result.state = "loading" /\ \E b \in DOMAIN batch : batch[b].stage = "raised"
    /\ result' = [result EXCEPT !.state = "raised"]
    /\ UNCHANGED <<request, batch>>

Step(b) == \/ Enter(b) \/ GetPapers(b) \/ GetFewCitations(b) \/ BatchFails(b)
           \/ GetManyCitations(b) \/ MergeCitations(b) \/ FillMissing(b) \/ Filled(b)

Next == (\E b \in DOMAIN batch : Step(b)) \/ Return \/ Raise

Spec == Init /\ [][Next]_vars

(***************************************************************************)
(* Properties                                                              *)
(***************************************************************************)
Asked == {request.docs[i] : i \in DOMAIN request.docs} \ Foreign
Lost  == UNION {batch[b].lost : b \in DOMAIN batch}

\* A load that returns has, under the id it was asked for, the paper that the id
\* stands for now, of every document that Semantic Scholar knows and whose own
\* request did not fail, whatever else was asked in its batch and which requests of
\* the batch failed; and of no other document.
EveryKnownAnswered ==
    result.state = "returned" =>
        /\ DOMAIN result.docs \subseteq Asked
        /\ \A id \in Asked : id \in DOMAIN result.docs <=>
               Current[id] # Unknown /\ id \notin Lost
        /\ \A id \in DOMAIN result.docs : result.docs[id] = Current[id]

\* No more batches are at work than Semantic Scholar is to be asked at a time.
LoaderSound == EveryKnownAnswered /\ Cardinality(AtWork) <= Concurrency
===============================================================================
