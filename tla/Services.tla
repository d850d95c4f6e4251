------------------------------- MODULE Services -------------------------------
(***************************************************************************)
(* The dispatch of a round, or one of the services that it and its agents  *)
(* rely on, each of which is a module of its own.  The variable machine    *)
(* says which; the variables of the paper finder stay as they are while a  *)
(* service runs, and w stands for the variables of the services.           *)
(***************************************************************************)
EXTENDS PaperFinder, Integers

CONSTANTS
    Waiters, Permits, QueueLimit,           \* of HeapqSemaphore
    Settings,                               \* of ModelCalls
    Given, Fallbacks,                       \* of ModelEndpoints
    SnippetPapers, Quotes, ComboLimit,      \* of RelevantSnippets
    Documents, Criteria, KeepIrrelevant,    \* of RelevanceJudgements
    Environments, MaxHolders,               \* of ManagedEnv
    Worlds, Relevance, MaxCalls,            \* of DocumentFusing
    Loads, Current, Foreign, Many,          \* of S2Loader
    BatchSize, LoadsAtOnce,
    Searches, Corpora, DaysPerYear,         \* of S2Fetchers
    DaysPerMonth, PageSize,
    S2Attempts                              \* of both

VARIABLES machine, w1, w2, w3, w4, w5, w6, w7, w8, w9

w   == <<w1, w2, w3, w4, w5, w6, w7, w8, w9>>
all == <<machine, vars, w>>

Heap == INSTANCE HeapqSemaphore WITH
    Tasks <- Waiters, Concurrency <- Permits, available <- w1, heap <- w2, prio <- w3, pc <- w4

Calling == INSTANCE ModelCalls WITH
    settings <- w1, phase <- w2, task <- w3, active <- w4, answer <- w5, parsed <- w6,
    batch <- w7

Endpoints == INSTANCE ModelEndpoints WITH
    stage <- w1, endpoint <- w2, asked <- w3, request <- w4

Snippets == INSTANCE RelevantSnippets WITH
    Papers <- SnippetPapers, sources <- w1, quote <- w2, spans <- w3

Judgements == INSTANCE RelevanceJudgements WITH
    entities <- w1, criteria <- w2, results <- w3, judged <- w4, stage <- w5, summary <- w6

Env == INSTANCE ManagedEnv WITH
    env <- w1, kind <- w2, phase <- w3, todo <- w4, cleanups <- w5,
    up <- w6, active <- w7, holders <- w8, error <- w9

Fusing == INSTANCE DocumentFusing WITH
    docs <- w1, origins <- w2, lists <- w3, colls <- w4, call <- w5

Loader == INSTANCE S2Loader WITH
    Requests <- Loads, Concurrency <- LoadsAtOnce, Attempts <- S2Attempts,
    request <- w1, batch <- w2, result <- w3

Fetchers == INSTANCE S2Fetchers WITH
    Queries <- Searches, Attempts <- S2Attempts,
    query <- w1, corpus <- w2, tries <- w3, state <- w4, got <- w5, docs <- w6

\* What the constants of the services are.
ASSUME ServicesAssumption ==
    /\ Heap!Counted /\ Calling!Numbered /\ Env!Registered /\ Endpoints!Named
    /\ Snippets!Readable /\ Judgements!Judgeable
    /\ Loader!LoadsGiven /\ Fetchers!SourceAgrees /\ Fusing!Sourced

(***************************************************************************)
(* The composition                                                         *)
(***************************************************************************)
\* A service leaves the variables of w that it has no use for at 0.
FreeFrom8 == w8 = 0 /\ w9 = 0
FreeFrom7 == w7 = 0 /\ FreeFrom8
FreeFrom6 == w6 = 0 /\ FreeFrom7
FreeFrom5 == w5 = 0 /\ FreeFrom6
FreeFrom4 == w4 = 0 /\ FreeFrom5

NoService == w1 = 0 /\ w2 = 0 /\ w3 = 0 /\ FreeFrom4
NoRound   == Init /\ diligent = FALSE /\ anchors = FALSE

ServicesInit ==
    \/ machine = "finder" /\ Init /\ NoService
    \/ /\ NoRound
       /\ \/ machine = "heap"       /\ Heap!Init /\ FreeFrom5
          \/ machine = "calls"      /\ Calling!Init /\ FreeFrom8
          \/ machine = "endpoints"  /\ Endpoints!Init /\ FreeFrom5
          \/ machine = "snippets"   /\ Snippets!Init /\ FreeFrom4
          \/ machine = "judgements" /\ Judgements!Init /\ FreeFrom7
          \/ machine = "env"        /\ Env!Init
          \/ machine = "fusing"     /\ Fusing!Init /\ FreeFrom6
          \/ machine = "loader"     /\ Loader!Init /\ FreeFrom4
          \/ machine = "fetchers"   /\ Fetchers!Init /\ FreeFrom7

Rest4 == UNCHANGED <<machine, vars, w4, w5, w6, w7, w8, w9>>
Rest5 == UNCHANGED <<machine, vars, w5, w6, w7, w8, w9>>
Rest6 == UNCHANGED <<machine, vars, w6, w7, w8, w9>>
Rest7 == UNCHANGED <<machine, vars, w7, w8, w9>>
Rest8 == UNCHANGED <<machine, vars, w8, w9>>

Round         == machine = "finder"     /\ Next /\ UNCHANGED <<machine, w>>
RunHeap       == machine = "heap"       /\ Heap!Next /\ Rest5
RunCalls      == machine = "calls"      /\ Calling!Next /\ Rest8
RunEndpoints  == machine = "endpoints"  /\ Endpoints!Next /\ Rest5
RunSnippets   == machine = "snippets"   /\ Snippets!Next /\ Rest4
RunJudgements == machine = "judgements" /\ Judgements!Next /\ Rest7
RunEnv        == machine = "env"        /\ Env!Next /\ UNCHANGED <<machine, vars>>
RunFusing     == machine = "fusing"     /\ Fusing!Next /\ Rest6
RunLoader     == machine = "loader"     /\ Loader!Next /\ Rest4
RunFetchers   == machine = "fetchers"   /\ Fetchers!Next /\ Rest7

ServicesNext == \/ Round \/ RunHeap \/ RunCalls \/ RunEndpoints \/ RunSnippets
          \/ RunJudgements \/ RunEnv \/ RunFusing
          \/ RunLoader \/ RunFetchers

\* The calls of models are fair, as in ModelCalls; nothing else need go on.
ServicesSpec == ServicesInit /\ [][ServicesNext]_all /\ WF_all(RunCalls)

(***************************************************************************)
(* The properties of the services, each of them while its service runs     *)
(***************************************************************************)
\* The heap that the library keeps is a queue in the sense of PrioritySemaphore:
\* nothing is lost in a push or a pop, what release() takes has the least priority
\* present, and the whole semaphore behaves as that module (prioritized_task.py).
HeapIsPriorityQueue ==
    /\ machine = "heap" => Heap!PS!Init
    /\ [][machine = "heap" => Heap!PS!Next \/ UNCHANGED Heap!PS!vars]_all

\* A racing call ends in a timeout only when every model it could ask timed out; of
\* the models an endpoint cancels only retries go on, within their attempts; and the
\* results of a batch are in the order of its inputs, within its concurrency
\* (retry.py, endpoints.py, builders.py).
CallsSound == machine = "calls" => Calling!CallsSound

\* Every batch of calls is answered, as long as its attempts end (endpoints.py).
BatchAnswered == <>(machine = "calls" => Calling!BatchOver)

\* Whatever model, parameters and settings are given in whatever order, a request has
\* nothing that its API refuses and an endpoint keeps what its caller asked for
\* (models.py, params.py, endpoints.py).
EndpointsSound == machine = "endpoints" => Endpoints!EndpointsSound

\* A part of a quote has a place exactly when it occurs in one of the texts, the
\* place holds its letters, and the places chosen lie close (relevant_snippets.py).
\* Every document gets the judgement of its own answer, whichever calls fail; levels
\* fit the grades; and the summary counts the papers judged (relevance.py, explain.py).
ComputedFieldsSound ==
    /\ machine = "snippets"   => Snippets!SpansSound
    /\ machine = "judgements" => Judgements!JudgementsSound

\* A load answers every document that Semantic Scholar knows with its current paper,
\* unless its own request failed; a search of an old state has no paper that is newer,
\* none twice and, up to its limit, all that fit (s2_rest.py, fetchers/s2.py).
FetchingSound ==
    /\ machine = "loader"   => Loader!LoaderSound
    /\ machine = "fetchers" => Fetchers!FetchersSound

\* No provider is up without what it depends on, a scope that is over leaves nothing
\* up unless a cleanup failed or its opening was cancelled, and the tasks that share
\* one find every value until the last of them closes it (managed_env.py, scopes.py).
EnvSound == machine = "env" => Env!EnvSound

\* No operation on collections takes a title or a rank from a document, merges change
\* only the collection that they are called on and are complete, and samples leave
\* nothing out that is more relevant (collection.py, fuse.py, sampling.py).
FusingSound == [][machine = "fusing" => Fusing!FusingStep]_all
===============================================================================
