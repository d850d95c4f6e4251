# Paper Finder: formal models

TLA+ models of the Paper Finder service (`src/agents/mabool`) and of the
libraries it is built on (`src/libs`), the TLC configurations that check them on
small instances, and TLAPS proofs of what holds for every instance.
`PROJECT.json` lists the components, the runs, which lines each definition
stands for, the hazards and the theorems. In this file paths are relative to
`src/`; `M/` is `agents/mabool/api/mabool/`.

To check a run: `tlc -workers 2 -config MCRoundScopes.cfg MCRoundScopes.tla`.
To check the proofs: `tlapm PrioritySemaphore_proofs.tla`.

## The system

A client posts a *round*: a description of papers, anchor papers and a mode
("infer", "fast" or "diligent"). The round service admits it through a semaphore
and runs the paper finder, an operative. Language models take the query apart,
and it goes to the metadata planner or to one of the search agents. The agents
collect documents from Semantic Scholar, a dense index and other sources, merge
them, load their missing fields through a shared cache, have a model judge their
relevance and return them sorted. Everything runs on one event loop: two
suspensions (`await`s) delimit an atomic step, and a task can be cancelled at
any of them.

| component | state | operations | what is hard | what makes it correct |
|---|---|---|---|---|
| Round admission, `M/services/prioritized_task.py` | permits, a priority queue of tickets (futures) | acquire, release, cancellation in between | a waiter cancelled before or after its ticket is granted; newcomers that barge; heap order | permits are conserved, no live ticket is lost, the best waiter goes first, every waiter is served |
| Round service and result cache, `M/api/round_v2_routes.py`, `M/utils/file_based_cache.py` | result files by git commit | start a round | equal rounds at once, an error of a round | errors are not cached, a round answers |
| Operatives and sessions, `M/infra/operatives/` | pending tasks of a session, two rendezvous channels, state per conversation | query, answer, ask, time out | an answer that races the time-out, answers nobody asked for, two operatives in a session | no request hangs, no channel forgets a party, a question reaches the client of its operative |
| Dependency injection scopes and environments, `libs/di` | environments of scopes, stored rounds with timers, marks | open, join, close, hibernate, reopen, destroy, time out, stop | overlapping opens, timers against reopening, cleanups that fail | an environment has one holder and is cleaned up once |
| Document fields and their cache, `libs/dcollection` | fields of documents, a shared cache with expiry | fetch (put), load, answer, apply | two loads of the same keys, partial answers, documents the source does not know | the cache agrees with the source, known values survive |
| Fusing and merging of documents, `libs/dcollection` | documents by id | fuse, merge, subtract, filter, sort | what wins when two copies differ; derived fields | a merge loses nothing known |
| Query analyzer and dispatch, `M/agents/query_analyzer`, `M/agents/paper_finder` | the analysis of one query | decompose, route, dispatch, retry, answer | every awaited call may fail; one analysis feeds many agents | agents are asked with what they need, errors have a reason, a specific query falls back |
| Metadata planner, `M/agents/metadata_only` | what is left of a specification, a plan, documents | apply a rule, run an operation | rules that fire in the order of their classes and consume fields | nothing the user gave is dropped silently; planning ends |
| Broad search, `M/agents/complex_search`, `M/agents/dense/relevance_loading_optimization.py` | documents, judgements, quota, two caps | iterate, gather, merge, judge in batches | quota arithmetic, documents of several queries, failing judgements, cumulative caps | no document and no judgement is lost, the quota holds, the search ends |
| Agents of one search (by name, by authors, snowball, citing papers, dense, fast, keyword), `M/agents/*` | what an agent found before, kept between its calls | ask sources, merge, filter, rerank, judge | sources that fail or answer late, calls that fail half-way, answers matched by position, ties and missing values | no failure empties what another source filled, answers grow and meet the request |
| Sorting, judgements, snippets, explanations, `M/agents/common/` | none | score, sort, judge a batch, locate quotes, explain | ties, missing values, offsets, failed calls of a batch | what is better comes first, each document has its own judgement, a place holds its quote |
| Model endpoints, retry, `libs/chain` | settings of an endpoint, the tasks of a race | set, convert, request; attempt, race, time out, parse | several models race, settings in any order, three families of parameters | a call ends, a slow model does not hide a fast one, nothing is sent that an API refuses |
| Searches and loader of Semantic Scholar, `libs/dcollection/.../fetchers/s2.py`, `loaders/s2_rest.py` | none | search by dates and pages; load fields in batches | replaced and unknown ids, retries of half a batch, partial dates | an answer is of the state asked for, in order and complete; each id gets its own paper |
| Other fetchers and clients, configuration, web application | clients, configuration | requests | failures of the network | errors are confined |

How they interact: the round service *calls* the paper finder through the
session, which starts it as a task; the paper finder *calls* agents, each an
operative that turns its exceptions into a void response
(`Operative.__call__`); agents *await* sources together (gather) and share the
field cache through collections; every operative runs within the scopes of the
dependency injection, where the round scope is shared with the sub-tasks it
creates.

## The modules

| module | what it models | composed of |
|---|---|---|
| `CountingSemaphore` | what admission promises: at most so many holders | |
| `PrioritySemaphore`, `_proofs` | admission, with the queue as a set of tickets | implements `CountingSemaphore` |
| `HeapqSemaphore` | the same with the library's binary heap (sift up and down) | implements `PrioritySemaphore` |
| `OperativeSession`, `_proofs` | one interactive session | |
| `RoundScopes`, `_proofs` | the round scopes of a few contexts and their storage | |
| `ManagedEnv` | the providers of one environment, in a scope | |
| `DocumentLoading`, `_proofs` | concurrent `load_many` of collections over the shared cache | |
| `DocumentFusing` | documents as shared objects: fuse, merge, subtract, sample | |
| `Documents`, `WeightedSort` | operators on collections that the agents use | |
| `BroadSearch`, `_proofs` | one diligent broad search: iterations, gather, adaptive judging | |
| `MetadataPlanner` | planning and running of a union of specifications | |
| `SpecificPaperByName`, `SearchByAuthors`, `Snowball`, `SnippetSnowball`, `CitingPapers`, `DenseAgent`, `FastBroadSearch`, `KeywordSearch` | one call, or several, of the agent of that name | `Documents`; two use `WeightedSort` |
| `Sorting` | the order of an answer | `Documents` |
| `RelevanceJudgements` | the judgement of a batch, and what the summary counts | |
| `RelevantSnippets` | where the parts of a quote are in the texts of a paper | |
| `ModelCalls`, `_proofs` | attempts, races, batches and parsing of calls of models | |
| `ModelEndpoints` | settings of endpoints and the request that is sent | |
| `S2Loader` | a load of fields from Semantic Scholar, in batches | |
| `S2Fetchers` | one search of Semantic Scholar, by dates and in pages | |
| `PaperFinder` | one round from its query to its answer | |
| `SearchAgents`, `_proofs` | the planner or one agent, chosen by `agent` | `MetadataPlanner` and the agents |
| `Services`, `_proofs` | a round or one service, chosen by `machine` | `PaperFinder`, `HeapqSemaphore` and the services |
| `MC*` | constants and bounds for TLC | |

The agents and services do not share state in the program but hand each other
finished values, so that the two compositions run one of them at a time: an
initial state chooses which, and its neighbours stay as they are. What one hands
to the next is a constant of the next, in every form the first can give it.

What a module asks of a part modelled elsewhere, or not modelled, is a choice it
leaves open: what models and sources answer, and that they may fail. Every name
of an action or helper is that of the function it stands for where there is
one, and a comment names the mutated operators (`*_Something`, "mutant"): these
are plausible bugs, not part of the specifications, and each shows that a
property can fail.

### PrioritySemaphore and HeapqSemaphore

`available` is `_available_concurrency`, `queue` the tickets in `_queue`, `pc`
where each task is. `acquire()` suspends only on its ticket and `release()`
never, so `AcquireFree`, `AcquireRefused`, `AcquireWait`, `Resume`,
`ReleaseToNobody`, `ReleaseToWaiter`, `ReleaseToDeadTicket` are the stretches of
code between suspensions. `CancelWaiting` leaves a dead ticket in the queue;
`CancelGranted` cancels a task whose ticket has its result but which was not
resumed. The tasks of a round service run `async with` once.

`HeapqSemaphore` (checked in `services`) has `heapq`'s algorithm on tickets
compared by priority only.
Its refinement shows that any best ticket is one the abstract module may grant,
and conversely that the order of arrival within a priority is *not* kept: with
four waiters the heap reorders equals. `PrioritySemaphore` therefore promises
none. LOW tasks may starve while HIGH ones keep coming; `WaitersServed` holds
since the tasks are finitely many and each asks once.

### OperativeSession

Requests (`_run_operative`, `_handle_inquiry_reply`) wait on an operative's task
and on a task that receives a question. The two anyio channels have no buffer,
so each is a pair of queues (`askers`/`listeners`, `answers`/`hearers`). An
answer waits a second for an operative to hear it (`ReplyExpires`,
`ReplyRefused`), a request times out (`Timeout`), and the done callback removes an
operative from `pending`. `orderly` chooses a client that talks in turn: it
sends nothing while a request is under way, an answer only if an operative is
alive, and a query only if none is.

### RoundScopes

A context is what one connection gets; its tasks share the round scope.
`OpenRound`/`EnvBuilt` are the two sides of the await in which providers are
built, `Close` and its cases count the tasks down, the last of which hibernates
the environment (`Push`, with a timer) or destroys it when it is `marked`.
`ReopenRound` pops it. `TimerFires` is the timeout task, which cancels itself in
`destroy` before it awaits the cleanup, so that the environment is "cut".
`Stop`, `StopNext`, `StopRaises`, `StopEnds` are `destroy_all`, which iterates
over a dict that may change under it and leaves each entry in place while it awaits
its cleanup. Nothing keeps rounds from being opened, closed, reopened or destroyed
meanwhile, or after it failed (the singleton environment is still set then); only
once it has ended do closing, reopening and destroying raise (`CloseOutside`). A
round reopened while it runs may therefore be one that is being taken down.
`StopRaises` covers a change of the dict's size and one of its keys; that CPython
may compact a dict on insertion, and the iterator lose its place, is not followed.
An `orderly` application opens an id once, does not open or reopen in a context
where a scope is active, destroys the round it is in, and stops with no scope
active, after which it opens, reopens and destroys nothing.

### DocumentLoading

`StartLoad` chooses the documents that lack a field and reads the cache,
`Answer`/`Raise` are the loader's (each document may be answered, be unknown or
fail), `Store` the writing of the answer, `Apply` what `_apply_all_values` assigns
back. `Put` is the caching of fetched documents and `Expire` the time to live.
`cache.enabled` in `load_many` is a method that is not called, so loads go
through the cache whatever the switch says.

### BroadSearch

`StartIteration`, `SourceAnswers`, `DenseSkipped`, `PrimaryMerged`,
`FollowupMerged` collect documents; `BeginLoad` splits them over the queries
they came from and preloads a few of each, `SizeBatch`, `Draw`, `Exhausted`,
`NoBatch`, `LoadBatch` are the loop of `AdaptiveLoader` for any policy of the
bandit, `MergeLoaded` feeds the two caps (`accumulate`). A judgement may fail for
any document of a batch. Preloaded documents are copies: the originals are drawn
again and count against the quota twice (they are answered from the cache), so
`QuotaHeld` bounds the documents judged from above and says nothing of a quota
that is not used up. Documents without an origin, such as the anchor papers of a
request, belong to no query and leave the search unless they are judged already;
`KeptOnceFound` is stated for the others.

### MetadataPlanner

`Rules` is the list of rule classes in the order they are defined.
`ApplyRule` is one call of `resolve_paper`: the first rule that applies, its
fields deleted. `RunTitle`, `RunFetch`, `RunFilter`, `RunExclude` run the
operations. A field has a form ("one", "and", "or" and a few special ones) and a
document is given by the items it meets. `Loses` lists what the planner is known
to lose, clause by clause; each clause is needed by the run. A specification
within another is taken to be resolved.

### PaperFinder

`Decompose` chooses what was extracted, `RouteTo*` and `ExtractName` are
`analyze`, `Dispatch*` the cases of `handle_operation`, `Enrich` and `Combine`
the anchors, `SearchRefused`/`Searched` a call of an agent, `Retry` the search
as a description, `StepFails` any awaited call that raises. The fields that
nothing tells apart are one: venues count as past years; a query of unknown
breadth is a specific one, as in the code. The branch for partial
success of the analysis cannot be reached (recency and centrality have one value
each, so the conflicts it reports do not arise) and has no action. The retry
after the planner needs a specification with an empty name, "blank".

### The agents

They share one shape, which is that of `Operative`: `inputs` is what a call is
given, `pc` where it is, `got` what its sources have answered (`Pending`, an
answer, `Failed`, or `NotAsked`) and what the agent keeps between calls,
`response` a complete, partial or void response. An awaited gather is a set of
actions, one per source, that may happen in any order; where the code's gather
ends with the first exception, so does the action that collects, even when
others are pending.

- `SpecificPaperByName`: three searches, the score of a name in titles,
  abstracts and snippets, and the vote of two lists by their ranks. How a name
  stands in a text is a record (introduced, contained, how often).
- `SearchByAuthors`: profiles are found one author after the other, the user may
  be asked and may page; a reply is an index as Python takes it, so 0 and
  negative ones count from the end.
- `Snowball`, `SnippetSnowball`: rows of seed, candidate and influence; scores in
  integers. Sentences of snippets tile their texts, mentions are attributed to
  them.
- `CitingPapers`, `DenseAgent`: several calls over one checkpoint, any of
  which may fail. The exclusions of the dense agent are a set that is changed in
  place before anything is fetched.
- `FastBroadSearch`, `KeywordSearch`: sources, filter, order, judgement, once.
- `SnippetSnowball`: a sentence that the service leaves without a place is `Unknown`,
  and then the text is split instead. The weight of the similarity is that of the one
  dataset there is (`domain_utils.py:26`).
- `WeightedSort`, `Sorting`: floats are integers of a stated scale; a sigmoid is
  a table whose monotony is assumed (`SigmoidShapes`). A judgement counts with its
  continuous score; its `Level` is what the score is rounded to when papers are
  shown. `Loaded` are fields that papers have before the sort asks for its own.

### The services

- `ModelCalls`: a task is one model under one call; `active` is the set that
  `asyncio.wait` is given. `SoftTimeout` may fire whenever its task runs. `Cancel` is
  `t.cancel()` on the tasks still waited for: one amid an attempt (`Interrupted`)
  tries again, as long as it may, since the retries of a race take any failure that
  is no timeout for one to retry, a `CancelledError` too; one that has not begun,
  waits between attempts, or is the bare model (not retried) ends. Which of them is
  amid an attempt is left open, as waits are not modelled.
- `ModelEndpoints`: parameters are functions from names to values, converted by
  family as `params.py` does; `asked` remembers what the caller set last.
- `RelevantSnippets`: texts are sequences of letters, other signs and diacritics;
  a place is mapped from the letters back to the text. A text without an offset in
  its paper (`None`) gives places that end at `Infinity`, as `math.inf` does.
- `RelevanceJudgements`: answers come with failures and are put in order by
  entity; weights in hundredths, which a name has from the last criterion of it.
- `ManagedEnv`: `todo`, `cleanups` and `up` are the providers to build, to clean
  up, and with resources; a cancellation is not an `Exception` and skips the
  unwinding.
- `DocumentFusing`: documents and origins are objects with an identity, so that a
  change through one collection is seen through another that shares it.
- `S2Loader`: a batch goes through `stage`s (papers, citations of those that have
  few, of those that have many, what is missing), and from the start again when a
  request for the whole of it is retried. `Current` is the paper that an id stands
  for now, which may be another one or none.
- `S2Fetchers`: days are numbers of a small calendar; `Matches` is what the API
  holds within the range it is sent, which is external.

## Hazards

`PROJECT.json` lists the places where this code is hard to test, with the
properties that cover them. The `note` of a hazard says what its properties
leave open because the code does it and no text promises otherwise.

## What each run checks

| run | instance | shows |
|---|---|---|
| `semaphore` | 4 tasks, 2 permits, bound 0 | `PermitsConserved`, `IdlePermitsAccounted` (a permit is idle beside a waiter only because a dead ticket was dropped), `GrantsByPriority`, `ImplementsCountingSemaphore`; `WaitersServed` where nothing is cancelled |
| `semaphore_leak` | 1 permit | finding: a cancelled task takes its permit along |
| `session` | 2 operatives that ask twice, 1 answer | `NobodyForgotten`, `OrderlyServed`, `RequestsEnd` |
| `rounds` | 2 contexts, 2 environments, 2 ids, 3 tasks | `OneLiveHolder`, `OrderlyRounds` (nothing is lost, tasks keep their round, what is marked stays marked), `StoredLeave` |
| `round_timeout` | the same | finding: a round that times out is not cleaned up |
| `loading` | 2 collections, 2 papers, 3 fields | `ValuesTruthful`, `KnownValueKept`, `CachedValueServed` |
| `loading_outside` | 1 collection, a paper from elsewhere | finding: its values are emptied |
| `broad_search` | 5 documents, 2 queries, quotas 1 and 3 | `QuotaHeld`, `ScoresOnce`, `KeptOnceFound`, `JudgedAnswered`, `SearchEnds` |
| `search_agents` | the planner on specifications of up to 3 fields in every form, some of 4, unions of 2; or one of the agents on 3 to 5 papers | planner: `NothingDropped`, `PlanExact`, `RulesConsume`; agents: `NameAnswerSound`, `AnswersMeetRequest`, `SnowballsSound`, `AnswersGrow`, `DenseSound`, `FastSearchSound`, `OrdersSound` |
| `citing_scores` | the same | finding: papers are sorted by the scores of others |
| `services` | every extraction, 7 unions, both modes, with and without anchors; or one of the services | round: `AgentsGetTheirInput`, `ErrorsAreExplained`, `SpecificFallsBack`; heap: `HeapIsPriorityQueue`; services: `CallsSound`, `BatchAnswered`, `EndpointsSound`, `ComputedFieldsSound`, `FetchingSound`, `EnvSound`, `FusingSound` |
| `recency` | the same round | finding: a search for the latest and the earliest |

What the properties of the two compositions say:

- `NameAnswerSound`: a paper that both lists hold is left out only for papers that
  both hold or that head a list; a failing source does not empty the answer.
- `AnswersMeetRequest`: answers are within the years and venues and have a
  profile of each author's name, but for the model's suggestions, which nobody
  checks, and a single venue, which `relevance()` does not filter by.
- `SnowballsSound`: the seeds come back, whatever direction fails; only linked
  papers are promoted, more support does not hurt; mentions are of their sentences.
- `AnswersGrow`: no call of the citing papers agent answers less than it had.
- `DenseSound`: no document is shown to the model twice; an answer has all that any
  call so far that succeeded was given or found (`found`, a history beside the
  checkpoint that the agent keeps); every index gets a query, and the first, the
  user's own, exactly when it is the only one or one of five and more: a fifth of
  two to four queries, rounded, cuts it off.
- `FastSearchSound`: one source that answers suffices, and no relevant paper is left
  out that a source put before one that is answered.
- `OrdersSound`: what is as good in every preference and came before is kept; if
  nothing is preferred, a judgement whose score is better by 17 hundredths outweighs
  all else, and so do two levels (one does not: levels 1 and 2 may be a hair apart).
  Of papers alike in all else, the one that fits a stated recency comes first.
- `HeapIsPriorityQueue`: the semaphore with its heap takes only steps of
  `PrioritySemaphore`. That the order of arrival is kept is not one of them.
- `CallsSound`: a race times out only when each of its models did; of the models that
  are cancelled because there is an answer, only retries go on, with an attempt behind
  them and within the number of their attempts; a batch keeps order and concurrency;
  `BatchAnswered`: it ends.
- `EndpointsSound`: whatever order the settings come in, none loses another, and
  the request has nothing its API refuses.
- `ComputedFieldsSound`: a part of a quote has a place exactly when it occurs, the
  place has its letters (of a text without diacritics that stand on their own), and
  the places chosen lie as close as any within one text; each document has the
  judgement of its own answer; levels fit grades; the summary counts the papers.
- `FetchingSound`: a load answers each id that the source knows with its current
  paper, unless the request for that id alone failed; a search has no paper from
  after the date it is given, none twice, ranks in order, and none left out that
  fits and is among the first of the source.
- `EnvSound`: nothing is up without what it depends on; a scope that is over leaves
  nothing up, but for a cleanup that failed or a cancelled opening.
- `FusingSound`: nothing known is lost, a merge is complete (unless a snippet lies
  inside another, whose end it then cuts), samples by relevance are fair, and a
  merge, also one that raises, changes no collection but those that share their
  documents with the one it is called on.

Deadlock is not checked: every module describes work that comes to an end (a
round, a search, a fixed set of tasks or environments).

### The bounds and why they are enough

- *Semaphore.* Two waiters on two permits with a third and fourth task are the
  least in which a release, a hand-over, a dead ticket and a barging newcomer
  meet; bound 0 is passed by the first waiter. One permit and four waiters is
  where the heap first compares two children and reorders equals. The proofs
  cover every number.
- *Session.* Two operatives are needed for `pop()` to choose wrongly, two
  questions for one to be answered and one to be left. With a second answer the
  graph is too large for liveness; two answers would meet in one queue only.
- *Rounds.* An environment that is stored and one that is opened, with one id or
  one each; three tasks for two sub-tasks of one that closes first.
- *Loading.* Two papers that lack different fields, so that each is asked again
  for the other; two collections for a race; an answer is any subset.
- *Broad search.* A document of two queries and one of each, and one of none;
  quotas below and above what the preload takes.
- *Planner.* Rules look at up to three fields together; four fields are taken
  from those that the fallbacks and the losses relate. A document lacks at most
  one field's items, which is what distinguishes a lost field from an enforced
  one.
- *Paper finder.* A union is dispatched by the kinds in it; two kinds show what
  the one dispatched by does to the other. The proofs cover every union.
- *Agents.* Two lists of papers that overlap in part, with papers in one list, in
  both and in none, and a limit below their number, so that something is cut.
  Two calls make a checkpoint, the third of the dense agent follows one that
  failed. Numbers of queries are 0, 1, 2, 9 and 10 on both sides of the fifths.
  The snowball has a candidate of one seed, of both, and one whose count is
  unknown, with counts either side of the penalty's limit.
- *Calls of models.* An endpoint and two fallbacks are the least in which one times
  out, one fails and one answers late; three calls with a concurrency of two make
  one wait. Two attempts tell a last one from another.
- *Environments.* Three providers with any dependencies of up to two, cycles and
  unknown names among them; two tasks that share.
- *Semantic Scholar.* Batches of two, one at a time, for five ids: one that was
  replaced by another of the load, one by a paper nobody asked for, one unknown and
  one of another source. Dates on and around the last day that is allowed, which is
  the last of a year or within one; pages of two and limits on both sides of them.
- *Fusing.* Three documents of one paper in three lists and five operations: a merge
  of a merge with a later merge of what was merged first.

### Fairness

`PrioritySemaphore` assumes that a task with its ticket resumes and that a
holder releases: the event loop runs what is ready, and a session cuts an operative
off at `operative_timeout`. `OperativeSession` assumes that ready tasks run and
timers fire; operatives and clients need not do anything. `RoundScopes` assumes
that a timer fires. `BroadSearch` assumes that some step is taken while one can
be: sources and models answer or raise within the time-outs of their endpoints.
`ModelCalls` (and `Services` for it alone) assumes the same of the attempts of
a call: each has a time-out (`endpoints.py`).
No strong fairness is assumed.

## What is proved

`PrioritySemaphore_proofs`, for every finite set of tasks, every positive number
of permits and every queue bound: the invariants of the run, `TicketsQueued`,
`QueueBounded`, `GrantsByPriority`, `NeverTooMany` and the refinement of
`CountingSemaphore`. The invariant is the conjunction of the invariants:
conservation is inductive with the types alone, while the idle permits and the
bound of the queue need to know who has a ticket (`TicketsQueued`). The argument is
by cardinality: each action moves one task between two of the counted sets.
The same module proves of the heap, for any tasks and of any size, that it is such a
queue (`HeapImplementsQueue`). The order of a heap (`Ordered`: no ticket is before
its parent) makes its root a best ticket. A push raises the new ticket along its
path to the root, and only there is the order open; a pop shifts the smaller
children up along one way down (`WayDown`), puts the last ticket where that ends and
raises it. Both are permutations of the tickets. Halving a place is shown to shrink
it, and facts about a path are proved at the least place that would break them.

`BroadSearch_proofs`, for every finite set of documents, every origin, quota,
preload and batch size: `TypeCorrect` (the quota left and the batch are never
negative), `LoaderWithinQuota`, `AnswersTheJudged`, `KeepsTheFound`. The invariant
adds `JudgedKnown` (the verdicts and the judgements carried by documents
agree), `Split` (while loading, each document with an origin is in the base, the
loaded ones, an iterator or the batch) and `QuotaSpent` (what is used and what
is in the batch fit the quota): neither conclusion is inductive without knowing
where a document can be in the middle of a batch. Assumed: the documents are
finite, quotas and levels are natural numbers, batches are positive.

The same module says what an iteration costs, for every finite set of documents
and of queries: `JudgesWithinQuota` and `CapCountsOnce`. The documents
judged are charged to iterations (`Budget`): the preload and what the loader uses
come to no more than the quota in each, or than the preload when it is larger. That
a preload of `n` per query has at most `n` times the queries is a lemma that
injects it into the pairs of a query and a rank. `CapSound` adds that what the cap
counted was judged relevant, which no later judgement changes.

`DocumentLoading_proofs`, for every set of collections, documents and fields:
`OnlyTheTruth`, `ValuesKept` and `CachedServed`. The invariant says of the cache
that it agrees with the source (`CacheTrue`), and of each load in progress
(`LoadTrue`) that it runs one loader, that what it took for hits is true, and that
its answers are true, or errors of a computation. A load that began on one state
of the cache stores into another: it is the truth of both that is inductive, not
their agreement. Assumed: a document comes with its computed field not loaded, or
true.

`RoundScopes_proofs`, for every finite set of round ids, and any contexts,
environments and tasks: `OneHolder` and `TimersRight` hold in every application,
`OrderlyApplication` in one that keeps to the protocol. Accordingly the invariant
has two parts. `Holders`: a scope is counted while it has an environment (`Counted`),
what is being built belongs to one context (`Opening`), an environment is stored under
its own id and after it was built (`StoreSound`), what `destroy_all` has come to is no
longer live and nothing is swept before the singleton scope closes (`SeenSwept`,
`UpUnswept`), and a timer runs exactly for what is stored and not yet come to. The
latter is why `OneLiveHolder` can tell a round that a timer has cut, which nobody
holds, from one that `destroy_all` takes down, which somebody may.
`Protocol`, for an orderly application: a round has one environment, a context that
opens has no other, a scope counts exactly the tasks within it, no scope is open when
the singleton scope closes, and the cleanup of a round that was told to go is awaited
by the task that closed it, which then removes the mark.

`DocumentFusing_proofs`, for whatever the sources find of however many papers, and
for operations in any number and order: `DocumentsKeepAll`, which is `FusingSound`.
The invariant: papers share no origin (`Apart`), what the sources found is in one
list and in no collection yet (`ListsApart`), collections of different roots share no
document (`RootsApart`), and none has two documents of one paper (`EachOnce`).
Without the first a rank would go to another paper through an origin that both
have; without the third a merge would change what another search found. What a
merge promises of its result is an invariant of the loop over the documents
that join it (`JoinStep`): each document of the result has gathered
what is known in those of its paper that have joined so far. That the text shown
survives is the hard part: snippets that overlap are cut where the next one
starts, and the proof takes of those that show a place the last of the first kind,
which no cut takes it from (`NothingCutAway`), unless a snippet lies inside another.
Samples rest on a finite set in an order having each member in one place
(`InOrderOf`), and on a stable sort being such an order (`SortedIs`). Assumed:
`Sourced`, that each fetcher makes a document for each paper it finds, with an
origin made for it, and that a snippet without a start has no end either.

`OperativeSession_proofs`, for all sets of operatives, requests and answers, and for
clients that talk in turn and others: `SessionForgetsNobody`, `PendingTasksAreLive`,
`OrderlyClientIsServed`. That no channel forgets a party is a statement about four
queues, so the invariant (`Everyone`) says of each that nobody stands in it twice
and that those in it are exactly those in the state that waits for it; a queue
that is joined, left at its head or left from within keeps this by lemmas on
sequences. It also says that what is pending is alive, and that a request waits on
an operative that was started. For a client that talks in turn `InTurn` adds what
the conversation is: one request and one live operative at most, which is the one
that the request waits on (`OneConversation`); it does not end while its question
is on the way to the client (`AsksAndStays`); an answer that is sent has an
operative that asked (`AnswerHeard`), so that none expires.

`SearchAgents_proofs` is about the composition, whatever agent runs. It assumes
`SearchAgentsAssumption`: what sources give are collections of papers, columns are
numbers or missing, a score is within its scale. The code has these types.

- Planner, for every corpus and union: `DropsNothingElse`, `ResolvingEnds` and
  `AnswersExactly`. The invariant: a field remains as it was given until a rule
  consumes it (`RemainKept`), what was consumed is gone (`Gone`), the rules that
  consume venues and years were given them (`FromGiven`), and each field is left,
  wanted by a step or a listed loss (`Accounted`). That the answer is exact adds
  the shape of a plan (`Shape`: a source comes first, a title before other sources) and, for
  the run of it, that a document in hand meets all that has run (`DocsSound`) and
  one that meets all is in hand (`DocsComplete`). `PlannerInComposition` carries the
  theorems over: a behaviour of the composition is one of the planner.
- `DenseKeepsAndShows`: a document that was shown is excluded from then on
  (`DenseShown`), which is what the next call relies on; what was found stays in the
  checkpoint over calls that fail.
- `RequestsAreMet`: each source of the search by authors is filtered before it is
  kept (`AuthorsNamed`), and nothing is answered before all have answered.
- `FastSearchSurvives`: a document in hand comes from a source that answered, and
  all documents in hand have a score or none has.
- `CitingAnswersGrow`: what was fetched for an anchor cites it, and scores are
  asked for and given to the same documents, so that no answer is a position short.
  The answer is sorted by a weighted average; that it is a number for whatever is
  missing, without spread or clipped, is a lemma (`AverageIs`).
- `NameIsVoted`: a paper of both lists has more votes than one of one list that
  does not head it, since a list gives 2 to 4 and 4 to its head only.
- `SnowballsKeepTheirSeeds`: a direction that is asked is pending, has failed or has
  its whole answer (`SnowInv`), and both answers start from the seeds. A further
  seed that cites a candidate adds two or more, and the penalty takes less than that
  below 400 references and up to 200 citing seeds; beyond these it takes more, which
  the proof showed and the property says now. That sentences tile a text
  follows from the cuts in rising order; that a paper mentioned more is not left out,
  from a heuristic that grows with both of its terms (`HeuristicGrows`).
- `OrdersFollowPreferences`: a weighted average is monotone in each column along
  the sign of its weight, and what is stable keeps equals in order; for the sorting
  of an answer the score is bounded by linear terms, and two levels are more than 17
  hundredths apart (`TwoLevels`).

The document lemmas they share say what keeping, merging, slicing and sorting do to
a collection (`KeptIs`, `MergedIs`, `MergeAllIs`, `SliceIs`, `SortedIs`). Where these
need induction over numbers it is over the set of those for which the fact holds,
with the theorem on least elements in place of the rule of induction. The proof
of `NameIsVoted` showed that cases of the model overlapped, which TLC resolves by
taking the first; they are disjoint now.

`Services_proofs` does the same for the rounds and the services, under
`ServicesAssumption` (settings are numbers and flags, providers are registered once,
fallbacks are names of models, the tasks of the semaphore are finitely many and its
permits positive, texts are sequences of signs with an offset or none, a quote has
parts, no batch holds a document twice, weights are numbers, a page and a batch have
a size, Semantic Scholar gives a paper the year of its date and a paper that replaces
another is not replaced itself; documents are found as `Sourced` says).

- Rounds, for every set of unions and with or without `force_broad`: `InputsGiven`,
  `ErrorsHaveReasons`, `SpecificIsRetried`. The invariant says what a type tells of
  the fields (`Typed`), where the content comes from (`Contented`), which ways lead
  to a place (`Dispatched`) and that an empty specific query was searched for twice
  (`FellBack`).
- `ProvidersStandOnProviders`, for any providers and dependencies: what is up is a
  stack, in which each stands on what is below it (`Stacked`), and each has at most
  one cleanup (`Once`); unwinding takes the top, so nothing loses its ground.
- `CallsKeepTheirPromises`, for every number of calls, fallbacks and attempts and
  every limit. The invariant of an open call says that a task which was started is
  still waited for or has timed out, so that a race that has nothing left to wait for
  has lost every model (  has lost every model (`CallOpened`); a closed call has its promises (`CallClosed`),
  also while tasks that nobody cancelled, or that retry, go on: an attempt goes on only
  to one that its number allows.
- `NothingKnownIsLost`: the theorem of `DocumentFusing_proofs`, through an instance;
  `FusingIsTheSame` shows that the module composed and the module proved agree.
- `HeapBehavesAsQueue`: the theorem of `PrioritySemaphore_proofs` on the heap, through
  an instance.
- `ComputedFieldsAreSound`, for texts, quotes, batches and criteria of any size.
  *Snippets.* The invariant (`SnippetsInv`) says that the places are what the search
  returns for the texts and the quote, and that these are readable. That a place
  holds the letters of its part rests on one lemma: the letters of a text between two
  places are a window of the cleaned text, and every window comes from two places,
  so that a part occurs exactly when a window equals it. Placing the texts one
  after another adds the places of each, once (`PartMatches`, by least
  counterexample on the number of texts); the choices are finitely many, so a
  first best one exists, and it is no wider than any that lies within one text.
  *Judgements.* The invariant (`JudgementsInv`) says of each stage what has been
  answered by whom; as no document is twice in a batch, the last answer for a
  document is its own. That levels fit grades is monotony of a sum over the
  criteria (`Total`, by induction over finite sets of names), and the summary counts
  a union of disjoint levels.
- `RequestsAreAccepted`: what an endpoint has set is kept by every later setting
  (`Keeps`), and its family and converter suit each other (`Suits`).
- `FetchesAreSound`, for loads of any size and searches with any dates and pages. Of
  a batch in hand, each id has its paper, is waited for, has failed by itself or is
  unknown (`BatchFine`), and an id is in one batch only (`BatchesPart`), so that what
  returns can be read off the batches. What a search has got is the beginning of what
  the source admits (`GotFine`), whatever page or retry comes next; the rest is what
  the range of the request says of a paper's year and day (`OldIfAdmitted`,
  `FittingAreAdmitted`), by monotone division (`YearOfDay`).

Checked by TLC only: liveness (`WaitersServed`, `RequestsEnd`, `StoredLeave`,
`SearchEnds`, `BatchAnswered`), which is beyond the prover, as is ENABLED. Every
invariant and every action property that a passing run checks is also proved.

## Findings

1. `prioritized_task.py:58`: a task cancelled after its ticket was granted and
   before it runs loses the permit for good (`semaphore_leak`). The test of the
   repository asserts that the semaphore is released.
2. `rounds_storage.py:56`: the timeout task cancels itself before the cleanup
   of its round (`round_timeout`); the README of the library promises a release.
3. `collection.py:182`: a document from outside Semantic Scholar loses the
   values it came with when any field of the load is missing
   (`loading_outside`), contrary to the comment in `loaders/s2_rest.py`.
4. `query_analyzer.py:80`: recency is set from the years after the check for
   conflicts, and a diligent search for the earliest papers since some year
   ends in an error (`recency`).
5. `broad_by_specific_paper_citation_agent.py:63`: the reranker's scores are
   returned in the order of its answer and given to the papers in the order of
   the collection (`citing_scores`): papers are sorted by the scores of others.
   The README of `dcollection` says of a batch "Each document's result is still
   independent".

Other facts met while modelling, of which the repository says nothing: the
anchors of a request leave a broad search; preloaded documents use the quota
twice; the planner's losses (`Loses`); a union of which one member
has a content goes to the planner and fails there; a request with anchors whose
content was made from them fails the assertion of the metadata search; an
answer that comes before a question is taken for the next one; a filter by
authors is handed the paper in the place of the authors and raises
(`FastBroadSearch`, `CitingPapers`); one failing direction of a snowball loses
what the other found; a paper that more than 200 seeds cite scores less for each
further one; a single venue is not enforced in a search by authors; of
two to four dense queries the user's own is not sent, though the comment at
`dense_agent.py:68` expects it to be the first; a model that is cancelled amid an
attempt because another has answered tries again (`retry.py:52`); a paper of relevance
level 1 may be sorted before one of level 2; a citation count that is
not known is the best if the least cited papers are asked for; a cancelled
opening of an environment leaves what was built; the last year of a search is not
sent unless there is a date before which papers were inserted (`s2.py:46`); the
request for a replaced id is not retried (`s2_rest.py:349`); `s2_retry` passes its number
of attempts as the longest wait and the other way round (`common.py:49`).

## Not modelled

`PROJECT.json` gives the reason for each component. In short: input and output
of services (the fetchers of other sources, clients, the Gemini client, the
reranker) are choices of the modules that call them; wording
(prompts, texts, verbalizing), configuration and deployment are out of scope;
the result cache, the expiry of sessions and of the state of agents, and the
modules and patches of providers keep state that no text of the repository
promises anything about; citation contexts and bounding boxes of documents and
the replies of model families are left out of modules that model the rest.

## Plan

Done, in this order: admission, loading, sessions, round scopes, broad search,
planner, dispatch; fusing, environments, the agents and their sorting, models and
their endpoints, judgements and snippets, searches and loader of Semantic
Scholar. Next:

1. Abstract specifications: a cache that answers only what the source said, for
   `DocumentLoading`; an environment that is built and cleaned up once, for
   `RoundScopes` and `ManagedEnv`; a source that answers or fails, for the agents,
   which `BroadSearch` already assumes of them.
2. The round service: its result cache without single flight, composed with
   `PrioritySemaphore`; the expiry of sessions.
3. The merge of `DocumentFusing` in composition with `DocumentLoading`: derived
   fields that are stale after a merge.
