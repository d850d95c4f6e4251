--------------------------- MODULE PrioritySemaphore ---------------------------
(***************************************************************************)
(* The semaphore that admits search rounds                                 *)
(* (mabool/services/prioritized_task.py, used by api/round_v2_routes.py).  *)
(*                                                                         *)
(* The program is one asyncio event loop, so a stretch of code between two *)
(* suspensions is one action.  acquire() suspends only on its ticket, a    *)
(* future; release() never suspends, because the queue it gets from is not *)
(* empty.  A ticket is identified with the task that waits on it: a task   *)
(* runs `async with` once, and a retry by a client is another task.        *)
(*                                                                         *)
(* A task may be cancelled at any await.  Cancelling one whose ticket was  *)
(* already granted but which has not run since makes acquire() raise with  *)
(* the permit taken: __aexit__ never runs and the permit is "lost".        *)
(***************************************************************************)
EXTENDS Naturals, FiniteSets

CONSTANTS Tasks,        \* the asyncio tasks that use the semaphore
          Concurrency,  \* PrioritySemaphore(concurrency=...)
          QueueLimit    \* 30 in the code: refuse when qsize() is above it

ASSUME SemaphoreAssumption ==
  /\ IsFiniteSet(Tasks)
  /\ Concurrency \in Nat \ {0}
  /\ QueueLimit \in Nat

HIGH    == 0
DEFAULT == 1
LOW     == 2
Priority == {HIGH, DEFAULT, LOW}

VARIABLES available,  \* _available_concurrency
          queue,      \* the tasks whose ticket is in _queue
          prio,       \* the priority each task asked with
          pc          \* where each task is

vars == <<available, queue, prio, pc>>

(* "waiting": suspended on a pending ticket.  "granted": the ticket has its *)
(* result and the task is not resumed yet.  "cancelled" while waiting, so   *)
(* its ticket is a cancelled future; "lost" when cancelled once granted.    *)
Place == {"idle", "waiting", "granted", "running", "done", "refused", "cancelled", "lost"}

At(place) == {t \in Tasks : pc[t] = place}

(* The tasks a permit is charged to.                                        *)
Holders == {t \in Tasks : pc[t] \in {"granted", "running", "lost"}}

Init ==
  /\ available = Concurrency
  /\ queue = {}
  /\ prio = [t \in Tasks |-> DEFAULT]
  /\ pc = [t \in Tasks |-> "idle"]

-----------------------------------------------------------------------------
(* acquire(priority): a free permit is taken at once, past any waiter.      *)
AcquireFree_Unchecked(t, p) ==      \* mutant: no test of the counter
  /\ pc[t] = "idle"
  /\ available' = available - 1
  /\ pc' = [pc EXCEPT ![t] = "running"]
  /\ prio' = [prio EXCEPT ![t] = p]
  /\ UNCHANGED queue

AcquireFree(t, p) ==
  /\ pc[t] = "idle"
  /\ available > 0
  /\ available' = available - 1
  /\ pc' = [pc EXCEPT ![t] = "running"]
  /\ prio' = [prio EXCEPT ![t] = p]
  /\ UNCHANGED queue

TooManyWaiting_OffByOne(p) ==       \* mutant: the bound is one too high
  p \in {HIGH, DEFAULT} /\ Cardinality(queue) > QueueLimit + 1

TooManyWaiting(p) == p \in {HIGH, DEFAULT} /\ Cardinality(queue) > QueueLimit

(* acquire(priority) raises QueueFull.                                      *)
AcquireRefused(t, p) ==
  /\ pc[t] = "idle"
  /\ available = 0
  /\ TooManyWaiting(p)
  /\ pc' = [pc EXCEPT ![t] = "refused"]
  /\ prio' = [prio EXCEPT ![t] = p]
  /\ UNCHANGED <<available, queue>>

(* acquire(priority) queues a ticket and suspends on it.                    *)
AcquireWait(t, p) ==
  /\ pc[t] = "idle"
  /\ available = 0
  /\ ~ TooManyWaiting(p)
  /\ queue' = queue \cup {t}
  /\ pc' = [pc EXCEPT ![t] = "waiting"]
  /\ prio' = [prio EXCEPT ![t] = p]
  /\ UNCHANGED available

(* The event loop resumes a task whose ticket has its result.               *)
Resume(t) ==
  /\ pc[t] = "granted"
  /\ pc' = [pc EXCEPT ![t] = "running"]
  /\ UNCHANGED <<available, queue, prio>>

-----------------------------------------------------------------------------
(* release(), from __aexit__, whether the body returned, raised or was      *)
(* cancelled.  The queue is a heap keyed on the priority alone, so get()    *)
(* may yield any ticket of the least priority present.                      *)
Foremost_Reversed == {u \in queue : \A w \in queue : prio[u] >= prio[w]}  \* mutant

Foremost == {u \in queue : \A w \in queue : prio[u] <= prio[w]}

ReleaseToNobody_Blind(t) ==         \* mutant: the queue is not looked at
  /\ pc[t] = "running"
  /\ available' = available + 1
  /\ pc' = [pc EXCEPT ![t] = "done"]
  /\ UNCHANGED <<queue, prio>>

ReleaseToNobody(t) ==
  /\ pc[t] = "running"
  /\ queue = {}
  /\ available' = available + 1
  /\ pc' = [pc EXCEPT ![t] = "done"]
  /\ UNCHANGED <<queue, prio>>

ReleaseToWaiter_Minting(t, u) ==    \* mutant: the counter keeps its increment
  /\ pc[t] = "running"
  /\ u \in Foremost
  /\ pc[u] = "waiting"
  /\ queue' = queue \ {u}
  /\ available' = available + 1
  /\ pc' = [pc EXCEPT ![t] = "done", ![u] = "granted"]
  /\ UNCHANGED prio

ReleaseToWaiter_Peeking(t, u) ==    \* mutant: the ticket is read, not taken
  /\ pc[t] = "running"
  /\ u \in Foremost
  /\ pc[u] = "waiting"
  /\ pc' = [pc EXCEPT ![t] = "done", ![u] = "granted"]
  /\ UNCHANGED <<available, queue, prio>>

(* The ticket is pending: the permit passes to it.                          *)
ReleaseToWaiter(t, u) ==
  /\ pc[t] = "running"
  /\ u \in Foremost
  /\ pc[u] = "waiting"
  /\ queue' = queue \ {u}
  /\ pc' = [pc EXCEPT ![t] = "done", ![u] = "granted"]
  /\ UNCHANGED <<available, prio>>

(* The ticket is done(), that is, cancelled: it is dropped and the permit   *)
(* stays free; the next ticket is not looked at.                            *)
ReleaseToDeadTicket(t, u) ==
  /\ pc[t] = "running"
  /\ u \in Foremost
  /\ pc[u] # "waiting"
  /\ queue' = queue \ {u}
  /\ available' = available + 1
  /\ pc' = [pc EXCEPT ![t] = "done"]
  /\ UNCHANGED prio

-----------------------------------------------------------------------------
(* task.cancel() while the task is suspended in acquire().                  *)
CancelWaiting(t) ==
  /\ pc[t] = "waiting"
  /\ pc' = [pc EXCEPT ![t] = "cancelled"]
  /\ UNCHANGED <<available, queue, prio>>

CancelGranted(t) ==
  /\ pc[t] = "granted"
  /\ pc' = [pc EXCEPT ![t] = "lost"]
  /\ UNCHANGED <<available, queue, prio>>

-----------------------------------------------------------------------------
Acquire(t) == \E p \in Priority : AcquireFree(t, p) \/ AcquireRefused(t, p) \/ AcquireWait(t, p)

Release(t) ==
  \/ ReleaseToNobody(t)
  \/ \E u \in queue : ReleaseToWaiter(t, u) \/ ReleaseToDeadTicket(t, u)

Cancel(t) == CancelWaiting(t) \/ CancelGranted(t)

Next == \E t \in Tasks : Acquire(t) \/ Resume(t) \/ Release(t) \/ Cancel(t)

(* The event loop runs what is ready, and a body ends: an operative that    *)
(* takes too long is cut off by its timeout.  Nobody has to ask or cancel.  *)
Fairness == \A t \in Tasks : WF_vars(Resume(t)) /\ WF_vars(Release(t))

Spec == Init /\ [][Next]_vars /\ Fairness

-----------------------------------------------------------------------------
TypeOK ==
  /\ available \in 0..Concurrency
  /\ queue \subseteq Tasks
  /\ prio \in [Tasks -> Priority]
  /\ pc \in [Tasks -> Place]

(* Every permit is in the counter or charged to exactly one task, through   *)
(* every mix of acquire, hand-over and cancellation: none is minted, so no  *)
(* more than Concurrency rounds ever run.                                   *)
PermitsConserved == available + Cardinality(Holders) = Concurrency

(* A live ticket is in the queue exactly while its task waits on it: no     *)
(* waiter is forgotten and no ticket is granted twice.                      *)
TicketsQueued == At("waiting") \subseteq queue /\ queue \subseteq At("waiting") \cup At("cancelled")

(* While a task waits, a permit can only be free because a release dropped  *)
(* a cancelled ticket, at most one permit for each such ticket.             *)
DroppedTickets == At("cancelled") \ queue
IdlePermitsAccounted == At("waiting") # {} => available <= Cardinality(DroppedTickets)

(* Only LOW tickets may exceed the bound the code puts on the queue.        *)
Capped == {t \in queue : prio[t] # LOW}
QueueBounded == Cardinality(Capped) <= QueueLimit + 1

(* A release never passes a permit over a live waiter of a better priority. *)
GrantsByPriority ==
  [][\A t, u \in Tasks : (pc[t] = "waiting" /\ pc'[t] = "granted" /\ pc[u] = "waiting")
                            => prio[t] <= prio[u]]_vars

(* Where nothing is ever cancelled in acquire(), every waiter gets its turn. *)
Calm == At("cancelled") = {} /\ At("lost") = {}
WaitersServed == []Calm => \A t \in Tasks : (pc[t] = "waiting") ~> (pc[t] = "running")

(* Holding a permit is holding the counting semaphore: a release and the    *)
(* grant that it makes are one hand-over, and barging is an entry.          *)
CS == INSTANCE CountingSemaphore WITH Permits <- Concurrency, holders <- Holders
ImplementsCountingSemaphore == CS!Spec

(* test_priority_semaphore_exception_handling: "Check that the semaphore    *)
(* was properly released".  When nobody is in acquire() or in the body,     *)
(* every permit is back.                                                    *)
ProperlyReleased ==
  (\A t \in Tasks : pc[t] \notin {"waiting", "granted", "running"}) => available = Concurrency

=============================================================================
