----------------------- MODULE PrioritySemaphore_proofs ------------------------
(***************************************************************************)
(* Theorems about PrioritySemaphore, for every finite set of tasks, every  *)
(* number of permits and every queue bound, with cancellation; and about   *)
(* the heap that the program keeps its queue in.                           *)
(***************************************************************************)
EXTENDS PrioritySemaphore, FiniteSetTheorems, SequenceTheorems, TLAPS

(* The inductive invariant.  PermitsConserved needs nothing but the types;  *)
(* IdlePermitsAccounted and QueueBounded need to know who has a ticket.     *)
IInv ==
  /\ TypeOK
  /\ PermitsConserved
  /\ TicketsQueued
  /\ IdlePermitsAccounted
  /\ QueueBounded

-----------------------------------------------------------------------------
(* Every set the module counts is finite.                                   *)
LEMMA CountedSets ==
  ASSUME TypeOK
  PROVE  /\ IsFiniteSet(Holders) /\ Cardinality(Holders) \in Nat
         /\ IsFiniteSet(queue) /\ Cardinality(queue) \in Nat
         /\ IsFiniteSet(Capped) /\ Cardinality(Capped) \in Nat
         /\ Cardinality(Capped) <= Cardinality(queue)
         /\ IsFiniteSet(DroppedTickets) /\ Cardinality(DroppedTickets) \in Nat
<1>1. /\ Holders \in SUBSET Tasks /\ queue \in SUBSET Tasks
      /\ Capped \in SUBSET queue /\ DroppedTickets \in SUBSET Tasks
  BY DEF TypeOK, Holders, Capped, DroppedTickets, At
<1>2. IsFiniteSet(Tasks)
  BY SemaphoreAssumption
<1>3. IsFiniteSet(Holders) /\ IsFiniteSet(queue) /\ IsFiniteSet(DroppedTickets)
  BY <1>1, <1>2, FS_Subset
<1>4. IsFiniteSet(Capped) /\ Cardinality(Capped) <= Cardinality(queue)
  BY <1>1, <1>3, FS_Subset
<1>5. QED
  BY <1>3, <1>4, FS_CardinalityType

(* The initial state satisfies the invariant.                               *)
LEMMA InitIInv == Init => IInv
<1> SUFFICES ASSUME Init PROVE IInv
  OBVIOUS
<1> USE SemaphoreAssumption
<1>1. TypeOK
  BY DEF Init, TypeOK, Priority, DEFAULT, Place
<1>2. Holders = {} /\ Capped = {} /\ At("waiting") = {}
  BY DEF Init, Holders, Capped, At
<1>3. PermitsConserved /\ QueueBounded
  BY <1>2, FS_EmptySet DEF Init, PermitsConserved, QueueBounded
<1>4. TicketsQueued /\ IdlePermitsAccounted
  BY <1>2 DEF Init, TicketsQueued, IdlePermitsAccounted
<1>5. QED
  BY <1>1, <1>3, <1>4 DEF IInv

-----------------------------------------------------------------------------
(* What each action does to the sets that the invariant counts.             *)

(* acquire() takes a free permit.                                           *)
LEMMA AcquireFreeStep ==
  ASSUME IInv, NEW t \in Tasks, NEW p \in Priority, AcquireFree(t, p)
  PROVE  IInv'
<1>0. /\ IsFiniteSet(Holders) /\ Cardinality(Holders) \in Nat
      /\ Cardinality(queue) \in Nat
      /\ IsFiniteSet(Capped) /\ Cardinality(Capped) \in Nat
      /\ Cardinality(Capped) <= Cardinality(queue)
      /\ IsFiniteSet(DroppedTickets) /\ Cardinality(DroppedTickets) \in Nat
  BY CountedSets DEF IInv
<1> USE SemaphoreAssumption DEF IInv
<1>1. TypeOK'
  BY DEF TypeOK, AcquireFree, Place
<1>2. Holders' = Holders \cup {t} /\ t \notin Holders
  BY DEF TypeOK, AcquireFree, Holders
<1>3. PermitsConserved'
  <2>1. Cardinality(Holders') = Cardinality(Holders) + 1
    BY <1>2, <1>0, FS_AddElement
  <2>2. QED
    BY <2>1, <1>0 DEF TypeOK, AcquireFree, PermitsConserved
<1>4. At("waiting")' = At("waiting") /\ At("cancelled")' = At("cancelled")
  BY DEF TypeOK, AcquireFree, At
<1>5. TicketsQueued'
  BY <1>4 DEF AcquireFree, TicketsQueued
<1>6. IdlePermitsAccounted'
  <2>1. DroppedTickets' = DroppedTickets
    BY <1>4 DEF AcquireFree, DroppedTickets
  <2>2. QED
    BY <1>0, <1>4, <2>1 DEF TypeOK, AcquireFree, IdlePermitsAccounted
<1>7. Capped' = Capped
  BY DEF TypeOK, AcquireFree, TicketsQueued, Capped, At
<1>8. QED
  BY <1>1, <1>3, <1>5, <1>6, <1>7 DEF QueueBounded

(* acquire() raises QueueFull.                                              *)
LEMMA AcquireRefusedStep ==
  ASSUME IInv, NEW t \in Tasks, NEW p \in Priority, AcquireRefused(t, p)
  PROVE  IInv'
<1> USE SemaphoreAssumption DEF IInv
<1>1. TypeOK'
  BY DEF TypeOK, AcquireRefused, Place
<1>2. Holders' = Holders
  BY DEF TypeOK, AcquireRefused, Holders
<1>3. At("waiting")' = At("waiting") /\ At("cancelled")' = At("cancelled")
  BY DEF TypeOK, AcquireRefused, At
<1>4. Capped' = Capped
  BY DEF TypeOK, AcquireRefused, TicketsQueued, Capped, At
<1>5. QED
  BY <1>1, <1>2, <1>3, <1>4
  DEF AcquireRefused, PermitsConserved, TicketsQueued, IdlePermitsAccounted,
      DroppedTickets, QueueBounded

(* acquire() queues a ticket.                                               *)
LEMMA AcquireWaitStep ==
  ASSUME IInv, NEW t \in Tasks, NEW p \in Priority, AcquireWait(t, p)
  PROVE  IInv'
<1>0. /\ IsFiniteSet(Holders) /\ Cardinality(Holders) \in Nat
      /\ Cardinality(queue) \in Nat
      /\ IsFiniteSet(Capped) /\ Cardinality(Capped) \in Nat
      /\ Cardinality(Capped) <= Cardinality(queue)
      /\ IsFiniteSet(DroppedTickets) /\ Cardinality(DroppedTickets) \in Nat
  BY CountedSets DEF IInv
<1> USE SemaphoreAssumption DEF IInv
<1>1. TypeOK'
  BY DEF TypeOK, AcquireWait, Place
<1>2. Holders' = Holders
  BY DEF TypeOK, AcquireWait, Holders
<1>3. PermitsConserved'
  BY <1>2 DEF AcquireWait, PermitsConserved
<1>4. /\ At("waiting")' = At("waiting") \cup {t}
      /\ At("cancelled")' = At("cancelled")
      /\ t \notin At("cancelled") /\ t \notin queue
  BY DEF TypeOK, AcquireWait, At, TicketsQueued
<1>5. TicketsQueued'
  BY <1>4 DEF AcquireWait, TicketsQueued
<1>6. IdlePermitsAccounted'
  <2>1. DroppedTickets' = DroppedTickets
    BY <1>4 DEF AcquireWait, DroppedTickets
  <2>2. QED
    BY <1>0, <2>1 DEF AcquireWait, IdlePermitsAccounted
<1>7. QueueBounded'
  <2>1. CASE p = LOW
    <3>1. Capped' = Capped
      BY <1>4, <2>1 DEF TypeOK, AcquireWait, Capped, Priority, LOW
    <3>2. QED
      BY <3>1 DEF QueueBounded
  <2>2. CASE p # LOW
    <3>1. Capped' = Capped \cup {t}
      BY <1>4, <2>2 DEF TypeOK, AcquireWait, Capped
    <3>2. Cardinality(queue) <= QueueLimit
      BY <1>0, <2>2 DEF AcquireWait, TooManyWaiting, Priority, HIGH, DEFAULT, LOW
    <3>3. Cardinality(Capped') = Cardinality(Capped) + 1
      <4>1. t \notin Capped
        BY <1>4 DEF Capped
      <4>2. QED
        BY <3>1, <4>1, <1>0, FS_AddElement
    <3>4. QED
      BY <3>2, <3>3, <1>0 DEF QueueBounded
  <2>3. QED
    BY <2>1, <2>2
<1>8. QED
  BY <1>1, <1>3, <1>5, <1>6, <1>7

(* A granted task runs.                                                     *)
LEMMA ResumeStep ==
  ASSUME IInv, NEW t \in Tasks, Resume(t)
  PROVE  IInv'
<1> USE SemaphoreAssumption DEF IInv
<1>1. TypeOK'
  BY DEF TypeOK, Resume, Place
<1>2. Holders' = Holders
  BY DEF TypeOK, Resume, Holders
<1>3. At("waiting")' = At("waiting") /\ At("cancelled")' = At("cancelled")
  BY DEF TypeOK, Resume, At
<1>4. Capped' = Capped
  BY DEF Resume, Capped
<1>5. QED
  BY <1>1, <1>2, <1>3, <1>4
  DEF Resume, PermitsConserved, TicketsQueued, IdlePermitsAccounted,
      DroppedTickets, QueueBounded

(* release() with nobody queued.                                            *)
LEMMA ReleaseToNobodyStep ==
  ASSUME IInv, NEW t \in Tasks, ReleaseToNobody(t)
  PROVE  IInv'
<1>0. /\ IsFiniteSet(Holders) /\ Cardinality(Holders) \in Nat
      /\ Cardinality(queue) \in Nat
      /\ IsFiniteSet(Capped) /\ Cardinality(Capped) \in Nat
      /\ Cardinality(Capped) <= Cardinality(queue)
      /\ IsFiniteSet(DroppedTickets) /\ Cardinality(DroppedTickets) \in Nat
  BY CountedSets DEF IInv
<1> USE SemaphoreAssumption DEF IInv
<1>1. Holders' = Holders \ {t} /\ t \in Holders
  BY DEF TypeOK, ReleaseToNobody, Holders
<1>2. Cardinality(Holders') = Cardinality(Holders) - 1 /\ Cardinality(Holders') \in Nat
  BY <1>1, <1>0, FS_RemoveElement, FS_CardinalityType
<1>3. PermitsConserved' /\ available' \in 0..Concurrency
  BY <1>2, <1>0 DEF TypeOK, ReleaseToNobody, PermitsConserved
<1>4. TypeOK'
  BY <1>3 DEF TypeOK, ReleaseToNobody, Place
<1>5. At("waiting")' = {} /\ At("cancelled")' = At("cancelled")
  BY DEF TypeOK, ReleaseToNobody, At, TicketsQueued
<1>6. TicketsQueued' /\ IdlePermitsAccounted'
  BY <1>5 DEF ReleaseToNobody, TicketsQueued, IdlePermitsAccounted
<1>7. Capped' = Capped
  BY DEF ReleaseToNobody, Capped
<1>8. QED
  BY <1>3, <1>4, <1>6, <1>7 DEF QueueBounded

(* release() hands the permit to a waiter.                                  *)
LEMMA ReleaseToWaiterStep ==
  ASSUME IInv, NEW t \in Tasks, NEW u \in queue, ReleaseToWaiter(t, u)
  PROVE  IInv'
<1>0. /\ IsFiniteSet(Holders) /\ Cardinality(Holders) \in Nat
      /\ Cardinality(queue) \in Nat
      /\ IsFiniteSet(Capped) /\ Cardinality(Capped) \in Nat
      /\ Cardinality(Capped) <= Cardinality(queue)
      /\ IsFiniteSet(DroppedTickets) /\ Cardinality(DroppedTickets) \in Nat
  BY CountedSets DEF IInv
<1> USE SemaphoreAssumption DEF IInv
<1>1. u \in Tasks /\ t # u
  BY DEF TypeOK, ReleaseToWaiter
<1>2. TypeOK'
  BY <1>1 DEF TypeOK, ReleaseToWaiter, Place
<1>3. /\ Holders' = (Holders \ {t}) \cup {u}
      /\ t \in Holders /\ u \notin Holders
  BY <1>1 DEF TypeOK, ReleaseToWaiter, Holders
<1>4. Cardinality(Holders') = Cardinality(Holders)
  <2>1. /\ IsFiniteSet(Holders \ {t})
        /\ Cardinality(Holders \ {t}) = Cardinality(Holders) - 1
    BY <1>3, <1>0, FS_RemoveElement
  <2>2. Cardinality((Holders \ {t}) \cup {u}) = Cardinality(Holders \ {t}) + 1
    BY <1>3, <2>1, FS_AddElement
  <2>3. QED
    BY <1>0, <1>3, <2>1, <2>2
<1>5. PermitsConserved'
  BY <1>4, <1>0 DEF ReleaseToWaiter, PermitsConserved
<1>6. /\ At("waiting")' = At("waiting") \ {u}
      /\ At("cancelled")' = At("cancelled")
      /\ u \notin At("cancelled")
  BY <1>1 DEF TypeOK, ReleaseToWaiter, At
<1>7. TicketsQueued'
  BY <1>6 DEF ReleaseToWaiter, TicketsQueued
<1>8. IdlePermitsAccounted'
  <2>1. DroppedTickets' = DroppedTickets
    BY <1>6 DEF ReleaseToWaiter, DroppedTickets
  <2>2. QED
    BY <1>6, <2>1 DEF ReleaseToWaiter, IdlePermitsAccounted
<1>9. QueueBounded'
  <2>1. Capped' = Capped \ {u}
    BY DEF ReleaseToWaiter, Capped
  <2>2. Cardinality(Capped') <= Cardinality(Capped) /\ Cardinality(Capped') \in Nat
    <3>1. Capped \ {u} \in SUBSET Capped
      OBVIOUS
    <3>2. QED
      BY <2>1, <3>1, <1>0, FS_Subset, FS_CardinalityType
  <2>3. QED
    BY <2>2, <1>0 DEF QueueBounded
<1>10. QED
  BY <1>2, <1>5, <1>7, <1>8, <1>9

(* release() drops a cancelled ticket.                                      *)
LEMMA ReleaseToDeadTicketStep ==
  ASSUME IInv, NEW t \in Tasks, NEW u \in queue, ReleaseToDeadTicket(t, u)
  PROVE  IInv'
<1>0. /\ IsFiniteSet(Holders) /\ Cardinality(Holders) \in Nat
      /\ Cardinality(queue) \in Nat
      /\ IsFiniteSet(Capped) /\ Cardinality(Capped) \in Nat
      /\ Cardinality(Capped) <= Cardinality(queue)
      /\ IsFiniteSet(DroppedTickets) /\ Cardinality(DroppedTickets) \in Nat
  BY CountedSets DEF IInv
<1> USE SemaphoreAssumption DEF IInv
<1>1. u \in Tasks /\ pc[u] = "cancelled" /\ t # u
  BY DEF TypeOK, ReleaseToDeadTicket, TicketsQueued, At
<1>2. Holders' = Holders \ {t} /\ t \in Holders
  BY DEF TypeOK, ReleaseToDeadTicket, Holders
<1>3. Cardinality(Holders') = Cardinality(Holders) - 1 /\ Cardinality(Holders') \in Nat
  BY <1>2, <1>0, FS_RemoveElement, FS_CardinalityType
<1>4. PermitsConserved' /\ available' \in 0..Concurrency
  BY <1>3, <1>0 DEF TypeOK, ReleaseToDeadTicket, PermitsConserved
<1>5. TypeOK'
  BY <1>4 DEF TypeOK, ReleaseToDeadTicket, Place
<1>6. At("waiting")' = At("waiting") /\ At("cancelled")' = At("cancelled")
  BY DEF TypeOK, ReleaseToDeadTicket, At
<1>7. TicketsQueued'
  BY <1>1, <1>6 DEF ReleaseToDeadTicket, TicketsQueued, At
<1>8. IdlePermitsAccounted'
  <2>1. DroppedTickets' = DroppedTickets \cup {u} /\ u \notin DroppedTickets
    BY <1>1, <1>6 DEF ReleaseToDeadTicket, DroppedTickets, At
  <2>2. Cardinality(DroppedTickets') = Cardinality(DroppedTickets) + 1
    BY <2>1, <1>0, FS_AddElement
  <2>3. QED
    BY <1>6, <2>2, <1>0 DEF TypeOK, ReleaseToDeadTicket, IdlePermitsAccounted
<1>9. QueueBounded'
  <2>1. Capped' = Capped \ {u}
    BY DEF ReleaseToDeadTicket, Capped
  <2>2. Cardinality(Capped') <= Cardinality(Capped) /\ Cardinality(Capped') \in Nat
    <3>1. Capped \ {u} \in SUBSET Capped
      OBVIOUS
    <3>2. QED
      BY <2>1, <3>1, <1>0, FS_Subset, FS_CardinalityType
  <2>3. QED
    BY <2>2, <1>0 DEF QueueBounded
<1>10. QED
  BY <1>4, <1>5, <1>7, <1>8, <1>9

(* A task is cancelled while it waits.                                      *)
LEMMA CancelWaitingStep ==
  ASSUME IInv, NEW t \in Tasks, CancelWaiting(t)
  PROVE  IInv'
<1> USE SemaphoreAssumption DEF IInv
<1>1. TypeOK'
  BY DEF TypeOK, CancelWaiting, Place
<1>2. Holders' = Holders
  BY DEF TypeOK, CancelWaiting, Holders
<1>3. /\ At("waiting")' = At("waiting") \ {t}
      /\ At("cancelled")' = At("cancelled") \cup {t}
      /\ t \in queue
  BY DEF TypeOK, CancelWaiting, At, TicketsQueued
<1>4. TicketsQueued'
  BY <1>3 DEF CancelWaiting, TicketsQueued
<1>5. DroppedTickets' = DroppedTickets
  BY <1>3 DEF CancelWaiting, DroppedTickets
<1>6. IdlePermitsAccounted'
  BY <1>3, <1>5 DEF CancelWaiting, IdlePermitsAccounted
<1>7. Capped' = Capped
  BY DEF CancelWaiting, Capped
<1>8. QED
  BY <1>1, <1>2, <1>4, <1>6, <1>7 DEF CancelWaiting, PermitsConserved, QueueBounded

(* A task is cancelled between the grant and its resumption.                *)
LEMMA CancelGrantedStep ==
  ASSUME IInv, NEW t \in Tasks, CancelGranted(t)
  PROVE  IInv'
<1> USE SemaphoreAssumption DEF IInv
<1>1. TypeOK'
  BY DEF TypeOK, CancelGranted, Place
<1>2. Holders' = Holders
  BY DEF TypeOK, CancelGranted, Holders
<1>3. At("waiting")' = At("waiting") /\ At("cancelled")' = At("cancelled")
  BY DEF TypeOK, CancelGranted, At
<1>4. Capped' = Capped
  BY DEF CancelGranted, Capped
<1>5. QED
  BY <1>1, <1>2, <1>3, <1>4
  DEF CancelGranted, PermitsConserved, TicketsQueued, IdlePermitsAccounted,
      DroppedTickets, QueueBounded

-----------------------------------------------------------------------------
(* The invariant is preserved by every step.                                *)
LEMMA NextIInv == IInv /\ [Next]_vars => IInv'
<1> SUFFICES ASSUME IInv, [Next]_vars PROVE IInv'
  OBVIOUS
<1>1. CASE UNCHANGED vars
  BY <1>1
  DEF vars, IInv, TypeOK, PermitsConserved, TicketsQueued, IdlePermitsAccounted,
      QueueBounded, Holders, Capped, DroppedTickets, At
<1>2. ASSUME NEW t \in Tasks, Acquire(t) PROVE IInv'
  BY <1>2, AcquireFreeStep, AcquireRefusedStep, AcquireWaitStep DEF Acquire
<1>3. ASSUME NEW t \in Tasks, Resume(t) PROVE IInv'
  BY <1>3, ResumeStep
<1>4. ASSUME NEW t \in Tasks, Release(t) PROVE IInv'
  BY <1>4, ReleaseToNobodyStep, ReleaseToWaiterStep, ReleaseToDeadTicketStep DEF Release
<1>5. ASSUME NEW t \in Tasks, Cancel(t) PROVE IInv'
  BY <1>5, CancelWaitingStep, CancelGrantedStep DEF Cancel
<1>6. QED
  BY <1>1, <1>2, <1>3, <1>4, <1>5 DEF Next

(* The strengthened invariant holds in every reachable state.               *)
THEOREM Invariance == Spec => []IInv
<1>1. Init => IInv
  BY InitIInv
<1>2. IInv /\ [Next]_vars => IInv'
  BY NextIInv
<1>3. QED
  BY <1>1, <1>2, PTL DEF Spec

(* acquire, release and cancellation keep every variable in its range; in   *)
(* particular the permit counter is never negative.                         *)
THEOREM TypeCorrect == Spec => []TypeOK
<1>1. IInv => TypeOK
  BY DEF IInv
<1>2. QED
  BY <1>1, Invariance, PTL

(* No interleaving of acquire, release and cancellation mints a permit or   *)
(* drops one from the account.                                              *)
THEOREM PermitConservation == Spec => []PermitsConserved
<1>1. IInv => PermitsConserved
  BY DEF IInv
<1>2. QED
  BY <1>1, Invariance, PTL

(* release() never loses the ticket of a live waiter or grants it twice.    *)
THEOREM WaitersHaveTickets == Spec => []TicketsQueued
<1>1. IInv => TicketsQueued
  BY DEF IInv
<1>2. QED
  BY <1>1, Invariance, PTL

(* A permit idles beside a waiter only through a dropped dead ticket.       *)
THEOREM IdlePermits == Spec => []IdlePermitsAccounted
<1>1. IInv => IdlePermitsAccounted
  BY DEF IInv
<1>2. QED
  BY <1>1, Invariance, PTL

(* The check of qsize() in acquire() bounds the queued HIGH and DEFAULT     *)
(* tickets by QueueLimit + 1.                                               *)
THEOREM QueueBound == Spec => []QueueBounded
<1>1. IInv => QueueBounded
  BY DEF IInv
<1>2. QED
  BY <1>1, Invariance, PTL

-----------------------------------------------------------------------------
(* Never more than Concurrency tasks are past acquire() and before the end  *)
(* of release().                                                            *)
MutualExclusion == Cardinality(Holders) <= Concurrency

(* The bound of test_priority_semaphore_concurrency, for every schedule.    *)
THEOREM NeverTooMany == Spec => []MutualExclusion
<1>1. IInv => MutualExclusion
  <2> SUFFICES ASSUME IInv PROVE MutualExclusion
    OBVIOUS
  <2>1. QED
    BY SemaphoreAssumption, CountedSets DEF IInv, TypeOK, PermitsConserved, MutualExclusion
<1>2. QED
  BY <1>1, Invariance, PTL


-----------------------------------------------------------------------------
(* release() grants only the ticket it pops, and it pops a foremost one.    *)
LEMMA GrantStep ==
  ASSUME IInv, [Next]_vars,
         NEW t \in Tasks, NEW u \in Tasks,
         pc[t] = "waiting", pc'[t] = "granted", pc[u] = "waiting"
  PROVE  prio[t] <= prio[u]
<1> USE DEF IInv, TypeOK
<1>1. u \in queue
  BY DEF TicketsQueued, At
<1>2. CASE UNCHANGED vars
  BY <1>2 DEF vars
<1>3. ASSUME NEW v \in Tasks, Acquire(v) \/ Resume(v) \/ Cancel(v) PROVE FALSE
  BY <1>3 DEF Acquire, AcquireFree, AcquireRefused, AcquireWait, Resume, Cancel,
              CancelWaiting, CancelGranted
<1>4. ASSUME NEW v \in Tasks, Release(v) PROVE prio[t] <= prio[u]
  <2>1. CASE ReleaseToNobody(v) \/ \E w \in queue : ReleaseToDeadTicket(v, w)
    BY <2>1 DEF ReleaseToNobody, ReleaseToDeadTicket
  <2>2. ASSUME NEW w \in queue, ReleaseToWaiter(v, w) PROVE prio[t] <= prio[u]
    <3>1. t = w
      BY <2>2 DEF ReleaseToWaiter
    <3>2. QED
      BY <1>1, <2>2, <3>1 DEF ReleaseToWaiter, Foremost
  <2>3. QED
    BY <1>4, <2>1, <2>2 DEF Release
<1>5. QED
  BY <1>2, <1>3, <1>4 DEF Next

(* release() serves the waiters by priority, whatever was cancelled.        *)
THEOREM PriorityOrder == Spec => GrantsByPriority
<1>1. IInv /\ [Next]_vars
        => [\A t, u \in Tasks : (pc[t] = "waiting" /\ pc'[t] = "granted" /\ pc[u] = "waiting")
                                  => prio[t] <= prio[u]]_vars
  BY GrantStep
<1>2. QED
  BY <1>1, Invariance, PTL DEF Spec, GrantsByPriority

-----------------------------------------------------------------------------
(* Every step of the semaphore enters, leaves, hands over or stutters.      *)
LEMMA RefinementStep == IInv /\ [Next]_vars => [CS!Next]_Holders
<1> SUFFICES ASSUME IInv, [Next]_vars PROVE [CS!Next]_Holders
  OBVIOUS
<1> USE SemaphoreAssumption DEF IInv
<1>0. TypeOK /\ IsFiniteSet(Holders) /\ Cardinality(Holders) \in Nat
  BY CountedSets
<1>1. CASE UNCHANGED vars
  BY <1>1 DEF vars, Holders
<1>2. ASSUME NEW t \in Tasks, Acquire(t) PROVE [CS!Next]_Holders
  <2>1. ASSUME NEW p \in Priority, AcquireFree(t, p) PROVE CS!Enter(t)
    <3>1. Holders' = Holders \cup {t} /\ t \notin Holders
      BY <1>0, <2>1 DEF TypeOK, AcquireFree, Holders
    <3>2. Cardinality(Holders) < Concurrency
      BY <1>0, <2>1 DEF TypeOK, AcquireFree, PermitsConserved
    <3>3. CS!Cardinality(Holders) = Cardinality(Holders)
      BY DEF CS!Cardinality, Cardinality
    <3>4. QED
      BY <3>1, <3>2, <3>3 DEF CS!Enter
  <2>2. ASSUME NEW p \in Priority, AcquireRefused(t, p) \/ AcquireWait(t, p)
        PROVE  Holders' = Holders
    BY <1>0, <2>2 DEF TypeOK, AcquireRefused, AcquireWait, Holders
  <2>3. QED
    BY <1>2, <2>1, <2>2 DEF Acquire, CS!Next
<1>3. ASSUME NEW t \in Tasks, Resume(t) \/ Cancel(t) PROVE Holders' = Holders
  BY <1>0, <1>3 DEF TypeOK, Resume, Cancel, CancelWaiting, CancelGranted, Holders
<1>4. ASSUME NEW t \in Tasks, Release(t) PROVE [CS!Next]_Holders
  <2>1. ASSUME ReleaseToNobody(t) \/ \E u \in queue : ReleaseToDeadTicket(t, u)
        PROVE  CS!Leave(t)
    BY <1>0, <2>1 DEF TypeOK, ReleaseToNobody, ReleaseToDeadTicket, Holders, CS!Leave
  <2>2. ASSUME NEW u \in queue, ReleaseToWaiter(t, u) PROVE u \in Tasks /\ CS!HandOver(t, u)
    BY <1>0, <2>2 DEF TypeOK, ReleaseToWaiter, Holders, CS!HandOver
  <2>3. QED
    BY <1>4, <2>1, <2>2 DEF Release, CS!Next
<1>5. QED
  BY <1>1, <1>2, <1>3, <1>4 DEF Next

(* The program's semaphore implements a counting semaphore.                 *)
THEOREM Refinement == Spec => ImplementsCountingSemaphore
<1>1. Init => CS!Init
  BY DEF Init, CS!Init, Holders
<1>2. IInv /\ [Next]_vars => [CS!Next]_Holders
  BY RefinementStep
<1>3. QED
  BY <1>1, <1>2, Invariance, PTL DEF Spec, CS!Spec, ImplementsCountingSemaphore

-----------------------------------------------------------------------------
(* The heap.  HeapqSemaphore keeps the queue as a binary heap; what its     *)
(* pushes and pops do to the entries, and that with them it behaves as      *)
(* PrioritySemaphore, where the queue is a set.                             *)

VARIABLE heap  \* the queue as the library keeps it

Heap == INSTANCE HeapqSemaphore

LEMMA LeastNumber ==
  ASSUME NEW S \in SUBSET Nat, S # {}
  PROVE  \E q \in S : \A r \in S : q <= r
<1>1. PICK q \in S : \A r \in S : ~(<<r, q>> \in OpToRel(<, Nat))
  BY WFMin, NatLessThanWellFounded
<1>2. \A r \in S : ~(r < q)
  BY <1>1 DEF OpToRel
<1> QED BY <1>2

(* The way up from a place is the place and the way up from its parent.     *)
PathStep(f, i) == IF i = 0 THEN {} ELSE {i} \cup f[i \div 2]

PathUpto(f, p) == \A i \in 0..p : f[i] = PathStep(f, i)

LEMMA Halves ==
  ASSUME NEW i \in Nat \ {0}
  PROVE  /\ i \div 2 \in 0..(i - 1) /\ i \div 2 \in Nat /\ i \div 2 < i
         /\ i = 2 * (i \div 2) \/ i = 2 * (i \div 2) + 1
         /\ i > 1 => i \div 2 >= 1
  OBVIOUS

LEMMA PathFunction ==
  ASSUME NEW p \in Nat
  PROVE  \E f \in [0..p -> SUBSET Nat] : PathUpto(f, p)
<1> DEFINE Good == {q \in Nat : \E f \in [0..q -> SUBSET Nat] : PathUpto(f, q)}
<1>1. 0 \in Good
  <2> DEFINE f0 == [i \in 0..0 |-> {}]
  <2>1. f0 \in [0..0 -> SUBSET Nat] /\ \A i \in 0..0 : i = 0 /\ f0[i] = {}
    OBVIOUS
  <2> HIDE DEF f0
  <2>2. PathUpto(f0, 0)
    BY <2>1 DEF PathUpto, PathStep
  <2> QED BY <2>1, <2>2
<1>2. ASSUME NEW q \in Nat, q \in Good PROVE q + 1 \in Good
  <2>1. PICK f \in [0..q -> SUBSET Nat] : PathUpto(f, q)
    BY <1>2
  <2> DEFINE g == [i \in 0..(q + 1) |-> IF i = q + 1 THEN {q + 1} \cup f[(q + 1) \div 2] ELSE f[i]]
  <2>2. (q + 1) \div 2 \in 0..q
    BY Halves
  <2>3. g \in [0..(q + 1) -> SUBSET Nat]
    BY <2>1, <2>2
  <2>4. \A i \in 0..q : g[i] = f[i]
    OBVIOUS
  <2>5. g[q + 1] = {q + 1} \cup f[(q + 1) \div 2]
    OBVIOUS
  <2> HIDE DEF g
  <2>6. ASSUME NEW i \in 0..q PROVE g[i] = PathStep(g, i)
    <3>1. CASE i = 0
      BY <3>1, <2>1, <2>4 DEF PathUpto, PathStep
    <3>2. CASE i # 0
      <4>1. i \div 2 \in 0..q
        BY <3>2, Halves
      <4> QED BY <3>2, <4>1, <2>1, <2>4 DEF PathUpto, PathStep
    <3> QED BY <3>1, <3>2
  <2>7. g[q + 1] = PathStep(g, q + 1)
    BY <2>2, <2>4, <2>5 DEF PathStep
  <2>8. PathUpto(g, q + 1)
    BY <2>6, <2>7 DEF PathUpto
  <2> QED BY <2>3, <2>8
<1> HIDE DEF Good
<1>3. \A q \in Nat : q \in Good
  <2>1. SUFFICES ASSUME {q \in Nat : q \notin Good} # {} PROVE FALSE
    OBVIOUS
  <2>2. PICK q \in {r \in Nat : r \notin Good} : \A r \in {s \in Nat : s \notin Good} : q <= r
    BY <2>1, LeastNumber
  <2>3. q # 0 /\ q - 1 \in Nat /\ q - 1 \in Good
    BY <1>1, <2>2
  <2> QED BY <1>2, <2>2, <2>3
<1> QED BY <1>3 DEF Good

LEMMA PathsAgree ==
  ASSUME NEW p \in Nat, NEW q \in Nat, NEW f, NEW g,
         PathUpto(f, p), PathUpto(g, q)
  PROVE  \A i \in (0..p) \cap (0..q) : f[i] = g[i]
<1> DEFINE Bad == {i \in (0..p) \cap (0..q) : f[i] # g[i]}
<1>1. SUFFICES ASSUME Bad # {} PROVE FALSE
  OBVIOUS
<1>2. PICK i \in Bad : \A k \in Bad : i <= k
  BY <1>1, LeastNumber, Bad \in SUBSET Nat
<1>3. CASE i = 0
  BY <1>2, <1>3 DEF PathUpto, PathStep
<1>4. CASE i # 0
  <2>1. i \div 2 \in (0..p) \cap (0..q) /\ i \div 2 < i
    BY <1>2, <1>4, Halves
  <2>2. f[i \div 2] = g[i \div 2]
    BY <1>2, <2>1
  <2> QED BY <1>2, <1>4, <2>2 DEF PathUpto, PathStep
<1> QED BY <1>3, <1>4

LEMMA PathUpIs ==
  ASSUME NEW p \in Nat
  PROVE  \A f : PathUpto(f, p) => Heap!PathUp(p) = f[p]
<1>1. PICK g \in [0..p -> SUBSET Nat] : PathUpto(g, p)
  BY PathFunction
<1>2. g = [i \in 0..p |-> PathStep(g, i)]
  BY <1>1 DEF PathUpto
<1>3. ASSUME NEW h, h = [i \in 0..p |-> PathStep(h, i)] PROVE h = g
  <2>1. PathUpto(h, p)
    BY <1>3 DEF PathUpto
  <2>2. \A i \in 0..p : h[i] = g[i]
    BY <1>1, <2>1, PathsAgree
  <2> QED BY <1>1, <1>3, <2>2
<1>4. Heap!PathUp(p) = g[p]
  BY <1>2, <1>3 DEF Heap!PathUp, PathStep
<1> QED BY <1>1, <1>4, PathsAgree

LEMMA PathUpStep ==
  ASSUME NEW p \in Nat \ {0}
  PROVE  Heap!PathUp(p) = {p} \cup Heap!PathUp(p \div 2)
<1>1. PICK g \in [0..p -> SUBSET Nat] : PathUpto(g, p)
  BY PathFunction
<1>2. p \div 2 \in 0..p /\ p \div 2 \in Nat
  BY Halves
<1>3. PathUpto(g, p \div 2)
  BY <1>1, <1>2 DEF PathUpto
<1>4. Heap!PathUp(p) = g[p] /\ Heap!PathUp(p \div 2) = g[p \div 2]
  BY <1>1, <1>2, <1>3, PathUpIs
<1> QED BY <1>1, <1>4 DEF PathUpto, PathStep

LEMMA PathUpOfNone == Heap!PathUp(0) = {}
<1>1. PICK g \in [0..0 -> SUBSET Nat] : PathUpto(g, 0)
  BY PathFunction
<1> QED BY <1>1, PathUpIs DEF PathUpto, PathStep

(* The way up leads through the parent of each of its places to the root,   *)
(* one place of it above the other.                                         *)
Way(P, p) ==
  /\ P \subseteq 1..p
  /\ p > 0 => p \in P /\ 1 \in P
  /\ \A i \in P : i > 1 => i \div 2 \in P
  /\ \A i, j \in P : i < j => i <= j \div 2
  /\ \A j \in P : j # p => \E i \in P : i > 1 /\ i \div 2 = j

LEMMA PathUpIsWay ==
  ASSUME NEW p \in Nat
  PROVE  Way(Heap!PathUp(p), p)
<1> DEFINE Bad == {q \in Nat : ~ Way(Heap!PathUp(q), q)}
<1>1. SUFFICES ASSUME Bad # {} PROVE FALSE
  OBVIOUS
<1>2. PICK q \in Bad : \A k \in Bad : q <= k
  BY <1>1, LeastNumber, Bad \in SUBSET Nat
<1>3. q # 0
  BY PathUpOfNone, <1>2 DEF Way
<1>4. q \div 2 \in Nat /\ q \div 2 < q /\ (q > 1 => q \div 2 >= 1)
  BY <1>2, <1>3, Halves
<1> DEFINE H == Heap!PathUp(q \div 2)
           P == Heap!PathUp(q)
<1>5. P = {q} \cup H
  BY <1>2, <1>3, PathUpStep
<1>6. Way(H, q \div 2)
  BY <1>2, <1>4
<1> HIDE DEF H, P
<1>7. P \subseteq 1..q
  BY <1>2, <1>3, <1>4, <1>5, <1>6 DEF Way
<1>8. q \in P /\ 1 \in P
  BY <1>2, <1>3, <1>4, <1>5, <1>6 DEF Way
<1>9. ASSUME NEW i \in P, i > 1 PROVE i \div 2 \in P
  BY <1>2, <1>4, <1>5, <1>6, <1>9 DEF Way
<1>10. ASSUME NEW i \in P, NEW j \in P, i < j PROVE i <= j \div 2
  <2>1. CASE j = q
    <3>1. i \in H
      BY <1>5, <1>10, <2>1
    <3> QED BY <3>1, <1>4, <1>6, <2>1 DEF Way
  <2>2. CASE j # q
    <3>1. j \in H /\ j < q
      BY <1>5, <1>4, <1>6, <1>2, <2>2 DEF Way
    <3>2. i \in H
      BY <3>1, <1>2, <1>7, <1>5, <1>10
    <3> QED BY <3>1, <3>2, <1>6, <1>10 DEF Way
  <2> QED BY <2>1, <2>2
<1>11. ASSUME NEW j \in P, j # q PROVE \E i \in P : i > 1 /\ i \div 2 = j
  <2>1. j \in H
    BY <1>5, <1>11
  <2>2. CASE j = q \div 2
    <3>1. q > 1
      BY <2>1, <2>2, <1>2, <1>3, <1>6 DEF Way
    <3> QED BY <3>1, <2>2, <1>8
  <2>3. CASE j # q \div 2
    BY <2>1, <2>3, <1>5, <1>6 DEF Way
  <2> QED BY <2>2, <2>3
<1>12. Way(P, q)
  BY <1>7, <1>8, <1>9, <1>10, <1>11 DEF Way
<1> QED BY <1>12, <1>2 DEF P

LEMMA LeastIs ==
  ASSUME NEW S \in SUBSET Nat, S # {}
  PROVE  Heap!Min(S) \in S /\ \A k \in S : Heap!Min(S) <= k
<1>1. \E q \in S : \A r \in S : q <= r
  BY LeastNumber
<1> QED BY <1>1 DEF Heap!Min

(* A heap: no entry has a greater key than what is below it; and a heap but *)
(* for one place.                                                           *)
Ordered(h, key)       == \A i \in 2..Len(h) : key[h[i \div 2]] <= key[h[i]]
OrderedBut(h, p, key) == \A i \in (2..Len(h)) \ {p} : key[h[i \div 2]] <= key[h[i]]

NoneTwice(h) == \A i, j \in 1..Len(h) : h[i] = h[j] => i = j

SameEntries(g, h) ==
  \A e : (\E i \in 1..Len(g) : g[i] = e) <=> (\E i \in 1..Len(h) : h[i] = e)

(* An entry that rises from the bottom leaves a heap of the same entries.   *)
LEMMA RaiseIs ==
  ASSUME NEW S, NEW h \in Seq(S), NEW key \in [S -> Nat], NEW p \in 1..Len(h),
         2 * p > Len(h), OrderedBut(h, p, key), NoneTwice(h)
  PROVE  /\ Heap!Raise(h, p, key) \in Seq(S)
         /\ Len(Heap!Raise(h, p, key)) = Len(h)
         /\ Ordered(Heap!Raise(h, p, key), key)
         /\ NoneTwice(Heap!Raise(h, p, key))
         /\ SameEntries(Heap!Raise(h, p, key), h)
<1> DEFINE P == Heap!PathUp(p)
           Passes(i) == \A j \in P \ {p} : j >= i => key[h[p]] < key[h[j]]
           Passed == {i \in P : Passes(i)}
           T == Heap!Min(Passed)
           n == Len(h)
           r == [i \in DOMAIN h |-> IF i = T THEN h[p]
                                    ELSE IF i \in P /\ i > T THEN h[i \div 2] ELSE h[i]]
<1>1. Heap!Raise(h, p, key) = r
  BY Zenon DEF Heap!Raise
<1>2. Way(P, p) /\ n \in Nat /\ DOMAIN h = 1..n /\ p \in 1..n
  BY PathUpIsWay
<1>3. \A i \in 1..n : h[i] \in S /\ key[h[i]] \in Nat
  OBVIOUS
<1>4. \A i \in P : i \in 1..p /\ i \in 1..n /\ i \in Nat \ {0}
  <2> HIDE DEF P
  <2> QED BY <1>2 DEF Way
<1>5. T \in P /\ Passes(T) /\ \A i \in P : Passes(i) => T <= i
  <2> HIDE DEF P
  <2>1. p \in P /\ Passes(p)
    <3>1. p \in P
      BY <1>2 DEF Way
    <3>2. \A j \in P \ {p} : ~(j >= p)
      BY <1>2, <1>4
    <3> QED BY <3>1, <3>2
  <2>2. Passed \in SUBSET Nat /\ Passed # {}
    BY <2>1, <1>4
  <2> HIDE DEF Passed
  <2>3. T \in Passed /\ \A k \in Passed : T <= k
    BY <2>2, LeastIs
  <2> QED BY <2>3 DEF Passed
<1> HIDE DEF P, T
<1>6. T > 1 => T \div 2 \in P /\ T \div 2 < T /\ key[h[T \div 2]] <= key[h[p]]
  <2> HAVE T > 1
  <2>1. T \div 2 \in P /\ T \div 2 < T
    <3>1. T \div 2 \in P
      BY <1>2, <1>5 DEF Way
    <3> QED BY <3>1, <1>4, <1>5, Halves
  <2>2. ~ Passes(T \div 2)
    BY <2>1, <1>4, <1>5
  <2>3. PICK j \in P \ {p} : j >= T \div 2 /\ ~(key[h[p]] < key[h[j]])
    BY <2>2
  <2>4. j < T
    BY <2>3, <1>4, <1>5
  <2>5. j <= T \div 2
    BY <2>3, <2>4, <1>2, <1>5 DEF Way
  <2>6. j = T \div 2
    BY <2>3, <2>5, <1>4, <2>1
  <2> QED BY <2>1, <2>3, <2>6, <1>3, <1>4
<1>7. ASSUME NEW i \in P, i > T
      PROVE  i \div 2 \in P /\ T <= i \div 2 /\ i \div 2 < i /\ i > 1 /\ i \div 2 # p
  <2>1. i > 1
    BY <1>4, <1>5, <1>7
  <2> QED BY <2>1, <1>2, <1>4, <1>5, <1>7, Halves DEF Way
<1> DEFINE from == [i \in 1..n |-> IF i = T THEN p ELSE IF i \in P /\ i > T THEN i \div 2 ELSE i]
           Between(i) == i \in P /\ i > T
<1>8. ASSUME NEW i \in 1..n PROVE from[i] \in 1..n /\ r[i] = h[from[i]]
  BY <1>2, <1>4, <1>7
<1>17. /\ T \in 1..n /\ from[T] = p
       /\ \A i \in 1..n : i # T /\ Between(i) => from[i] = i \div 2
       /\ \A i \in 1..n : i # T /\ ~ Between(i) => from[i] = i
  BY <1>4, <1>5
<1> HIDE DEF from
<1>15. \A i \in 1..n : r[i] = IF i = T THEN h[p] ELSE IF i \in P /\ i > T THEN h[i \div 2] ELSE h[i]
  BY <1>2
<1>9. r \in Seq(S) /\ Len(r) = n
  <2>1. r \in [1..n -> S]
    BY <1>2, <1>3, <1>8
  <2> QED BY <2>1, <1>2
<1> HIDE DEF r
<1>16. \A i \in 1..n : from[i] = p => i = T
  <2>1. p \in P /\ T <= p /\ T \in 1..n
    <3>1. p \in P
      BY <1>2 DEF Way
    <3> QED BY <3>1, <1>4, <1>5
  <2> TAKE i \in 1..n
  <2>2. CASE i # T /\ i \in P /\ i > T
    BY <2>2, <1>7, <1>17
  <2>3. CASE i # T /\ ~(i \in P /\ i > T)
    BY <2>1, <2>3, <1>2, <1>17
  <2> QED BY <2>2, <2>3
<1>10. ASSUME NEW i \in 1..n, NEW k \in 1..n, from[i] = from[k] PROVE i = k
  <2>1. CASE i = T
    BY <2>1, <1>10, <1>16, <1>17
  <2>2. CASE k = T
    BY <2>2, <1>10, <1>16, <1>17
  <2>3. CASE i # T /\ k # T /\ i \in P /\ i > T /\ k \in P /\ k > T
    <3>1. i \div 2 = k \div 2 /\ i \div 2 < i /\ k \div 2 < k
      BY <2>3, <1>7, <1>10, <1>17
    <3>2. ~(i < k) /\ ~(k < i)
      BY <3>1, <2>3, <1>2, <1>4 DEF Way
    <3> QED BY <3>2
  <2>4. CASE i # T /\ k # T /\ i \in P /\ i > T /\ ~(k \in P /\ k > T)
    BY <2>4, <1>5, <1>7, <1>10, <1>17
  <2>5. CASE i # T /\ k # T /\ ~(i \in P /\ i > T) /\ k \in P /\ k > T
    BY <2>5, <1>5, <1>7, <1>10, <1>17
  <2>6. CASE i # T /\ k # T /\ ~(i \in P /\ i > T) /\ ~(k \in P /\ k > T)
    BY <2>6, <1>10, <1>17
  <2> QED BY <2>1, <2>2, <2>3, <2>4, <2>5, <2>6
<1>11. ASSUME NEW k \in 1..n PROVE \E i \in 1..n : from[i] = k
  <2>1. CASE k = p
    BY <2>1, <1>17
  <2>2. CASE k # p /\ k \in P /\ k >= T
    <3>1. PICK i \in P : i > 1 /\ i \div 2 = k
      BY <2>2, <1>2 DEF Way
    <3>2. i \in 1..n /\ i > T /\ i # T
      BY <3>1, <2>2, <1>4, <1>5, Halves
    <3> QED BY <3>1, <3>2, <1>17
  <2>3. CASE k # p /\ ~(k \in P /\ k >= T)
    BY <2>3, <1>4, <1>5, <1>17
  <2> QED BY <2>1, <2>2, <2>3
<1>12. NoneTwice(r)
  <2> SUFFICES ASSUME NEW i \in 1..n, NEW k \in 1..n, r[i] = r[k] PROVE i = k
    BY <1>9 DEF NoneTwice
  <2>1. h[from[i]] = h[from[k]] /\ from[i] \in 1..n /\ from[k] \in 1..n
    BY <1>8
  <2>2. from[i] = from[k]
    BY <2>1 DEF NoneTwice
  <2> QED BY <2>2, <1>10
<1>13. SameEntries(r, h)
  <2> SUFFICES ASSUME NEW e
               PROVE  (\E i \in 1..n : r[i] = e) <=> (\E i \in 1..n : h[i] = e)
    BY <1>9 DEF SameEntries
  <2>1. ASSUME NEW k \in 1..n, h[k] = e PROVE \E i \in 1..n : r[i] = e
    <3>1. PICK i \in 1..n : from[i] = k
      BY <1>11
    <3> QED BY <3>1, <1>8, <2>1
  <2> QED BY <1>8, <2>1
<1>14. Ordered(r, key)
  <2> SUFFICES ASSUME NEW i \in 2..n PROVE key[r[i \div 2]] <= key[r[i]]
    BY <1>9 DEF Ordered
  <2> DEFINE q == i \div 2
  <2>1. q \in 1..n /\ q < i /\ i \in 1..n /\ 2 * q <= i /\ q # p
    BY <1>2, Halves
  <2>2. i # p => key[h[q]] <= key[h[i]]
    BY <1>2 DEF OrderedBut
  <2>3. q > 1 => q \div 2 \in 1..n /\ key[h[q \div 2]] <= key[h[q]]
    BY <2>1, <1>2, Halves DEF OrderedBut
  <2>4. \A j \in P : j # p /\ j >= T => key[h[p]] < key[h[j]]
    BY <1>5
  <2>5. i \in P => q \in P
    BY <2>1, <1>2 DEF Way
  <2> HIDE DEF q
  <2> USE <1>3
  <2>6. CASE i = T
    <3>1. q \in P /\ q < T /\ key[h[q]] <= key[h[p]]
      BY <2>1, <2>6, <1>6 DEF q
    <3>2. q # T /\ ~(q \in P /\ q > T)
      BY <3>1, <1>4, <1>5
    <3>3. r[i] = h[p] /\ r[q] = h[q]
      BY <3>2, <2>1, <2>6, <1>15
    <3> QED BY <3>1, <3>3 DEF q
  <2>7. CASE i \in P /\ i > T
    <3>1. q \in P /\ T <= q
      BY <2>7, <1>7 DEF q
    <3>4. r[i] = h[q]
      <4>1. i # T
        BY <2>7, <1>4, <1>5
      <4> QED BY <4>1, <2>1, <2>7, <1>15 DEF q
    <3>2. CASE q = T
      <4>1. r[q] = h[p]
        BY <3>2, <2>1, <1>15
      <4>2. key[h[p]] < key[h[q]]
        BY <3>1, <3>2, <2>1, <2>4, <1>4
      <4>3. key[h[p]] \in Nat /\ key[h[q]] \in Nat
        BY <2>1, <1>2
      <4> QED BY <4>1, <4>2, <4>3, <3>4 DEF q
    <3>3. CASE q # T
      <4>1. q > T /\ q > 1 /\ r[q] = h[q \div 2]
        BY <3>1, <3>3, <2>1, <1>2, <1>4, <1>5, <1>15
      <4> QED BY <4>1, <3>4, <2>3 DEF q
    <3> QED BY <3>2, <3>3
  <2>8. CASE i \in P /\ i < T
    <3>1. T <= p /\ T \in Nat /\ i \in Nat /\ q \in Nat
      BY <2>8, <2>1, <1>4, <1>5
    <3>2. i # p /\ i # T /\ q # T /\ ~(i > T) /\ ~(q > T)
      BY <3>1, <2>1, <2>8, <1>2
    <3>3. r[i] = h[i] /\ r[q] = h[q]
      BY <3>2, <2>1, <1>15
    <3> QED BY <3>2, <3>3, <2>2 DEF q
  <2>9. CASE i \notin P
    <3>1. i # p /\ i # T /\ r[i] = h[i] /\ key[h[q]] <= key[h[i]]
      BY <2>9, <2>1, <2>2, <1>2, <1>5, <1>15 DEF Way
    <3>2. CASE q = T
      <4>1. r[q] = h[p]
        BY <3>2, <2>1, <1>15
      <4>2. key[h[p]] < key[h[q]]
        BY <3>2, <2>1, <2>4, <1>4, <1>5
      <4>3. key[r[q]] <= key[r[i]]
        BY <4>1, <4>2, <3>1, <2>1, <1>2
      <4> QED BY <4>3 DEF q
    <3>3. CASE q # T /\ q \in P /\ q > T
      <4>1. q > 1
        BY <3>3, <2>1, <1>4, <1>5
      <4>2. r[q] = h[q \div 2]
        BY <3>3, <2>1, <1>15
      <4>3. key[h[q \div 2]] \in Nat /\ key[h[q]] \in Nat /\ key[h[i]] \in Nat
        BY <4>1, <2>1, <2>3
      <4>4. key[h[q \div 2]] <= key[h[q]]
        BY <4>1, <2>3
      <4>5. key[r[q]] <= key[r[i]]
        BY <4>2, <4>3, <4>4, <3>1
      <4> QED BY <4>5 DEF q
    <3>4. CASE q # T /\ ~(q \in P /\ q > T)
      <4>1. r[q] = h[q]
        BY <3>4, <2>1, <1>2, <1>15
      <4> QED BY <4>1, <3>1 DEF q
    <3> QED BY <3>2, <3>3, <3>4
  <2> QED BY <2>6, <2>7, <2>8, <2>9, <2>1, <1>4, <1>5
<1> QED BY <1>1, <1>9, <1>12, <1>13, <1>14

(* A push adds the entry to a heap.                                         *)
LEMMA PushIs ==
  ASSUME NEW S, NEW h \in Seq(S), NEW key \in [S -> Nat], NEW e \in S,
         Ordered(h, key), NoneTwice(h), \A i \in 1..Len(h) : h[i] # e
  PROVE  /\ Heap!HeapPush(h, e, key) \in Seq(S)
         /\ Ordered(Heap!HeapPush(h, e, key), key)
         /\ NoneTwice(Heap!HeapPush(h, e, key))
         /\ Heap!ToSet(Heap!HeapPush(h, e, key)) = Heap!ToSet(h) \cup {e}
<1> DEFINE g == Append(h, e)
           p == Len(h) + 1
           r == Heap!Raise(g, p, key)
<1>1. /\ g \in Seq(S) /\ Len(g) = p /\ p \in Nat \ {0} /\ g[p] = e /\ Len(h) \in Nat
      /\ \A i \in 1..Len(h) : g[i] = h[i]
  OBVIOUS
<1>8. p = Len(h) + 1
  OBVIOUS
<1> HIDE DEF g, p
<1>2. p \in 1..Len(g) /\ 2 * p > Len(g)
  BY <1>1
<1>3. OrderedBut(g, p, key)
  <2> SUFFICES ASSUME NEW i \in (2..Len(g)) \ {p} PROVE key[g[i \div 2]] <= key[g[i]]
    BY DEF OrderedBut
  <2>1. i \in 2..Len(h) /\ i \div 2 \in 1..Len(h)
    BY <1>1, <1>8, Halves
  <2>2. g[i] = h[i] /\ g[i \div 2] = h[i \div 2]
    BY <2>1, <1>1
  <2> QED BY <2>1, <2>2 DEF Ordered
<1>4. NoneTwice(g)
  <2> SUFFICES ASSUME NEW i \in 1..p, NEW k \in 1..p, g[i] = g[k] PROVE i = k
    BY <1>1, <1>8 DEF NoneTwice
  <2>1. CASE i = p \/ k = p
    BY <2>1, <1>1, <1>8
  <2>2. CASE i # p /\ k # p
    <3>1. i \in 1..Len(h) /\ k \in 1..Len(h)
      BY <2>2, <1>1, <1>8
    <3> QED BY <3>1, <1>1 DEF NoneTwice
  <2> QED BY <2>1, <2>2
<1>5. /\ r \in Seq(S) /\ Len(r) = Len(g) /\ Ordered(r, key) /\ NoneTwice(r)
      /\ SameEntries(r, g)
  <2>1. g \in Seq(S) /\ p \in 1..Len(g) /\ 2 * p > Len(g)
    BY <1>1, <1>2
  <2> QED BY <2>1, <1>3, <1>4, RaiseIs, Zenon DEF r
<1>6. Heap!HeapPush(h, e, key) = r
  BY DEF Heap!HeapPush, g, p
<1> HIDE DEF r
<1>7. \A x : x \in Heap!ToSet(r) <=> x \in Heap!ToSet(h) \cup {e}
  <2>1. DOMAIN r = 1..Len(g) /\ DOMAIN h = 1..Len(h)
    BY <1>5
  <2>2. \A x : x \in Heap!ToSet(r) <=> \E i \in 1..Len(g) : g[i] = x
    BY <1>5, <2>1 DEF Heap!ToSet, SameEntries
  <2>3. \A x : x \in Heap!ToSet(h) <=> \E i \in 1..Len(h) : h[i] = x
    BY <2>1 DEF Heap!ToSet
  <2>4. \A x : (\E i \in 1..Len(g) : g[i] = x) <=> (\E i \in 1..Len(h) : h[i] = x) \/ x = e
    <3> SUFFICES ASSUME NEW x
                 PROVE  (\E i \in 1..Len(g) : g[i] = x) <=> (\E i \in 1..Len(h) : h[i] = x) \/ x = e
      OBVIOUS
    <3>1. \A i \in 1..Len(g) : i \in 1..Len(h) \/ i = p
      BY <1>1, <1>8
    <3>2. p \in 1..Len(g) /\ \A i \in 1..Len(h) : i \in 1..Len(g)
      BY <1>1, <1>8
    <3> QED BY <3>1, <3>2, <1>1
  <2> QED BY <2>2, <2>3, <2>4
<1> QED BY <1>5, <1>6, <1>7

LEMMA GreatestIs ==
  ASSUME NEW n \in Nat, NEW S \in SUBSET (1..n), S # {}
  PROVE  Heap!Max(S) \in S /\ \A k \in S : k <= Heap!Max(S)
<1> DEFINE D == {n - k : k \in S}
<1>1. PICK q \in D : \A r \in D : q <= r
  <2>1. \A k \in S : n - k \in Nat
    OBVIOUS
  <2>2. D \in SUBSET Nat /\ D # {}
    BY <2>1
  <2> QED BY <2>2, LeastNumber
<1>2. PICK m \in S : q = n - m
  BY <1>1
<1>3. \A k \in S : k <= m
  BY <1>1, <1>2
<1> QED BY <1>3 DEF Heap!Max

(* The smaller child of a place is below it and has the least key there.    *)
LEMMA SmallerChildIs ==
  ASSUME NEW S, NEW h \in Seq(S), NEW key \in [S -> Nat], NEW n \in Nat, Len(h) = n + 1,
         NEW i \in 1..n, 2 * i <= n
  PROVE  /\ Heap!SmallerChild(h, key, i) \in 2..n
         /\ Heap!SmallerChild(h, key, i) \div 2 = i
         /\ Heap!SmallerChild(h, key, i) > i
         /\ \A j \in 2..n : j \div 2 = i => key[h[Heap!SmallerChild(h, key, i)]] <= key[h[j]]
<1> DEFINE child == Heap!SmallerChild(h, key, i)
<1>1. 2 * i \in 2..n /\ (2 * i) \div 2 = i /\ (2 * i + 1) \div 2 = i
  OBVIOUS
<1>2. child = IF 2 * i + 1 <= n /\ ~(key[h[2 * i]] < key[h[2 * i + 1]])
              THEN 2 * i + 1 ELSE 2 * i
  BY <1>1 DEF Heap!SmallerChild
<1>3. \A j \in 1..n : key[h[j]] \in Nat
  OBVIOUS
<1>4. \A j \in 2..n : j \div 2 = i => j = 2 * i \/ j = 2 * i + 1
  BY Halves
<1> HIDE DEF child
<1>5. child \in 2..n /\ child \div 2 = i /\ child > i
  BY <1>1, <1>2
<1>6. ASSUME NEW j \in 2..n, j \div 2 = i PROVE key[h[child]] <= key[h[j]]
  <2>1. key[h[2 * i]] \in Nat /\ key[h[j]] \in Nat
    BY <1>1, <1>3
  <2>2. CASE j = 2 * i
    BY <2>1, <2>2, <1>2
  <2>3. CASE j = 2 * i + 1
    <3>1. 2 * i + 1 <= n
      BY <2>3
    <3>2. key[h[2 * i + 1]] \in Nat
      BY <2>1, <2>3
    <3> QED BY <2>1, <2>3, <3>1, <3>2, <1>2
  <2> QED BY <2>2, <2>3, <1>4, <1>6
<1> QED BY <1>5, <1>6 DEF child

(* The way down leads over smaller children to the bottom of the heap.      *)
LEMMA WayDownIs ==
  ASSUME NEW S, NEW h \in Seq(S), NEW key \in [S -> Nat], Len(h) > 1,
         NEW D, D = Heap!WayDown(h, key), NEW n, n = Len(h) - 1
  PROVE  /\ D \subseteq 1..n /\ 1 \in D
         /\ Heap!Max(D) \in D /\ 2 * Heap!Max(D) > n
         /\ \A i \in D : i > 1 => i \div 2 \in D /\ i = Heap!SmallerChild(h, key, i \div 2)
         /\ \A i \in D : i # Heap!Max(D) =>
               Heap!SmallerChild(h, key, i) \in D /\ Heap!SmallerChild(h, key, i) \div 2 = i
<1> DEFINE SC(i) == Heap!SmallerChild(h, key, i)
           L == Heap!Max(D)
<1>1. n \in Nat \ {0} /\ Len(h) = n + 1
  OBVIOUS
<1>2. \A i \in 1..n : i \in D <=> \A j \in Heap!PathUp(i) \ {1} : j = SC(j \div 2)
  BY DEF Heap!WayDown
<1>3. D \subseteq 1..n
  BY DEF Heap!WayDown
<1>4. ASSUME NEW i \in 1..n, 2 * i <= n
      PROVE  SC(i) \in 2..n /\ SC(i) \div 2 = i /\ SC(i) > i
  BY <1>1, <1>4, SmallerChildIs
<1>5. \A i \in 1..n : Heap!PathUp(i) = {i} \cup Heap!PathUp(i \div 2)
  BY PathUpStep
<1> HIDE DEF SC
<1>6. 1 \in D
  <2>1. Heap!PathUp(1) \subseteq {1}
    BY PathUpIsWay DEF Way
  <2> QED BY <2>1, <1>1, <1>2
<1>7. ASSUME NEW i \in D, i > 1 PROVE i \div 2 \in D /\ i = SC(i \div 2) /\ i \div 2 < i
  <2>1. i \in 1..n /\ i \div 2 \in 1..n /\ i \div 2 < i
    BY <1>3, <1>7, Halves
  <2>2. Heap!PathUp(i) = {i} \cup Heap!PathUp(i \div 2)
    BY <2>1, <1>5, <1>7
  <2>3. \A j \in Heap!PathUp(i) \ {1} : j = SC(j \div 2)
    BY <2>1, <1>2
  <2>4. i = SC(i \div 2)
    BY <2>2, <2>3, <1>7
  <2>5. i \div 2 \in D
    BY <2>1, <2>2, <2>3, <1>2
  <2> QED BY <2>1, <2>4, <2>5
<1>8. ASSUME NEW i \in D, 2 * i <= n PROVE SC(i) \in D
  <2>1. SC(i) \in 1..n /\ SC(i) > 1 /\ SC(i) \div 2 = i
    BY <1>3, <1>4, <1>8
  <2>2. Heap!PathUp(SC(i)) = {SC(i)} \cup Heap!PathUp(i)
    BY <2>1, <1>5
  <2> QED BY <2>1, <2>2, <1>2, <1>3, <1>8
<1>9. L \in D /\ \A k \in D : k <= L
  BY <1>1, <1>3, <1>6, GreatestIs
<1> HIDE DEF L
<1>10. 2 * L > n
  <2>1. SUFFICES ASSUME 2 * L <= n PROVE FALSE
    BY <1>1, <1>3, <1>9
  <2>2. SC(L) \in D /\ SC(L) > L
    BY <2>1, <1>3, <1>4, <1>8, <1>9
  <2> QED BY <2>2, <1>3, <1>9
(* Two places of it are one above the other.                                *)
<1>11. \A i, j \in D : i < j => i <= j \div 2
  <2> DEFINE Bad == {j \in D : \E i \in D : i < j /\ j \div 2 < i}
  <2>1. SUFFICES ASSUME Bad # {} PROVE FALSE
    <3>1. \A i, j \in D : i \in Nat /\ j \div 2 \in Nat
      BY <1>3, Halves
    <3> QED BY <2>1, <3>1
  <2>2. PICK j \in Bad : \A k \in Bad : j <= k
    <3>1. Bad \in SUBSET Nat
      BY <1>3
    <3> QED BY <2>1, <3>1, LeastNumber
  <2>3. PICK i \in D : i < j /\ j \div 2 < i
    BY <2>2
  <2>4. i \in Nat /\ j \in Nat /\ j > 1 /\ i > 1
    <3>1. i \in 1..n /\ j \in 1..n
      BY <2>2, <2>3, <1>3
    <3>2. j > 1
      BY <3>1, <2>3
    <3>3. j \div 2 >= 1
      BY <3>1, <3>2, Halves
    <3> QED BY <3>1, <3>2, <3>3, <2>3
  <2>5. j \div 2 \in D /\ i \div 2 \in D /\ j \div 2 \in Nat /\ i \div 2 \in Nat
        /\ i = SC(i \div 2) /\ j = SC(j \div 2) /\ i \div 2 <= j \div 2
    <3>1. i \div 2 <= j \div 2
      BY <2>3, <2>4
    <3> QED BY <3>1, <2>2, <2>3, <2>4, <1>7, <1>3
  <2>6. i \div 2 # j \div 2
    <3>1. i \div 2 = j \div 2 => SC(i \div 2) = SC(j \div 2)
      OBVIOUS
    <3>2. i # j
      BY <2>3, <2>4
    <3> QED BY <3>1, <3>2, <2>5
  <2>7. i \in Bad
    BY <2>3, <2>5, <2>6
  <2> QED BY <2>2, <2>3, <2>4, <2>7
<1>12. ASSUME NEW i \in D, i # L PROVE SC(i) \in D /\ SC(i) \div 2 = i
  <2>1. i \in 1..n /\ L \in 1..n /\ i < L
    BY <1>3, <1>9, <1>12
  <2>2. i <= L \div 2
    BY <2>1, <1>9, <1>11
  <2>3. 2 * i <= n
    BY <2>1, <2>2, Halves
  <2> QED BY <2>1, <2>3, <1>4, <1>8
<1> QED BY <1>3, <1>6, <1>7, <1>9, <1>10, <1>12 DEF SC, L

(* The root of a heap has the least key.                                    *)
LEMMA RootIsLeast ==
  ASSUME NEW S, NEW h \in Seq(S), NEW key \in [S -> Nat], Ordered(h, key)
  PROVE  \A i \in 1..Len(h) : key[h[1]] <= key[h[i]]
<1> DEFINE Bad == {i \in 1..Len(h) : ~(key[h[1]] <= key[h[i]])}
<1>1. SUFFICES ASSUME Bad # {} PROVE FALSE
  OBVIOUS
<1>2. PICK i \in Bad : \A k \in Bad : i <= k
  BY <1>1, LeastNumber, Bad \in SUBSET Nat
<1>3. \A k \in 1..Len(h) : key[h[k]] \in Nat
  OBVIOUS
<1>4. i > 1
  BY <1>2, <1>3
<1>5. i \in 2..Len(h) /\ i \div 2 \in 1..Len(h) /\ i \div 2 < i
  BY <1>2, <1>4, Halves
<1>6. key[h[1]] <= key[h[i \div 2]]
  BY <1>2, <1>5
<1>7. key[h[i \div 2]] <= key[h[i]]
  BY <1>5 DEF Ordered
<1> QED BY <1>2, <1>3, <1>5, <1>6, <1>7

LEMMA MoreThanOne ==
  ASSUME NEW l \in Nat \ {0}, l # 1
  PROVE  l - 1 \in Nat \ {0} /\ l = l - 1 + 1 /\ l > 1
  OBVIOUS

(* A pop takes the root away and leaves a heap of the other entries.        *)
LEMMA PopIs ==
  ASSUME NEW S, NEW h \in Seq(S), NEW key \in [S -> Nat], h # << >>,
         Ordered(h, key), NoneTwice(h)
  PROVE  /\ Heap!HeapPop(h, key) \in Seq(S)
         /\ Ordered(Heap!HeapPop(h, key), key)
         /\ NoneTwice(Heap!HeapPop(h, key))
         /\ Heap!ToSet(Heap!HeapPop(h, key)) = Heap!ToSet(h) \ {h[1]}
<1>1. CASE Len(h) = 1
  <2>1. Heap!HeapPop(h, key) = << >>
    BY <1>1 DEF Heap!HeapPop
  <2>2. Heap!ToSet(h) = {h[1]}
    BY <1>1 DEF Heap!ToSet
  <2>3. << >> \in Seq(S) /\ Len(<< >>) = 0 /\ Heap!ToSet(<< >>) = {}
    BY DEF Heap!ToSet
  <2> QED BY <2>1, <2>2, <2>3 DEF Ordered, NoneTwice
<1>2. CASE Len(h) # 1
  <2> DEFINE n == Len(h) - 1
             D == Heap!WayDown(h, key)
             L == Heap!Max(D)
             SC(i) == Heap!SmallerChild(h, key, i)
             g == [i \in 1..n |-> IF i = L THEN h[Len(h)] ELSE IF i \in D THEN h[SC(i)] ELSE h[i]]
             from == [i \in 1..n |-> IF i = L THEN n + 1 ELSE IF i \in D THEN SC(i) ELSE i]
             r == Heap!Raise(g, L, key)
  <2>2. Heap!HeapPop(h, key) = r
    BY <1>2, Zenon DEF Heap!HeapPop
  <2> HIDE DEF D, L, SC, g, from, r
  <2>1. n \in Nat \ {0} /\ Len(h) = n + 1 /\ Len(h) > 1
    <3>1. Len(h) \in Nat \ {0}
      BY EmptySeq
    <3> QED BY <3>1, <1>2, MoreThanOne, Zenon DEF n
  <2>3. /\ D \subseteq 1..n /\ 1 \in D /\ L \in D /\ 2 * L > n
        /\ \A i \in D : i > 1 => i \div 2 \in D /\ i = SC(i \div 2)
        /\ \A i \in D : i # L => SC(i) \in D /\ SC(i) \div 2 = i
        /\ \A i \in 1..n : 2 * i <= n =>
              /\ SC(i) \in 2..n /\ SC(i) \div 2 = i
              /\ \A j \in 2..n : j \div 2 = i => key[h[SC(i)]] <= key[h[j]]
    <3> HIDE DEF D, n, L, SC
    <3>1. /\ D = Heap!WayDown(h, key) /\ n = Len(h) - 1 /\ L = Heap!Max(D)
          /\ \A i : SC(i) = Heap!SmallerChild(h, key, i)
      BY DEF D, n, L, SC
    <3>2. /\ D \subseteq 1..n /\ 1 \in D /\ Heap!Max(D) \in D /\ 2 * Heap!Max(D) > n
          /\ \A i \in D : i > 1 => i \div 2 \in D /\ i = Heap!SmallerChild(h, key, i \div 2)
          /\ \A i \in D : i # Heap!Max(D) =>
               Heap!SmallerChild(h, key, i) \in D /\ Heap!SmallerChild(h, key, i) \div 2 = i
      BY <2>1, <3>1, WayDownIs
    <3>4. /\ D \subseteq 1..n /\ 1 \in D /\ L \in D /\ 2 * L > n
          /\ \A i \in D : i > 1 => i \div 2 \in D /\ i = SC(i \div 2)
          /\ \A i \in D : i # L => SC(i) \in D /\ SC(i) \div 2 = i
      BY <3>1, <3>2, Zenon
    <3>5. \A i \in 1..n : 2 * i <= n =>
              /\ SC(i) \in 2..n /\ SC(i) \div 2 = i
              /\ \A j \in 2..n : j \div 2 = i => key[h[SC(i)]] <= key[h[j]]
      <4> SUFFICES ASSUME NEW i \in 1..n, 2 * i <= n
                   PROVE  /\ SC(i) \in 2..n /\ SC(i) \div 2 = i
                          /\ \A j \in 2..n : j \div 2 = i => key[h[SC(i)]] <= key[h[j]]
        OBVIOUS
      <4> QED BY <2>1, <3>1, SmallerChildIs
    <3> QED BY <3>4, <3>5
  <2> HIDE DEF D, SC, L, n
  <2>4. \A i \in 1..(n + 1) : h[i] \in S /\ key[h[i]] \in Nat
    BY <2>1
  <2>5. \A i \in D : i # L => SC(i) \in 2..n
    <3> SUFFICES ASSUME NEW i \in D, i # L PROVE SC(i) \in 2..n
      OBVIOUS
    <3>1. SC(i) \in 1..n /\ SC(i) \div 2 = i /\ i \in 1..n
      BY <2>3
    <3> QED BY <3>1, <2>1, Halves
  <2>6. /\ \A i \in 1..n : g[i] = h[from[i]] /\ from[i] \in 2..(n + 1)
        /\ from[L] = n + 1
        /\ \A i \in D : i # L => from[i] = SC(i)
        /\ \A i \in (1..n) \ D : from[i] = i
    <3>1. L \in 1..n
      BY <2>3
    <3>2. \A i \in (1..n) \ D : i \in 2..(n + 1) /\ i # L
      BY <2>3, <2>1
    <3>3. \A i \in D : i \in 1..n /\ (i # L => SC(i) \in 2..(n + 1))
      BY <2>1, <2>3, <2>5
    <3>4. /\ from[L] = n + 1
          /\ \A i \in D : i # L => from[i] = SC(i)
          /\ \A i \in (1..n) \ D : from[i] = i
      BY <3>1, <3>2, <3>3 DEF from
    <3>5. ASSUME NEW i \in 1..n PROVE g[i] = h[from[i]] /\ from[i] \in 2..(n + 1)
      <4>1. CASE i = L
        BY <4>1, <3>4, <2>1 DEF g
      <4>2. CASE i # L /\ i \in D
        BY <4>2, <3>3, <3>4 DEF g
      <4>3. CASE i \notin D
        BY <4>3, <3>2, <3>4 DEF g
      <4> QED BY <4>1, <4>2, <4>3
    <3> QED BY <3>4, <3>5
  <2>7. g \in Seq(S) /\ Len(g) = n
    <3>1. \A i \in 1..n : g[i] \in S
      <4> SUFFICES ASSUME NEW i \in 1..n PROVE g[i] \in S
        OBVIOUS
      <4>1. from[i] \in 1..(n + 1)
        BY <2>1, <2>6
      <4> QED BY <4>1, <2>4, <2>6
    <3>2. g = [i \in 1..n |-> g[i]]
      BY DEF g
    <3> HIDE DEF g
    <3>3. g \in [1..n -> S]
      BY <3>1, <3>2
    <3> QED BY <3>3, <2>1
  <2>8. ASSUME NEW i \in 1..n, NEW k \in 1..n, from[i] = from[k] PROVE i = k
    <3>1. \A j \in 1..n : from[j] = n + 1 => j = L
      <4> SUFFICES ASSUME NEW j \in 1..n, j # L PROVE from[j] # n + 1
        OBVIOUS
      <4>1. CASE j \in D
        <5>1. from[j] \in 2..n
          BY <4>1, <2>5, <2>6
        <5> QED BY <5>1, <2>1
      <4>2. CASE j \notin D
        BY <4>2, <2>6, <2>1
      <4> QED BY <4>1, <4>2
    <3>2. CASE i = L \/ k = L
      BY <3>1, <3>2, <2>6, <2>8
    <3>3. CASE i # L /\ k # L /\ i \in D /\ k \in D
      <4>1. SC(i) = SC(k) /\ SC(i) \div 2 = i /\ SC(k) \div 2 = k
        BY <3>3, <2>3, <2>6, <2>8
      <4> QED BY <4>1
    <3>4. CASE i # L /\ k # L /\ i \in D /\ k \notin D
      BY <3>4, <2>3, <2>6, <2>8
    <3>5. CASE i # L /\ k # L /\ i \notin D /\ k \in D
      BY <3>5, <2>3, <2>6, <2>8
    <3>6. CASE i # L /\ k # L /\ i \notin D /\ k \notin D
      BY <3>6, <2>6, <2>8
    <3> QED BY <3>2, <3>3, <3>4, <3>5, <3>6
  <2>9. ASSUME NEW k \in 2..(n + 1) PROVE \E i \in 1..n : from[i] = k
    <3>1. CASE k = n + 1
      BY <3>1, <2>3, <2>6
    <3>2. CASE k # n + 1 /\ k \in D
      <4>1. k \in 2..n /\ k \div 2 \in D /\ k = SC(k \div 2)
        BY <3>2, <2>1, <2>3
      <4>2. k \div 2 # L
        <5>1. L \in 1..n
          BY <2>3
        <5> QED BY <5>1, <4>1, <2>1, <2>3, Halves
      <4> QED BY <4>1, <4>2, <2>3, <2>6
    <3>3. CASE k # n + 1 /\ k \notin D
      <4>1. k \in 1..n
        BY <3>3, <2>1
      <4> QED BY <4>1, <3>3, <2>6
    <3> QED BY <3>1, <3>2, <3>3
  <2>10. NoneTwice(g)
    <3> SUFFICES ASSUME NEW i \in 1..n, NEW k \in 1..n, g[i] = g[k] PROVE i = k
      BY <2>7 DEF NoneTwice
    <3>1. h[from[i]] = h[from[k]] /\ from[i] \in 1..Len(h) /\ from[k] \in 1..Len(h)
      BY <2>1, <2>6
    <3>2. from[i] = from[k]
      BY <3>1 DEF NoneTwice
    <3> QED BY <3>2, <2>8
  <2>11. OrderedBut(g, L, key)
    <3> SUFFICES ASSUME NEW i \in (2..n) \ {L} PROVE key[g[i \div 2]] <= key[g[i]]
      BY <2>7 DEF OrderedBut
    <3> DEFINE q == i \div 2
    <3>1. q \in 1..n /\ i \in 1..n /\ 2 * q <= n /\ q # L /\ i \in 2..Len(h) /\ i \in 2..n
      <4>1. L \in 1..n
        BY <2>3
      <4> QED BY <4>1, <2>1, <2>3, Halves
    <3>2. CASE i \in D
      <4>1. q \in D /\ i = SC(q) /\ SC(i) \in 2..n /\ SC(i) \div 2 = i
        <5>1. i > 1 /\ i # L
          BY <3>1
        <5>2. q \in D /\ i = SC(q)
          BY <5>1, <3>2, <2>3
        <5> QED BY <5>1, <5>2, <3>2, <2>3, <2>5
      <4>2. g[q] = h[i] /\ g[i] = h[SC(i)]
        BY <4>1, <3>1, <3>2, <2>6
      <4>3. key[h[i]] <= key[h[SC(i)]]
        <5>1. SC(i) \in 2..Len(h)
          BY <4>1, <2>1
        <5> QED BY <5>1, <4>1 DEF Ordered
      <4> QED BY <4>2, <4>3
    <3>3. CASE i \notin D /\ q \in D
      <4>1. g[i] = h[i] /\ g[q] = h[SC(q)]
        BY <3>1, <3>3, <2>6
      <4>2. key[h[SC(q)]] <= key[h[i]]
        BY <3>1, <2>3
      <4> QED BY <4>1, <4>2
    <3>4. CASE i \notin D /\ q \notin D
      <4>1. g[i] = h[i] /\ g[q] = h[q]
        BY <3>1, <3>4, <2>6
      <4> QED BY <4>1, <3>1 DEF Ordered
    <3> QED BY <3>2, <3>3, <3>4
  <2>12. r \in Seq(S) /\ Ordered(r, key) /\ NoneTwice(r) /\ SameEntries(r, g)
    <3>1. L \in 1..Len(g) /\ 2 * L > Len(g)
      BY <2>3, <2>7
    <3> QED BY <3>1, <2>7, <2>10, <2>11, RaiseIs DEF r
  <2>13. \A x : x \in Heap!ToSet(r) <=> x \in Heap!ToSet(h) \ {h[1]}
    <3>1. DOMAIN r = 1..Len(r) /\ DOMAIN h = 1..(n + 1)
      BY <2>1, <2>12
    <3>2. \A x : x \in Heap!ToSet(r) <=> \E i \in 1..n : g[i] = x
      BY <2>7, <2>12, <3>1 DEF Heap!ToSet, SameEntries
    <3>3. \A x : x \in Heap!ToSet(h) <=> \E i \in 1..(n + 1) : h[i] = x
      BY <3>1 DEF Heap!ToSet
    <3>4. ASSUME NEW x, x \in Heap!ToSet(r) PROVE x \in Heap!ToSet(h) /\ x # h[1]
      <4>1. PICK i \in 1..n : g[i] = x
        BY <3>2, <3>4
      <4>2. x = h[from[i]] /\ from[i] \in 1..Len(h) /\ from[i] # 1 /\ 1 \in 1..Len(h)
        BY <4>1, <2>1, <2>6
      <4> QED BY <4>2, <2>1, <3>3 DEF NoneTwice
    <3>5. ASSUME NEW x, x \in Heap!ToSet(h), x # h[1] PROVE x \in Heap!ToSet(r)
      <4>1. PICK k \in 1..(n + 1) : h[k] = x
        BY <3>3, <3>5
      <4>2. k \in 2..(n + 1)
        BY <4>1, <3>5, <2>1
      <4>3. PICK i \in 1..n : from[i] = k
        BY <4>2, <2>9
      <4> QED BY <4>1, <4>3, <3>2, <2>6
    <3> QED BY <3>4, <3>5
  <2> QED BY <2>2, <2>12, <2>13
<1> QED BY <1>1, <1>2

(* What the heap of the semaphore keeps: it is one, of tickets that nobody  *)
(* holds twice and that nobody has been granted.                            *)
HeapInv ==
  /\ heap \in Seq(Tasks)
  /\ prio \in [Tasks -> Heap!PS!Priority]
  /\ pc \in [Tasks -> Heap!PS!Place]
  /\ Ordered(heap, prio)
  /\ NoneTwice(heap)
  /\ \A t \in Heap!ToSet(heap) : pc[t] \in {"waiting", "cancelled"}

LEMMA PrioritiesAreNumbers == Heap!PS!Priority = {0, 1, 2} /\ Heap!PS!Priority \subseteq Nat
  BY DEF Heap!PS!Priority, Heap!PS!HIGH, Heap!PS!DEFAULT, Heap!PS!LOW

LEMMA EntriesOf ==
  ASSUME NEW S, NEW h \in Seq(S)
  PROVE  /\ \A x : x \in Heap!ToSet(h) <=> \E i \in 1..Len(h) : h[i] = x
         /\ Heap!ToSet(h) \subseteq S
         /\ Heap!ToSet(h) = {} <=> h = << >>
         /\ NoneTwice(h) => Heap!PS!Cardinality(Heap!ToSet(h)) = Len(h)
<1>1. Len(h) \in Nat /\ DOMAIN h = 1..Len(h) /\ \A i \in 1..Len(h) : h[i] \in S
  OBVIOUS
<1>2. \A x : x \in Heap!ToSet(h) <=> \E i \in 1..Len(h) : h[i] = x
  BY <1>1 DEF Heap!ToSet
<1>3. Heap!ToSet(h) \subseteq S
  BY <1>1, <1>2
<1>4. Heap!ToSet(h) = {} <=> h = << >>
  <2>1. h = << >> => Heap!ToSet(h) = {}
    BY DEF Heap!ToSet
  <2>2. h # << >> => Len(h) \in Nat \ {0}
    BY EmptySeq
  <2>3. h # << >> => h[1] \in Heap!ToSet(h)
    BY <2>2, <1>2
  <2> QED BY <2>1, <2>3
<1>5. ASSUME NoneTwice(h) PROVE Heap!PS!Cardinality(Heap!ToSet(h)) = Len(h)
  <2> DEFINE f == [i \in 1..Len(h) |-> h[i]]
  <2>1. f \in Bijection(1..Len(h), Heap!ToSet(h))
    <3>1. f \in [1..Len(h) -> Heap!ToSet(h)]
      BY <1>2
    <3>2. \A i, j \in 1..Len(h) : f[i] = f[j] => i = j
      BY <1>5 DEF NoneTwice
    <3>3. \A x \in Heap!ToSet(h) : \E i \in 1..Len(h) : f[i] = x
      BY <1>2
    <3> QED BY <3>1, <3>2, <3>3 DEF Bijection, Injection, Surjection, IsInjective
  <2>2. Cardinality(Heap!ToSet(h)) = Len(h)
    BY <2>1, <1>1, FS_CountingElements DEF ExistsBijection
  <2>3. Heap!PS!Cardinality(Heap!ToSet(h)) = Cardinality(Heap!ToSet(h))
    BY Zenon DEF Heap!PS!Cardinality, Cardinality
  <2> QED BY <2>2, <2>3
<1> QED BY <1>2, <1>3, <1>4, <1>5

LEMMA HeapInit == Heap!Init => HeapInv /\ Heap!PS!Init
<1> SUFFICES ASSUME Heap!Init PROVE HeapInv /\ Heap!PS!Init
  OBVIOUS
<1>1. /\ available = Concurrency /\ heap = << >>
      /\ prio = [t \in Tasks |-> Heap!PS!DEFAULT] /\ pc = [t \in Tasks |-> "idle"]
  BY DEF Heap!Init
<1>2. Heap!ToSet(heap) = {} /\ heap \in Seq(Tasks) /\ Len(heap) = 0
  BY <1>1 DEF Heap!ToSet
<1>3. Heap!PS!DEFAULT \in Heap!PS!Priority
  BY DEF Heap!PS!Priority
<1>4. HeapInv
  BY <1>1, <1>2, <1>3 DEF HeapInv, Ordered, NoneTwice, Heap!PS!Place
<1>5. Heap!PS!Init
  BY <1>1, <1>2 DEF Heap!PS!Init
<1> QED BY <1>4, <1>5

(* A task that has not asked is not in the heap, and its priority is not    *)
(* looked at.                                                               *)
LEMMA HeapOfOthers ==
  ASSUME HeapInv, NEW t \in Tasks, pc[t] = "idle", NEW p \in Heap!PS!Priority
  PROVE  /\ \A i \in 1..Len(heap) : heap[i] \in Tasks /\ heap[i] # t
         /\ Ordered(heap, [prio EXCEPT ![t] = p])
         /\ [prio EXCEPT ![t] = p] \in [Tasks -> Heap!PS!Priority]
<1>1. \A i \in 1..Len(heap) : heap[i] \in Tasks /\ heap[i] # t
  BY EntriesOf DEF HeapInv
<1>2. Ordered(heap, [prio EXCEPT ![t] = p])
  <2> SUFFICES ASSUME NEW i \in 2..Len(heap)
               PROVE  [prio EXCEPT ![t] = p][heap[i \div 2]] <= [prio EXCEPT ![t] = p][heap[i]]
    BY DEF Ordered
  <2>1. i \in 1..Len(heap) /\ i \div 2 \in 1..Len(heap)
    BY Halves DEF HeapInv
  <2>2. prio[heap[i \div 2]] <= prio[heap[i]]
    BY DEF HeapInv, Ordered
  <2> QED BY <1>1, <2>1, <2>2 DEF HeapInv
<1> QED BY <1>1, <1>2 DEF HeapInv

LEMMA HeapAcquire ==
  ASSUME HeapInv, QueueLimit \in Nat, NEW t \in Tasks, NEW p \in Heap!PS!Priority,
         Heap!Acquire(t, p)
  PROVE  HeapInv' /\ Heap!PS!Acquire(t)
<1> DEFINE key == [prio EXCEPT ![t] = p]
<1>1. /\ pc[t] = "idle" /\ prio' = key
      /\ heap \in Seq(Tasks) /\ pc \in [Tasks -> Heap!PS!Place] /\ NoneTwice(heap)
      /\ \A u \in Heap!ToSet(heap) : pc[u] \in {"waiting", "cancelled"}
  BY DEF Heap!Acquire, HeapInv
<1>2. /\ \A i \in 1..Len(heap) : heap[i] \in Tasks /\ heap[i] # t
      /\ Ordered(heap, key) /\ key \in [Tasks -> Heap!PS!Priority]
  BY <1>1, HeapOfOthers
<1>3. t \notin Heap!ToSet(heap) /\ Heap!ToSet(heap) \subseteq Tasks
      /\ Heap!PS!Cardinality(Heap!ToSet(heap)) = Len(heap) /\ Len(heap) \in Nat
  BY <1>1, EntriesOf
<1> HIDE DEF key
<1>4. ASSUME NEW s \in {"running", "refused", "waiting"}, pc' = [pc EXCEPT ![t] = s]
      PROVE  /\ pc' \in [Tasks -> Heap!PS!Place]
             /\ \A u \in Heap!ToSet(heap) : pc'[u] \in {"waiting", "cancelled"}
  BY <1>1, <1>3, <1>4 DEF Heap!PS!Place
<1>5. CASE /\ available > 0 /\ available' = available - 1
           /\ pc' = [pc EXCEPT ![t] = "running"] /\ UNCHANGED heap
  <2>1. HeapInv'
    BY <1>1, <1>2, <1>4, <1>5 DEF HeapInv
  <2>2. Heap!PS!AcquireFree(t, p)
    BY <1>1, <1>5 DEF Heap!PS!AcquireFree, key
  <2> QED BY <2>1, <2>2 DEF Heap!PS!Acquire
<1>6. CASE /\ available = 0 /\ p # Heap!PS!LOW /\ Len(heap) > QueueLimit
           /\ pc' = [pc EXCEPT ![t] = "refused"] /\ UNCHANGED <<available, heap>>
  <2>1. HeapInv'
    BY <1>1, <1>2, <1>4, <1>6 DEF HeapInv
  <2>2. Heap!PS!TooManyWaiting(p)
    BY <1>3, <1>6 DEF Heap!PS!TooManyWaiting, Heap!PS!Priority
  <2>3. Heap!PS!AcquireRefused(t, p)
    BY <1>1, <1>6, <2>2 DEF Heap!PS!AcquireRefused, key
  <2> QED BY <2>1, <2>3 DEF Heap!PS!Acquire
<1>7. CASE /\ available = 0 /\ (p = Heap!PS!LOW \/ Len(heap) <= QueueLimit)
           /\ pc' = [pc EXCEPT ![t] = "waiting"]
           /\ heap' = Heap!Enqueue(t, p) /\ UNCHANGED available
  <2>1. heap' = Heap!HeapPush(heap, t, key)
    BY <1>7 DEF Heap!Enqueue, key
  <2>2. /\ heap' \in Seq(Tasks) /\ Ordered(heap', key) /\ NoneTwice(heap')
        /\ Heap!ToSet(heap') = Heap!ToSet(heap) \cup {t}
    <3>1. key \in [Tasks -> Nat]
      BY <1>2, PrioritiesAreNumbers
    <3> QED BY <3>1, <2>1, <1>1, <1>2, PushIs
  <2>3. /\ pc' \in [Tasks -> Heap!PS!Place]
        /\ \A u \in Heap!ToSet(heap') : pc'[u] \in {"waiting", "cancelled"}
    BY <1>1, <1>4, <1>7, <2>2
  <2>4. HeapInv'
    BY <1>1, <1>2, <2>2, <2>3 DEF HeapInv
  <2>5. ~ Heap!PS!TooManyWaiting(p)
    BY <1>3, <1>7, PrioritiesAreNumbers
       DEF Heap!PS!TooManyWaiting, Heap!PS!HIGH, Heap!PS!DEFAULT, Heap!PS!LOW
  <2>6. Heap!PS!AcquireWait(t, p)
    BY <1>1, <1>7, <2>2, <2>5 DEF Heap!PS!AcquireWait, key
  <2> QED BY <2>4, <2>6 DEF Heap!PS!Acquire
<1>8. \/ /\ available > 0 /\ available' = available - 1
         /\ pc' = [pc EXCEPT ![t] = "running"] /\ UNCHANGED heap
      \/ /\ available = 0 /\ p # Heap!PS!LOW /\ Len(heap) > QueueLimit
         /\ pc' = [pc EXCEPT ![t] = "refused"] /\ UNCHANGED <<available, heap>>
      \/ /\ available = 0 /\ (p = Heap!PS!LOW \/ Len(heap) <= QueueLimit)
         /\ pc' = [pc EXCEPT ![t] = "waiting"] /\ heap' = Heap!Enqueue(t, p) /\ UNCHANGED available
  BY DEF Heap!Acquire
<1> QED BY <1>5, <1>6, <1>7, <1>8

LEMMA HeapRelease ==
  ASSUME HeapInv, NEW t \in Tasks, Heap!Release(t)
  PROVE  HeapInv' /\ Heap!PS!Release(t)
<1>1. /\ pc[t] = "running" /\ prio' = prio
      /\ heap \in Seq(Tasks) /\ pc \in [Tasks -> Heap!PS!Place] /\ NoneTwice(heap)
      /\ Ordered(heap, prio) /\ prio \in [Tasks -> Heap!PS!Priority] /\ prio \in [Tasks -> Nat]
      /\ \A u \in Heap!ToSet(heap) : pc[u] \in {"waiting", "cancelled"}
  BY PrioritiesAreNumbers DEF Heap!Release, HeapInv
<1>2. CASE /\ heap = << >> /\ available' = available + 1
           /\ pc' = [pc EXCEPT ![t] = "done"] /\ UNCHANGED heap
  <2>1. Heap!ToSet(heap) = {}
    BY <1>1, <1>2, EntriesOf
  <2>2. Heap!PS!ReleaseToNobody(t)
    BY <1>1, <1>2, <2>1 DEF Heap!PS!ReleaseToNobody
  <2>3. HeapInv'
    BY <1>1, <1>2, <2>1 DEF HeapInv, Heap!PS!Place
  <2> QED BY <2>2, <2>3 DEF Heap!PS!Release
<1>3. CASE /\ heap # << >> /\ heap' = Heap!Dequeue
           /\ IF pc[heap[1]] = "waiting"
              THEN pc' = [pc EXCEPT ![t] = "done", ![heap[1]] = "granted"] /\ UNCHANGED available
              ELSE pc' = [pc EXCEPT ![t] = "done"] /\ available' = available + 1
  <2> DEFINE u == heap[1]
  <2>1. /\ heap' \in Seq(Tasks) /\ Ordered(heap', prio) /\ NoneTwice(heap')
        /\ Heap!ToSet(heap') = Heap!ToSet(heap) \ {u}
    BY <1>1, <1>3, PopIs DEF Heap!Dequeue
  <2>2. Len(heap) \in Nat \ {0}
    BY <1>1, <1>3, EmptySeq
  <2>3. /\ Heap!ToSet(heap) \subseteq Tasks /\ u \in Tasks
        /\ u \in Heap!ToSet(heap) /\ t \notin Heap!ToSet(heap)
    <3>1. /\ Heap!ToSet(heap) \subseteq Tasks
          /\ \A x : x \in Heap!ToSet(heap) <=> \E i \in 1..Len(heap) : heap[i] = x
      BY <1>1, EntriesOf
    <3>2. u \in Heap!ToSet(heap)
      BY <2>2, <3>1
    <3> QED BY <1>1, <3>1, <3>2
  <2>4. u \in Heap!PS!Foremost
    <3>1. \A i \in 1..Len(heap) : prio[heap[1]] <= prio[heap[i]]
      BY <1>1, RootIsLeast
    <3>2. \A x \in Heap!ToSet(heap) : prio[u] <= prio[x]
      BY <3>1, <1>1, EntriesOf
    <3> QED BY <2>3, <3>2 DEF Heap!PS!Foremost
  <2> HIDE DEF u
  <2>5. CASE pc[u] = "waiting"
    <3>1. pc' = [pc EXCEPT ![t] = "done", ![u] = "granted"] /\ available' = available
      BY <1>3, <2>5 DEF u
    <3>2. Heap!PS!ReleaseToWaiter(t, u)
      BY <1>1, <2>1, <2>4, <2>5, <3>1 DEF Heap!PS!ReleaseToWaiter
    <3>3. HeapInv'
      BY <1>1, <2>1, <2>3, <3>1 DEF HeapInv, Heap!PS!Place
    <3> QED BY <2>3, <3>2, <3>3 DEF Heap!PS!Release
  <2>6. CASE pc[u] # "waiting"
    <3>1. pc' = [pc EXCEPT ![t] = "done"] /\ available' = available + 1
      BY <1>3, <2>6 DEF u
    <3>2. Heap!PS!ReleaseToDeadTicket(t, u)
      BY <1>1, <2>1, <2>4, <2>6, <3>1 DEF Heap!PS!ReleaseToDeadTicket
    <3>3. HeapInv'
      BY <1>1, <2>1, <2>3, <3>1 DEF HeapInv, Heap!PS!Place
    <3> QED BY <2>3, <3>2, <3>3 DEF Heap!PS!Release
  <2> QED BY <2>5, <2>6
<1> QED BY <1>2, <1>3 DEF Heap!Release

LEMMA HeapNext ==
  ASSUME HeapInv, QueueLimit \in Nat, Heap!Next
  PROVE  HeapInv' /\ Heap!PS!Next
<1>1. PICK t \in Tasks :
        \/ \E p \in Heap!PS!Priority : Heap!Acquire(t, p)
        \/ Heap!Resume(t)
        \/ Heap!Release(t)
        \/ Heap!Cancel(t)
  BY DEF Heap!Next
<1>2. CASE \E p \in Heap!PS!Priority : Heap!Acquire(t, p)
  BY <1>2, HeapAcquire DEF Heap!PS!Next
<1>3. CASE Heap!Release(t)
  BY <1>3, HeapRelease DEF Heap!PS!Next
<1>4. CASE Heap!Resume(t)
  <2>1. /\ pc[t] = "granted" /\ pc' = [pc EXCEPT ![t] = "running"]
        /\ UNCHANGED <<available, heap, prio>>
    BY <1>4 DEF Heap!Resume
  <2>2. Heap!PS!Resume(t)
    BY <2>1 DEF Heap!PS!Resume
  <2>3. HeapInv'
    BY <2>1 DEF HeapInv, Heap!PS!Place
  <2> QED BY <2>2, <2>3 DEF Heap!PS!Next
<1>5. CASE Heap!Cancel(t)
  <2>1. /\ pc[t] \in {"waiting", "granted"} /\ UNCHANGED <<available, heap, prio>>
        /\ pc' = [pc EXCEPT ![t] = IF pc[t] = "waiting" THEN "cancelled" ELSE "lost"]
    BY <1>5 DEF Heap!Cancel
  <2>2. Heap!PS!Cancel(t)
    BY <2>1 DEF Heap!PS!Cancel, Heap!PS!CancelWaiting, Heap!PS!CancelGranted
  <2>3. HeapInv'
    BY <2>1 DEF HeapInv, Heap!PS!Place
  <2> QED BY <2>2, <2>3 DEF Heap!PS!Next
<1> QED BY <1>1, <1>2, <1>3, <1>4, <1>5

LEMMA HeapStutters ==
  ASSUME HeapInv, UNCHANGED <<available, heap, prio, pc>>
  PROVE  HeapInv' /\ UNCHANGED Heap!PS!vars
  BY DEF HeapInv, Heap!PS!vars

(* HeapqSemaphore implements PrioritySemaphore: with the heap that          *)
(* asyncio.PriorityQueue keeps in place of a set, the semaphore takes no    *)
(* step that PrioritySemaphore does not allow, for any number of tasks,     *)
(* whatever their priorities and whenever they are cancelled                *)
(* (prioritized_task.py).                                                   *)
THEOREM HeapImplementsQueue == Heap!Spec => Heap!PS!Init /\ [][Heap!PS!Next]_(Heap!PS!vars)
<1>1. Heap!Init => HeapInv /\ Heap!PS!Init
  BY HeapInit
<1>2. HeapInv /\ [Heap!Next]_(Heap!vars) => HeapInv' /\ [Heap!PS!Next]_(Heap!PS!vars)
  <2>1. CASE Heap!Next
    BY <2>1, HeapNext, SemaphoreAssumption
  <2>2. CASE UNCHANGED Heap!vars
    BY <2>2, HeapStutters DEF Heap!vars
  <2> QED BY <2>1, <2>2
<1> QED BY <1>1, <1>2, PTL DEF Heap!Spec
================================================================================
