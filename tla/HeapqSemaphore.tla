---------------------------- MODULE HeapqSemaphore -----------------------------
(***************************************************************************)
(* PrioritySemaphore with its queue as the program has it: the heap that   *)
(* asyncio.PriorityQueue keeps, of tickets compared by priority alone      *)
(* (PrioritizedTask is a dataclass with order=True whose task_ticket has   *)
(* compare=False).  Tasks of one priority are granted in the order that the *)
(* heap happens to have.                                                   *)
(***************************************************************************)
EXTENDS Naturals, Sequences, FiniteSets, SequencesExt

CONSTANTS Tasks, Concurrency, QueueLimit

(* What PrioritySemaphore assumes of them.                                  *)
Counted == IsFiniteSet(Tasks) /\ Concurrency \in Nat \ {0} /\ QueueLimit \in Nat

VARIABLES available, heap, prio, pc

vars == <<available, heap, prio, pc>>

PS == INSTANCE PrioritySemaphore WITH queue <- ToSet(heap)

Init ==
  /\ available = Concurrency
  /\ heap = <<>>
  /\ prio = [t \in Tasks |-> PS!DEFAULT]
  /\ pc = [t \in Tasks |-> "idle"]

(***************************************************************************)
(* heapq.heappush and heappop of the Python library, on a sequence whose   *)
(* children of place i are at 2i and 2i+1.  key is what entries are        *)
(* compared by; entries of equal key are not ordered, and the heap alone   *)
(* decides which comes out first.                                          *)
(***************************************************************************)
(* The places from p up to the root.                                        *)
PathUp(p) ==
  LET path[i \in 0..p] == IF i = 0 THEN {} ELSE {i} \cup path[i \div 2]
  IN  path[p]

(* _siftdown: the entry at p rises past every parent it is less than, and   *)
(* each of those parents comes down one place.                              *)
Raise(h, p, key) ==
  LET Passes(i)  == \A j \in PathUp(p) \ {p} : j >= i => key[h[p]] < key[h[j]]
      target     == Min({i \in PathUp(p) : Passes(i)})
  IN  [i \in DOMAIN h |->
         IF i = target THEN h[p]
         ELSE IF i \in PathUp(p) /\ i > target THEN h[i \div 2]
         ELSE h[i]]

HeapPush(h, e, key) == Raise(Append(h, e), Len(h) + 1, key)

(* _siftup: the hole at the root goes down to a leaf, the right child       *)
(* moving up unless the left one is strictly less; the last entry is put    *)
(* there and rises again.                                                   *)
SmallerChild(h, key, i) ==
  IF 2 * i + 1 < Len(h) /\ ~ (key[h[2 * i]] < key[h[2 * i + 1]]) THEN 2 * i + 1 ELSE 2 * i

WayDown(h, key) ==
  {i \in 1..(Len(h) - 1) : \A j \in PathUp(i) \ {1} : j = SmallerChild(h, key, j \div 2)}

HeapPop(h, key) ==
  LET leaf  == Max(WayDown(h, key))
      holed == [i \in 1..(Len(h) - 1) |->
                  IF i = leaf THEN h[Len(h)]
                  ELSE IF i \in WayDown(h, key) THEN h[SmallerChild(h, key, i)]
                  ELSE h[i]]
  IN  IF Len(h) = 1 THEN <<>> ELSE Raise(holed, leaf, key)

Dequeue_NoSift == LET n == Len(heap) - 1          \* mutant: the last entry is
                  IN  [i \in 1..n |-> IF i = 1 THEN heap[n + 1] ELSE heap[i]]  \* left on top

Enqueue(t, p) == HeapPush(heap, t, [prio EXCEPT ![t] = p])
Dequeue       == HeapPop(heap, prio)

(* acquire(priority)                                                        *)
Acquire(t, p) ==
  /\ pc[t] = "idle"
  /\ prio' = [prio EXCEPT ![t] = p]
  /\ \/ /\ available > 0
        /\ available' = available - 1
        /\ pc' = [pc EXCEPT ![t] = "running"]
        /\ UNCHANGED heap
     \/ /\ available = 0
        /\ p # PS!LOW /\ Len(heap) > QueueLimit
        /\ pc' = [pc EXCEPT ![t] = "refused"]
        /\ UNCHANGED <<available, heap>>
     \/ /\ available = 0
        /\ p = PS!LOW \/ Len(heap) <= QueueLimit
        /\ pc' = [pc EXCEPT ![t] = "waiting"]
        /\ heap' = Enqueue(t, p)
        /\ UNCHANGED available

Resume(t) ==
  /\ pc[t] = "granted"
  /\ pc' = [pc EXCEPT ![t] = "running"]
  /\ UNCHANGED <<available, heap, prio>>

(* release()                                                                *)
Release(t) ==
  /\ pc[t] = "running"
  /\ \/ /\ heap = <<>>
        /\ available' = available + 1
        /\ pc' = [pc EXCEPT ![t] = "done"]
        /\ UNCHANGED heap
     \/ /\ heap # <<>>
        /\ heap' = Dequeue
        /\ IF pc[heap[1]] = "waiting"
           THEN /\ pc' = [pc EXCEPT ![t] = "done", ![heap[1]] = "granted"]
                /\ UNCHANGED available
           ELSE /\ pc' = [pc EXCEPT ![t] = "done"]
                /\ available' = available + 1
  /\ UNCHANGED prio

(* task.cancel() during acquire(): see PrioritySemaphore.                   *)
Cancel(t) ==
  /\ pc[t] \in {"waiting", "granted"}
  /\ pc' = [pc EXCEPT ![t] = IF pc[t] = "waiting" THEN "cancelled" ELSE "lost"]
  /\ UNCHANGED <<available, heap, prio>>

Next ==
  \E t \in Tasks :
    \/ \E p \in PS!Priority : Acquire(t, p)
    \/ Resume(t)
    \/ Release(t)
    \/ Cancel(t)

Spec == Init /\ [][Next]_vars
===============================================================================
