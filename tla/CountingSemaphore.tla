--------------------------- MODULE CountingSemaphore ---------------------------
(***************************************************************************)
(* What the service promises the rounds it runs: at most Permits of them    *)
(* hold the semaphore at a time.  A holder may leave, a newcomer may enter  *)
(* while there is room, and a holder may hand its place directly to a       *)
(* newcomer.  Nothing is said of who goes first, of waiting or of refusal.  *)
(***************************************************************************)
EXTENDS Naturals, FiniteSets

CONSTANTS Tasks,    \* the asyncio tasks that may want the semaphore
          Permits   \* how many of them may hold it at once

VARIABLE holders

Init == holders = {}

Enter(t) ==
  /\ t \notin holders
  /\ Cardinality(holders) < Permits
  /\ holders' = holders \cup {t}

Leave(t) ==
  /\ t \in holders
  /\ holders' = holders \ {t}

HandOver(t, u) ==
  /\ t \in holders
  /\ u \notin holders
  /\ holders' = (holders \ {t}) \cup {u}

Next ==
  \/ \E t \in Tasks : Enter(t) \/ Leave(t)
  \/ \E t, u \in Tasks : HandOver(t, u)

Spec == Init /\ [][Next]_holders

=============================================================================
