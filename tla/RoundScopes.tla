------------------------------ MODULE RoundScopes ------------------------------
(***************************************************************************)
(* Round scopes of the dependency injection library: the environments of   *)
(* rounds, which contexts open, share with sub-tasks, close, hibernate,    *)
(* reopen and destroy (ai2i/di/app_context.py, scopes.py and               *)
(* rounds_storage.py).                                                     *)
(*                                                                         *)
(* A context is what create_fresh_scopes_context makes for one connection; *)
(* the tasks of the connection share it.  When the last of them closes the *)
(* round scope its environment goes to the storage of the singleton scope, *)
(* under the round's id and with a timer that destroys it.                 *)
(*                                                                         *)
(* Building an environment and cleaning it up run the providers' code and  *)
(* suspend; every other operation is one step.  The providers of an        *)
(* environment are cleaned as one.                                         *)
(***************************************************************************)
EXTENDS Naturals, FiniteSets

CONSTANTS Contexts,
          Rounds,    \* round ids
          Envs,      \* environments (ManagedEnv), each built once
          NoEnv,
          MaxTasks   \* bound: the tasks at work under one environment, or counted by one scope

ASSUME ScopesAssumption ==
  /\ NoEnv \notin Envs
  /\ IsFiniteSet(Rounds)
  /\ MaxTasks \in Nat \ {0}

VARIABLES life,    \* what became of each environment
          roundOf, \* the round id it was opened for
          scope,   \* HibernatingScopeImpl._env of each context
          count,   \* HibernatingScopeImpl._active_scopes of each context
          opening, \* environments that a context is building
          inside,  \* tasks of a context that opened or joined an environment
          store,   \* RoundsStorageImpl._rounds_cache
          timers,  \* environments with a live timeout task
          marked,  \* RoundsManager.rounds_marked_for_destruction
          owner,   \* who awaits the cleanup of an environment
          stop,    \* the singleton scope: "up", "stopping", "down", "failed"
          seen,    \* the entries of the storage that destroy_all has come to
          turns,   \* the turns of its loop
          size,    \* the length of the storage when it began
          swept,   \* history: the environments it cleaned up or tried to
          orderly  \* the application keeps to the protocol below

scopeVars   == <<scope, count, opening, inside>>
storageVars == <<store, timers, seen>>
stopVars    == <<stop, turns, size, swept, orderly>>
vars == <<life, roundOf, scopeVars, storageVars, marked, owner, stopVars>>

Lives  == {"none", "building", "live", "cleaning", "clean", "cut", "failed"}
Owners == {"nobody", "close", "destroy", "stop"}

Init ==
  /\ life = [e \in Envs |-> "none"]
  /\ roundOf \in [Envs -> Rounds]
  /\ scope = [c \in Contexts |-> NoEnv]
  /\ count = [c \in Contexts |-> 0]
  /\ opening = [c \in Contexts |-> {}]
  /\ inside = [c \in Contexts |-> [e \in Envs |-> 0]]
  /\ store = [r \in Rounds |-> NoEnv]
  /\ timers = {}
  /\ marked = {}
  /\ owner = [e \in Envs |-> "nobody"]
  /\ stop = "up"
  /\ seen = {}
  /\ turns = 0
  /\ size = 0
  /\ swept = {}
  /\ orderly \in BOOLEAN

Stored(e) == store[roundOf[e]] = e
Active(e) == \E c \in Contexts : scope[c] = e
Entries   == {r \in Rounds : store[r] # NoEnv}
Size      == Cardinality(Entries)

(***************************************************************************)
(* The protocol of an orderly application: a round id is opened once, one  *)
(* task at a time opens or reopens a round in a context that has none, a   *)
(* task destroys the round it works in, or a stored one from outside any   *)
(* round, and the server stops when its connections are closed, after      *)
(* which no round is opened, reopened or destroyed.  None of it is checked *)
(* by the library.                                                         *)
(***************************************************************************)
MayOpen(c, e) ==
  orderly => /\ stop = "up"
             /\ opening[c] = {}
             /\ \A d \in Envs : life[d] # "none" => roundOf[d] # roundOf[e]
MayReopen(c)     == orderly => stop = "up" /\ scope[c] = NoEnv /\ opening[c] = {}
MayDestroy(c, r) ==
  orderly => /\ stop = "up"
             /\ scope[c] # NoEnv => roundOf[scope[c]] = r
MayStop          == orderly => \A c \in Contexts : scope[c] = NoEnv /\ opening[c] = {}

-----------------------------------------------------------------------------
(* open_round_scope: the check, then the providers are built, then the     *)
(* environment becomes the context's.                                      *)

OpenRound(c, e) ==
  /\ life[e] = "none"
  /\ scope[c] = NoEnv
  /\ MayOpen(c, e)
  /\ life' = [life EXCEPT ![e] = "building"]
  /\ opening' = [opening EXCEPT ![c] = @ \cup {e}]
  /\ UNCHANGED <<roundOf, scope, count, inside, storageVars, marked, owner, stopVars>>

EnvBuilt(c, e) ==
  /\ e \in opening[c]
  /\ life' = [life EXCEPT ![e] = "live"]
  /\ opening' = [opening EXCEPT ![c] = @ \ {e}]
  /\ scope' = [scope EXCEPT ![c] = e]
  /\ count' = [count EXCEPT ![c] = 1]
  /\ inside' = [inside EXCEPT ![c][e] = 1]
  /\ UNCHANGED <<roundOf, storageVars, marked, owner, stopVars>>

(* A provider raises: those already built are cleaned, nothing is opened.  *)
BuildFails(c, e) ==
  /\ e \in opening[c]
  /\ life' = [life EXCEPT ![e] = "clean"]
  /\ opening' = [opening EXCEPT ![c] = @ \ {e}]
  /\ UNCHANGED <<roundOf, scope, count, inside, storageVars, marked, owner, stopVars>>

(* A task that works under e starts a sub-task, for which the round scope  *)
(* of the context is continued.                                            *)
CreateTask(c, e) ==
  /\ inside[c][e] \in 1 .. MaxTasks - 1
  /\ scope[c] # NoEnv
  /\ count[c] < MaxTasks
  /\ count' = [count EXCEPT ![c] = @ + 1]
  /\ inside' = [inside EXCEPT ![c][e] = @ + 1]
  /\ UNCHANGED <<life, roundOf, scope, opening, storageVars, marked, owner, stopVars>>
-----------------------------------------------------------------------------
(* RoundsStorageImpl                                                       *)

(* mutant: the entry is stored without its timer.                          *)
Push_NoTimer(e) ==
  /\ store' = [store EXCEPT ![roundOf[e]] = e]
  /\ UNCHANGED <<life, timers, seen, owner>>

(* The guard store[r] = NoEnv is the caller's.                             *)
Push(e) ==
  /\ store' = [store EXCEPT ![roundOf[e]] = e]
  /\ timers' = timers \cup {e}
  /\ UNCHANGED <<life, seen, owner>>

(* The entry leaves the storage and its timer is cancelled.                *)
Pop(r) ==
  /\ store[r] # NoEnv
  /\ store' = [store EXCEPT ![r] = NoEnv]
  /\ timers' = timers \ {store[r]}
  /\ seen' = seen \ {r}

(* await entry.cleanup(), the exit of the environment's context manager:   *)
(* one that has ended does nothing, one under way raises in the second     *)
(* caller and goes on for the first.                                       *)
CleanUp(e, who) ==
  IF life[e] = "live"
    THEN /\ life' = [life EXCEPT ![e] = "cleaning"]
         /\ owner' = [owner EXCEPT ![e] = who]
    ELSE UNCHANGED <<life, owner>>

(* mutant: the entry is forgotten without its cleanup.                     *)
Destroy_NoCleanup(r, who) ==
  /\ Pop(r)
  /\ UNCHANGED <<life, owner>>

Destroy(r, who) ==
  /\ Pop(r)
  /\ CleanUp(store[r], who)

-----------------------------------------------------------------------------
(* close_round_scope, by a task that works under e.                        *)

Leave(c, e) == inside' = [inside EXCEPT ![c][e] = @ - 1]

(* The singleton scope is closed: raises, and the round stays open.        *)
CloseOutside(c, e) ==
  /\ stop = "down"
  /\ inside[c][e] > 0
  /\ Leave(c, e)
  /\ UNCHANGED <<life, roundOf, scope, count, opening, storageVars, marked, owner, stopVars>>

(* Another task is still in the scope, or the scope is closed already      *)
(* (which raises).                                                         *)
CloseShared(c, e) ==
  /\ stop # "down"
  /\ inside[c][e] > 0
  /\ count[c] # 1
  /\ Leave(c, e)
  /\ count' = [count EXCEPT ![c] = IF @ = 0 THEN 0 ELSE @ - 1]
  /\ UNCHANGED <<life, roundOf, scope, opening, storageVars, marked, owner, stopVars>>

LastClose(c, e) ==
  /\ stop # "down"
  /\ inside[c][e] > 0
  /\ count[c] = 1
  /\ Leave(c, e)
  /\ count' = [count EXCEPT ![c] = 0]
  /\ scope' = [scope EXCEPT ![c] = NoEnv]
  /\ UNCHANGED <<roundOf, opening, stopVars>>

CloseStores(c, e) ==
  /\ LastClose(c, e)
  /\ store[roundOf[scope[c]]] = NoEnv
  /\ roundOf[scope[c]] \notin marked
  /\ Push(scope[c])
  /\ UNCHANGED marked

(* push raises: the storage has an entry for the round.                    *)
CloseRefused(c, e) ==
  /\ LastClose(c, e)
  /\ store[roundOf[scope[c]]] # NoEnv
  /\ UNCHANGED <<life, storageVars, marked, owner>>

(* The round is marked: pushed and destroyed at once.  The mark is removed *)
(* when the cleanup has ended, and stays when it raises.                   *)
CloseDestroys(c, e) ==
  /\ LastClose(c, e)
  /\ store[roundOf[scope[c]]] = NoEnv
  /\ roundOf[scope[c]] \in marked
  /\ CleanUp(scope[c], "close")
  /\ marked' = IF life[scope[c]] \in {"live", "cleaning"}
                 THEN marked
                 ELSE marked \ {roundOf[scope[c]]}
  /\ UNCHANGED storageVars

-----------------------------------------------------------------------------
(* mutant: the scope is reopened before the storage lets go of the entry.  *)
ReopenRound_NoPop(c, r) ==
  /\ stop # "down"
  /\ MayReopen(c)
  /\ store[r] # NoEnv
  /\ scope' = [scope EXCEPT ![c] = store[r]]
  /\ count' = [count EXCEPT ![c] = 1]
  /\ inside' = [inside EXCEPT ![c][store[r]] = 1]
  /\ UNCHANGED <<life, roundOf, opening, storageVars, marked, owner, stopVars>>

(* reopen_round_scope: pop, then reopen_scope, which raises when the scope *)
(* is active; the popped environment is then nobody's.  While destroy_all  *)
(* runs its entries are still there, those it has cleaned up too.          *)
ReopenRound(c, r) ==
  /\ stop # "down"
  /\ MayReopen(c)
  /\ Pop(r)
  /\ IF scope[c] = NoEnv
       THEN /\ scope' = [scope EXCEPT ![c] = store[r]]
            /\ count' = [count EXCEPT ![c] = 1]
            /\ inside' = [inside EXCEPT ![c][store[r]] = 1]
       ELSE UNCHANGED <<scope, count, inside>>
  /\ UNCHANGED <<life, roundOf, opening, marked, owner, stopVars>>

(* destroy_round_scope                                                     *)
MarkRound(c, r) ==
  /\ stop # "down"
  /\ scope[c] # NoEnv
  /\ MayDestroy(c, r)
  /\ marked' = marked \cup {r}
  /\ UNCHANGED <<life, roundOf, scopeVars, storageVars, owner, stopVars>>

DestroyRound(c, r) ==
  /\ stop # "down"
  /\ scope[c] = NoEnv
  /\ MayDestroy(c, r)
  /\ Destroy(r, "destroy")
  /\ UNCHANGED <<roundOf, scopeVars, marked, stopVars>>

(* _timeout_destroy: destroy(round_id) cancels the entry's timeout task,   *)
(* which is the one that runs it, so the cleanup is cut short at its first *)
(* suspension and is whole only if it has none.                            *)
TimerFires(e) ==
  /\ e \in timers
  /\ Pop(roundOf[e])
  /\ IF life[e] = "live"
       THEN \E l \in {"clean", "cut", "failed"} : life' = [life EXCEPT ![e] = l]
       ELSE UNCHANGED life
  /\ UNCHANGED <<roundOf, scopeVars, marked, owner, stopVars>>

-----------------------------------------------------------------------------
(* The end of a cleanup, and what its owner does next.                     *)

Cleaned(e) ==
  /\ life[e] = "cleaning"
  /\ life' = [life EXCEPT ![e] = "clean"]
  /\ owner' = [owner EXCEPT ![e] = "nobody"]
  /\ marked' = IF owner[e] = "close" THEN marked \ {roundOf[e]} ELSE marked
  /\ UNCHANGED <<roundOf, scopeVars, storageVars, stopVars>>

(* A provider's cleanup raises: the remaining ones are skipped and the     *)
(* error reaches whoever awaited it.                                       *)
CleanupFails(e) ==
  /\ life[e] = "cleaning"
  /\ life' = [life EXCEPT ![e] = "failed"]
  /\ owner' = [owner EXCEPT ![e] = "nobody"]
  /\ stop' = IF owner[e] = "stop" THEN "failed" ELSE stop
  /\ UNCHANGED <<roundOf, scopeVars, storageVars, marked, turns, size, swept, orderly>>

-----------------------------------------------------------------------------
(* destroy_all, when the singleton scope is closed: it goes through the    *)
(* storage and awaits each cleanup, the entry still in its place; which    *)
(* entry comes next is left open.                                          *)

Stop ==
  /\ stop = "up"
  /\ MayStop
  /\ stop' = "stopping"
  /\ size' = Size
  /\ UNCHANGED <<life, roundOf, scopeVars, storageVars, marked, owner, turns, swept, orderly>>

StopIdle == stop = "stopping" /\ \A e \in Envs : owner[e] # "stop"

StopNext(r) ==
  /\ StopIdle
  /\ Size = size
  /\ turns < size
  /\ r \in Entries \ seen
  /\ seen' = seen \cup {r}
  /\ turns' = turns + 1
  /\ timers' = timers \ {store[r]}
  /\ swept' = swept \cup {store[r]}
  /\ CleanUp(store[r], "stop")
  /\ UNCHANGED <<roundOf, scopeVars, store, marked, stop, size, orderly>>

(* The loop raises when the dictionary changed: its size, or its keys, so  *)
(* that there is one entry more to come to than there was.                 *)
StopRaises ==
  /\ StopIdle
  /\ Size # size \/ (turns = size /\ Entries \ seen # {})
  /\ stop' = "failed"
  /\ UNCHANGED <<life, roundOf, scopeVars, storageVars, marked, owner, turns, size, swept, orderly>>

StopEnds ==
  /\ StopIdle
  /\ Size = size
  /\ Entries \subseteq seen
  /\ stop' = "down"
  /\ store' = [r \in Rounds |-> NoEnv]
  /\ seen' = {}
  /\ UNCHANGED <<life, roundOf, scopeVars, timers, marked, owner, turns, size, swept, orderly>>

-----------------------------------------------------------------------------
Close(c, e) ==
  \/ CloseOutside(c, e) \/ CloseShared(c, e) \/ CloseStores(c, e)
  \/ CloseRefused(c, e) \/ CloseDestroys(c, e)

Next ==
  \/ \E c \in Contexts, e \in Envs :
       \/ OpenRound(c, e) \/ EnvBuilt(c, e) \/ BuildFails(c, e)
       \/ CreateTask(c, e) \/ Close(c, e)
  \/ \E c \in Contexts, r \in Rounds :
       ReopenRound(c, r) \/ MarkRound(c, r) \/ DestroyRound(c, r)
  \/ \E e \in Envs : TimerFires(e) \/ Cleaned(e) \/ CleanupFails(e)
  \/ \E r \in Rounds : StopNext(r)
  \/ Stop \/ StopRaises \/ StopEnds

Spec == Init /\ [][Next]_vars

(* The event loop fires timers and resumes what is ready.                  *)
FairSpec == Spec /\ \A e \in Envs : WF_vars(TimerFires(e))

-----------------------------------------------------------------------------
\* The types of the variables.
TypeOK ==
  /\ life \in [Envs -> Lives]
  /\ roundOf \in [Envs -> Rounds]
  /\ scope \in [Contexts -> Envs \cup {NoEnv}]
  /\ count \in [Contexts -> Nat]
  /\ opening \in [Contexts -> SUBSET Envs]
  /\ inside \in [Contexts -> [Envs -> 0 .. MaxTasks]]
  /\ store \in [Rounds -> Envs \cup {NoEnv}]
  /\ timers \subseteq Envs
  /\ marked \subseteq Rounds
  /\ owner \in [Envs -> Owners]
  /\ stop \in {"up", "stopping", "down", "failed"}
  /\ seen \subseteq Rounds
  /\ turns \in Nat
  /\ size \in Nat
  /\ swept \subseteq Envs
  /\ orderly \in BOOLEAN

LiveOrSwept(e) == life[e] = "live" \/ e \in swept

(* However tasks open, share, close, reopen and destroy rounds, an         *)
(* environment has one holder, a context or the storage.  No holder has    *)
(* one whose cleanup has begun, unless destroy_all began it: it leaves the *)
(* entries where they are while it awaits their cleanup, so a round that   *)
(* is reopened then may be one that is being taken down.                   *)
OneLiveHolder ==
  /\ \A c \in Contexts : scope[c] # NoEnv =>
       /\ LiveOrSwept(scope[c])
       /\ ~Stored(scope[c])
       /\ \A d \in Contexts \ {c} : scope[d] # scope[c]
  /\ \A e \in Envs : Stored(e) => LiveOrSwept(e)

(* The live timeout tasks are those of the stored environments that        *)
(* destroy_all has not come to, so a timer never destroys a round that was *)
(* reopened and stored again.                                              *)
TimersWatchStored == timers = {e \in Envs : Stored(e) /\ roundOf[e] \notin seen}

(* In an orderly application no environment is dropped without a cleanup.  *)
NothingLost ==
  orderly => \A e \in Envs : life[e] = "live" => Active(e) \/ Stored(e)

(* In an orderly application a task that works in a round, sub-tasks       *)
(* included, has the round's environment until it closes: the round is not *)
(* hibernated or destroyed under it.                                       *)
TasksKeepRound ==
  orderly => \A c \in Contexts, e \in Envs : inside[c][e] > 0 => scope[c] = e

(* In an orderly application a round that was told to go is active or      *)
(* being cleaned up, for as long as its mark lasts, and never found in the *)
(* storage, where it could be reopened.                                    *)
MarkedUntilGone ==
  orderly => \A r \in marked :
    /\ store[r] = NoEnv
    /\ \E e \in Envs : roundOf[e] = r /\ (Active(e) \/ life[e] \in {"cleaning", "failed"})

(* What an application that keeps to the protocol of the scopes relies on:  *)
(* no round is lost, taken from under a task, or reopened once it was told  *)
(* to go (ApplicationContextImpl and HibernatingScopeImpl).                 *)
OrderlyRounds == NothingLost /\ TasksKeepRound /\ MarkedUntilGone

(* A stored round does not stay: it is reopened, destroyed or timed out.   *)
StoredLeave == \A e \in Envs : Stored(e) ~> (~Stored(e) \/ stop # "up")

(* libs/di/README.md:126: a round that does not end "will be released after *)
(* a timeout", which is to run its cleanup.                                *)
TimedOutReleased == \A e \in Envs : life[e] # "cut"

=============================================================================
