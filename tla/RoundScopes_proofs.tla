--------------------------- MODULE RoundScopes_proofs ---------------------------
(***************************************************************************)
(* Theorems about RoundScopes, for every set of contexts and environments, *)
(* every finite set of round ids and every number of tasks.                *)
(***************************************************************************)
EXTENDS RoundScopes, FiniteSetTheorems, TLAPS

(* TypeOK without the length of the storage and the turns of the loop,      *)
(* which no other fact needs.                                               *)
Types ==
  /\ life \in [Envs -> Lives]
  /\ roundOf \in [Envs -> Rounds]
  /\ scope \in [Contexts -> Envs \cup {NoEnv}]
  /\ count \in [Contexts -> Nat]
  /\ opening \in [Contexts -> SUBSET Envs]
  /\ inside \in [Contexts -> [Envs -> 0 .. MaxTasks]]
  /\ store \in [Rounds -> Envs \cup {NoEnv}]
  /\ timers \subseteq Envs
  /\ marked \subseteq Rounds
  /\ owner \in [Envs -> Owners]
  /\ stop \in {"up", "stopping", "down", "failed"}
  /\ seen \subseteq Rounds
  /\ swept \subseteq Envs
  /\ orderly \in BOOLEAN

(* A scope is counted while it has an environment.                          *)
Counted == \A c \in Contexts : scope[c] = NoEnv <=> count[c] = 0

(* An environment that is being built belongs to one task of one context.   *)
Opening ==
  \A c \in Contexts : \A e \in opening[c] :
    /\ life[e] = "building"
    /\ \A d \in Contexts \ {c} : e \notin opening[d]

(* The storage keeps an environment under its own round id, and only after  *)
(* it was built.                                                            *)
StoreSound ==
  /\ \A r \in Rounds : store[r] # NoEnv => roundOf[store[r]] = r
  /\ \A e \in Envs : Stored(e) => life[e] \notin {"none", "building"}

(* The entries that destroy_all has come to are still stored, and the       *)
(* cleanup of what it swept has begun.                                      *)
SeenSwept ==
  /\ \A r \in seen : store[r] \in swept
  /\ \A e \in swept : life[e] \notin {"none", "building", "live"}

(* Nothing is swept before the singleton scope closes.                      *)
UpUnswept ==
  stop = "up" => /\ seen = {} /\ swept = {}
                 /\ \A e \in Envs : owner[e] # "stop"

(* In an orderly application a round id belongs to one environment.         *)
OneEnvPerRound ==
  orderly => \A d, e \in Envs :
    life[d] # "none" /\ life[e] # "none" /\ roundOf[d] = roundOf[e] => d = e

(* In an orderly application a context that builds an environment has no    *)
(* other, built or being built.                                             *)
OpensAlone ==
  orderly => \A c \in Contexts : \A e \in opening[c] :
    scope[c] = NoEnv /\ opening[c] = {e}

(* In an orderly application the count of a scope is that of the tasks in   *)
(* its environment, and no task is in another one.                          *)
TasksCounted ==
  orderly => \A c \in Contexts, e \in Envs :
    inside[c][e] = IF scope[c] = e THEN count[c] ELSE 0

(* In an orderly application the cleanup of a round that was told to go is  *)
(* awaited by the task that closed it, which then removes the mark.         *)
MarkHasOwner ==
  orderly => \A e \in Envs :
    life[e] = "cleaning" /\ roundOf[e] \in marked => owner[e] = "close"

(* In an orderly application no round is open once the singleton scope      *)
(* closes.                                                                  *)
ClosedFirst ==
  orderly /\ stop # "up" => \A c \in Contexts : scope[c] = NoEnv /\ opening[c] = {}

(* The part of the inductive invariant that holds in every application.     *)
Holders ==
  /\ Types
  /\ Counted
  /\ Opening
  /\ StoreSound
  /\ SeenSwept
  /\ UpUnswept
  /\ OneLiveHolder
  /\ TimersWatchStored

(* The part that needs the protocol: NothingLost, because an environment    *)
(* is dropped only when another one has its place, and MarkedUntilGone,     *)
(* because no other cleanup of the round can come first.                    *)
Protocol ==
  /\ OneEnvPerRound
  /\ OpensAlone
  /\ TasksCounted
  /\ MarkHasOwner
  /\ ClosedFirst
  /\ NothingLost
  /\ MarkedUntilGone

IInv == Holders /\ Protocol

-----------------------------------------------------------------------------
(* Init => IInv *)
LEMMA InitHolders == Init => Holders
BY ScopesAssumption
   DEF Init, Holders, Types, Lives, Owners, Counted, Opening, StoreSound, SeenSwept,
       UpUnswept, OneLiveHolder, TimersWatchStored, Stored, LiveOrSwept

LEMMA InitProtocol == Init => Protocol
BY DEF Init, Protocol, OneEnvPerRound, OpensAlone, TasksCounted, MarkHasOwner, ClosedFirst,
       NothingLost, MarkedUntilGone

-----------------------------------------------------------------------------
(* One lemma per action, for the part that holds in every application.     *)
USE ScopesAssumption
DEF scopeVars, storageVars, stopVars, Holders, Types, Lives, Owners, Counted, Opening, StoreSound,
    SeenSwept, UpUnswept, Entries, OneLiveHolder, TimersWatchStored, Stored, LiveOrSwept

LEMMA CleanUpTypes ==
  ASSUME Types, NEW e \in Envs, NEW who \in Owners, CleanUp(e, who)
  PROVE  life' \in [Envs -> Lives] /\ owner' \in [Envs -> Owners]
BY DEF CleanUp

(* Opening and sharing a scope.                                            *)
LEMMA OpenHolders ==
  ASSUME Holders, NEW c \in Contexts, NEW e \in Envs, OpenRound(c, e)
  PROVE  Holders'
BY DEF OpenRound

LEMMA BuiltHolders ==
  ASSUME Holders, NEW c \in Contexts, NEW e \in Envs, EnvBuilt(c, e)
  PROVE  Holders'
<1>1. Types'
  BY DEF EnvBuilt
<1>2. Counted' /\ Opening'
  BY DEF EnvBuilt
<1>3. StoreSound'
  BY DEF EnvBuilt
<1>4. SeenSwept' /\ UpUnswept'
  BY DEF EnvBuilt
<1>5. OneLiveHolder'
  BY DEF EnvBuilt
<1>6. TimersWatchStored'
  BY DEF EnvBuilt
<1> QED BY <1>1, <1>2, <1>3, <1>4, <1>5, <1>6

LEMMA BuildFailsHolders ==
  ASSUME Holders, NEW c \in Contexts, NEW e \in Envs, BuildFails(c, e)
  PROVE  Holders'
BY DEF BuildFails

LEMMA CreateTaskHolders ==
  ASSUME Holders, NEW c \in Contexts, NEW e \in Envs, CreateTask(c, e)
  PROVE  Holders'
BY DEF CreateTask

(* Closing a scope.                                                        *)
LEMMA CloseOutsideHolders ==
  ASSUME Holders, NEW c \in Contexts, NEW e \in Envs, CloseOutside(c, e)
  PROVE  Holders'
BY DEF CloseOutside, Leave

LEMMA CloseSharedHolders ==
  ASSUME Holders, NEW c \in Contexts, NEW e \in Envs, CloseShared(c, e)
  PROVE  Holders'
BY DEF CloseShared, Leave

LEMMA CloseStoresHolders ==
  ASSUME Holders, NEW c \in Contexts, NEW e \in Envs, CloseStores(c, e)
  PROVE  Holders'
<1>1. Types'
  BY DEF CloseStores, LastClose, Leave, Push
<1>2. Counted' /\ Opening'
  BY DEF CloseStores, LastClose, Leave, Push
<1>3. StoreSound'
  BY DEF CloseStores, LastClose, Leave, Push
<1>4. SeenSwept' /\ UpUnswept'
  BY DEF CloseStores, LastClose, Leave, Push
<1>5. OneLiveHolder'
  BY DEF CloseStores, LastClose, Leave, Push
<1>6. TimersWatchStored'
  BY DEF CloseStores, LastClose, Leave, Push
<1> QED BY <1>1, <1>2, <1>3, <1>4, <1>5, <1>6

LEMMA CloseRefusedHolders ==
  ASSUME Holders, NEW c \in Contexts, NEW e \in Envs, CloseRefused(c, e)
  PROVE  Holders'
BY DEF CloseRefused, LastClose, Leave

LEMMA CloseDestroysHolders ==
  ASSUME Holders, NEW c \in Contexts, NEW e \in Envs, CloseDestroys(c, e)
  PROVE  Holders'
<1> scope[c] \in Envs
  BY DEF CloseDestroys, LastClose
<1>1. Types'
  BY CleanUpTypes DEF CloseDestroys, LastClose, Leave
<1>2. Counted' /\ Opening'
  BY DEF CloseDestroys, LastClose, Leave, CleanUp
<1>3. StoreSound'
  BY DEF CloseDestroys, LastClose, Leave, CleanUp
<1>4. SeenSwept' /\ UpUnswept'
  BY DEF CloseDestroys, LastClose, Leave, CleanUp
<1>5. OneLiveHolder'
  BY DEF CloseDestroys, LastClose, Leave, CleanUp
<1>6. TimersWatchStored'
  BY DEF CloseDestroys, LastClose, Leave, CleanUp
<1> QED BY <1>1, <1>2, <1>3, <1>4, <1>5, <1>6

(* The storage, cleanups and the end of the singleton scope.               *)
LEMMA MarkHolders ==
  ASSUME Holders, NEW c \in Contexts, NEW r \in Rounds, MarkRound(c, r)
  PROVE  Holders'
BY DEF MarkRound

LEMMA DestroyHolders ==
  ASSUME Holders, NEW c \in Contexts, NEW r \in Rounds, DestroyRound(c, r)
  PROVE  Holders'
<1> store[r] \in Envs
  BY DEF DestroyRound, Destroy, Pop
<1>1. Types'
  BY CleanUpTypes DEF DestroyRound, Destroy, Pop
<1>2. Counted' /\ Opening'
  BY DEF DestroyRound, Destroy, Pop, CleanUp
<1>3. StoreSound'
  BY DEF DestroyRound, Destroy, Pop, CleanUp
<1>4. SeenSwept' /\ UpUnswept'
  BY DEF DestroyRound, Destroy, Pop, CleanUp
<1>5. OneLiveHolder'
  BY DEF DestroyRound, Destroy, Pop, CleanUp
<1>6. TimersWatchStored'
  BY DEF DestroyRound, Destroy, Pop, CleanUp
<1> QED BY <1>1, <1>2, <1>3, <1>4, <1>5, <1>6

LEMMA TimerHolders ==
  ASSUME Holders, NEW e \in Envs, TimerFires(e)
  PROVE  Holders'
<1> Stored(e)
  BY DEF TimerFires
<1>a. life' \in [Envs -> Lives]
  <2>1. life \in [Envs -> Lives]
    OBVIOUS
  <2>2. UNCHANGED life \/ \E l \in Lives : life' = [life EXCEPT ![e] = l]
    BY DEF TimerFires
  <2> HIDE DEF Holders, Lives
  <2> QED BY <2>1, <2>2
<1>b. store' \in [Rounds -> Envs \cup {NoEnv}]
  BY DEF TimerFires, Pop
<1>1. Types' /\ Counted'
  <2> HIDE DEF Lives
  <2> QED BY <1>a, <1>b DEF TimerFires, Pop
<1>2. Opening'
  BY DEF TimerFires, Pop
<1>3. StoreSound'
  BY DEF TimerFires, Pop
<1>4. SeenSwept' /\ UpUnswept'
  BY DEF TimerFires, Pop
<1>5. OneLiveHolder'
  BY DEF TimerFires, Pop
<1>6. TimersWatchStored'
  BY DEF TimerFires, Pop
<1> QED BY <1>1, <1>2, <1>3, <1>4, <1>5, <1>6

LEMMA CleanedHolders ==
  ASSUME Holders, NEW e \in Envs, Cleaned(e)
  PROVE  Holders'
BY DEF Cleaned

LEMMA CleanupFailsHolders ==
  ASSUME Holders, NEW e \in Envs, CleanupFails(e)
  PROVE  Holders'
BY DEF CleanupFails

LEMMA StopHolders ==
  ASSUME Holders, Stop
  PROVE  Holders'
BY DEF Stop

LEMMA StopNextHolders ==
  ASSUME Holders, NEW r \in Rounds, StopNext(r)
  PROVE  Holders'
<1> store[r] \in Envs
  BY DEF StopNext, StopIdle
<1>1. Types'
  BY CleanUpTypes DEF StopNext, StopIdle
<1>2. Counted' /\ Opening'
  BY DEF StopNext, StopIdle, CleanUp
<1>3. StoreSound'
  BY DEF StopNext, StopIdle, CleanUp
<1>4. SeenSwept' /\ UpUnswept'
  BY DEF StopNext, StopIdle, CleanUp
<1>5. OneLiveHolder'
  BY DEF StopNext, StopIdle, CleanUp
<1>6. TimersWatchStored'
  BY DEF StopNext, StopIdle, CleanUp
<1> QED BY <1>1, <1>2, <1>3, <1>4, <1>5, <1>6

LEMMA StopRaisesHolders ==
  ASSUME Holders, StopRaises
  PROVE  Holders'
BY DEF StopRaises, StopIdle

LEMMA StopEndsHolders ==
  ASSUME Holders, StopEnds
  PROVE  Holders'
BY DEF StopEnds, StopIdle

-----------------------------------------------------------------------------
(* The same for the part that needs the protocol.                          *)
USE DEF IInv, Protocol, OneEnvPerRound, OpensAlone, TasksCounted, MarkHasOwner, ClosedFirst,
        NothingLost, MarkedUntilGone, Active

LEMMA OpenProtocol ==
  ASSUME IInv, NEW c \in Contexts, NEW e \in Envs, OpenRound(c, e)
  PROVE  Protocol'
<1>1. OneEnvPerRound'
  BY DEF OpenRound, MayOpen
<1>2. OpensAlone'
  BY DEF OpenRound, MayOpen
<1>3. TasksCounted'
  BY DEF OpenRound, MayOpen
<1>4. MarkHasOwner'
  BY DEF OpenRound, MayOpen
<1>5. ClosedFirst'
  BY DEF OpenRound, MayOpen
<1>6. NothingLost'
  BY DEF OpenRound, MayOpen
<1>7. MarkedUntilGone'
  BY DEF OpenRound, MayOpen
<1> QED BY <1>1, <1>2, <1>3, <1>4, <1>5, <1>6, <1>7

LEMMA BuiltProtocol ==
  ASSUME IInv, NEW c \in Contexts, NEW e \in Envs, EnvBuilt(c, e)
  PROVE  Protocol'
BY DEF EnvBuilt

LEMMA CreateTaskProtocol ==
  ASSUME IInv, NEW c \in Contexts, NEW e \in Envs, CreateTask(c, e)
  PROVE  Protocol'
BY DEF CreateTask

LEMMA CloseOutsideProtocol ==
  ASSUME IInv, NEW c \in Contexts, NEW e \in Envs, CloseOutside(c, e)
  PROVE  Protocol'
BY DEF CloseOutside, Leave

LEMMA CloseSharedProtocol ==
  ASSUME IInv, NEW c \in Contexts, NEW e \in Envs, CloseShared(c, e)
  PROVE  Protocol'
BY DEF CloseShared, Leave

LEMMA CloseStoresProtocol ==
  ASSUME IInv, NEW c \in Contexts, NEW e \in Envs, CloseStores(c, e)
  PROVE  Protocol'
BY DEF CloseStores, LastClose, Leave, Push

LEMMA CloseRefusedProtocol ==
  ASSUME IInv, NEW c \in Contexts, NEW e \in Envs, CloseRefused(c, e)
  PROVE  Protocol'
BY DEF CloseRefused, LastClose, Leave

LEMMA CloseDestroysProtocol ==
  ASSUME IInv, NEW c \in Contexts, NEW e \in Envs, CloseDestroys(c, e)
  PROVE  Protocol'
<1>1. OneEnvPerRound'
  BY DEF CloseDestroys, LastClose, Leave, CleanUp
<1>2. OpensAlone'
  BY DEF CloseDestroys, LastClose, Leave, CleanUp
<1>3. TasksCounted'
  BY DEF CloseDestroys, LastClose, Leave, CleanUp
<1>4. MarkHasOwner'
  BY DEF CloseDestroys, LastClose, Leave, CleanUp
<1>5. ClosedFirst'
  BY DEF CloseDestroys, LastClose, Leave, CleanUp
<1>6. NothingLost'
  BY DEF CloseDestroys, LastClose, Leave, CleanUp
<1>7. MarkedUntilGone'
  BY DEF CloseDestroys, LastClose, Leave, CleanUp
<1> QED BY <1>1, <1>2, <1>3, <1>4, <1>5, <1>6, <1>7

LEMMA DestroyProtocol ==
  ASSUME IInv, NEW c \in Contexts, NEW r \in Rounds, DestroyRound(c, r)
  PROVE  Protocol'
<1>1. OneEnvPerRound'
  BY DEF DestroyRound, Destroy, Pop, CleanUp
<1>2. OpensAlone'
  BY DEF DestroyRound, Destroy, Pop, CleanUp
<1>3. TasksCounted'
  BY DEF DestroyRound, Destroy, Pop, CleanUp
<1>4. MarkHasOwner'
  BY DEF DestroyRound, Destroy, Pop, CleanUp
<1>5. ClosedFirst'
  BY DEF DestroyRound, Destroy, Pop, CleanUp
<1>6. NothingLost'
  BY DEF DestroyRound, Destroy, Pop, CleanUp
<1>7. MarkedUntilGone'
  BY DEF DestroyRound, Destroy, Pop, CleanUp
<1> QED BY <1>1, <1>2, <1>3, <1>4, <1>5, <1>6, <1>7

LEMMA TimerProtocol ==
  ASSUME IInv, NEW e \in Envs, TimerFires(e)
  PROVE  Protocol'
<1>0. Stored(e) /\ (orderly => roundOf[e] \notin marked)
  BY ScopesAssumption DEF TimerFires
<1>1. OneEnvPerRound'
  BY DEF TimerFires, Pop
<1>2. OpensAlone'
  BY DEF TimerFires, Pop
<1>3. TasksCounted'
  BY DEF TimerFires, Pop
<1>4. MarkHasOwner'
  BY DEF TimerFires, Pop
<1>5. ClosedFirst'
  BY DEF TimerFires, Pop
<1>6. NothingLost'
  BY DEF TimerFires, Pop
<1>7. MarkedUntilGone'
  BY <1>0 DEF TimerFires, Pop
<1> QED BY <1>1, <1>2, <1>3, <1>4, <1>5, <1>6, <1>7

LEMMA CleanedProtocol ==
  ASSUME IInv, NEW e \in Envs, Cleaned(e)
  PROVE  Protocol'
BY DEF Cleaned

LEMMA CleanupFailsProtocol ==
  ASSUME IInv, NEW e \in Envs, CleanupFails(e)
  PROVE  Protocol'
<1>1. OneEnvPerRound'
  BY DEF CleanupFails
<1>2. OpensAlone'
  BY DEF CleanupFails
<1>3. TasksCounted'
  BY DEF CleanupFails
<1>4. MarkHasOwner'
  BY DEF CleanupFails
<1>5. ClosedFirst'
  BY DEF CleanupFails
<1>6. NothingLost'
  BY DEF CleanupFails
<1>7. MarkedUntilGone'
  BY DEF CleanupFails
<1> QED BY <1>1, <1>2, <1>3, <1>4, <1>5, <1>6, <1>7

LEMMA StopProtocol ==
  ASSUME IInv, Stop
  PROVE  Protocol'
<1>1. OneEnvPerRound'
  BY DEF Stop, MayStop
<1>2. OpensAlone'
  BY DEF Stop, MayStop
<1>3. TasksCounted'
  BY DEF Stop, MayStop
<1>4. MarkHasOwner'
  BY DEF Stop, MayStop
<1>5. ClosedFirst'
  BY DEF Stop, MayStop
<1>6. NothingLost'
  BY DEF Stop, MayStop
<1>7. MarkedUntilGone'
  BY DEF Stop, MayStop
<1> QED BY <1>1, <1>2, <1>3, <1>4, <1>5, <1>6, <1>7

LEMMA StopNextProtocol ==
  ASSUME IInv, NEW r \in Rounds, StopNext(r)
  PROVE  Protocol'
<1>1. OneEnvPerRound'
  BY DEF StopNext, StopIdle, CleanUp
<1>2. OpensAlone'
  BY DEF StopNext, StopIdle, CleanUp
<1>3. TasksCounted'
  BY DEF StopNext, StopIdle, CleanUp
<1>4. MarkHasOwner'
  BY DEF StopNext, StopIdle, CleanUp
<1>5. ClosedFirst'
  BY DEF StopNext, StopIdle, CleanUp
<1>6. NothingLost'
  BY DEF StopNext, StopIdle, CleanUp
<1>7. MarkedUntilGone'
  BY DEF StopNext, StopIdle, CleanUp
<1> QED BY <1>1, <1>2, <1>3, <1>4, <1>5, <1>6, <1>7

LEMMA StopRaisesProtocol ==
  ASSUME IInv, StopRaises
  PROVE  Protocol'
BY DEF StopRaises, StopIdle

HIDE ScopesAssumption
DEF scopeVars, storageVars, stopVars, Holders, Types, Lives, Owners, Counted, Opening, StoreSound,
    SeenSwept, UpUnswept, Entries, OneLiveHolder, TimersWatchStored, Stored, LiveOrSwept
HIDE DEF IInv, Protocol, OneEnvPerRound, OpensAlone, TasksCounted, MarkHasOwner, ClosedFirst,
        NothingLost, MarkedUntilGone, Active

-----------------------------------------------------------------------------
(* Five steps need more care.                                              *)

(* The environment that is popped was in nobody's scope.                    *)
LEMMA ReopenHolders ==
  ASSUME Holders, NEW c \in Contexts, NEW r \in Rounds, ReopenRound(c, r)
  PROVE  Holders'
<1>1. /\ store[r] \in Envs
      /\ roundOf[store[r]] = r
      /\ life[store[r]] \notin {"none", "building"}
      /\ LiveOrSwept(store[r])
      /\ \A d \in Contexts : scope[d] # store[r]
  BY ScopesAssumption
     DEF ReopenRound, Pop, Holders, Types, StoreSound, OneLiveHolder, Stored, LiveOrSwept
<1>2. /\ store' = [store EXCEPT ![r] = NoEnv]
      /\ timers' = timers \ {store[r]}
      /\ seen' = seen \ {r}
      /\ UNCHANGED <<life, roundOf, opening, marked, owner, stopVars>>
  BY DEF ReopenRound, Pop
<1>3. CASE scope[c] = NoEnv
  <2>1. /\ scope' = [scope EXCEPT ![c] = store[r]]
        /\ count' = [count EXCEPT ![c] = 1]
        /\ inside' = [inside EXCEPT ![c][store[r]] = 1]
    BY <1>3 DEF ReopenRound
  <2>2. Types' /\ Counted'
    BY <1>1, <1>2, <2>1, ScopesAssumption DEF Holders, Types, Counted, stopVars
  <2>3. Opening' /\ StoreSound' /\ SeenSwept' /\ UpUnswept'
    BY <1>1, <1>2, <2>1, ScopesAssumption
       DEF Holders, Types, Opening, StoreSound, SeenSwept, UpUnswept, Stored, LiveOrSwept, stopVars
  <2>4. OneLiveHolder'
    BY <1>1, <1>2, <2>1, ScopesAssumption
       DEF Holders, Types, StoreSound, OneLiveHolder, Stored, LiveOrSwept, stopVars
  <2>5. TimersWatchStored'
    BY <1>1, <1>2, <2>1, ScopesAssumption
       DEF Holders, Types, StoreSound, TimersWatchStored, Stored, LiveOrSwept, stopVars
  <2> QED BY <2>2, <2>3, <2>4, <2>5 DEF Holders
<1>4. CASE scope[c] # NoEnv
  BY <1>1, <1>2, <1>4, ScopesAssumption
     DEF ReopenRound, scopeVars, stopVars, Holders, Types, Lives, Owners, Counted, Opening, StoreSound,
         SeenSwept, UpUnswept, OneLiveHolder, TimersWatchStored, Stored, LiveOrSwept
<1> QED BY <1>3, <1>4

LEMMA ReopenProtocol ==
  ASSUME IInv, NEW c \in Contexts, NEW r \in Rounds, ReopenRound(c, r)
  PROVE  Protocol'
<1> SUFFICES ASSUME orderly PROVE Protocol'
  BY DEF ReopenRound, stopVars, Protocol, OneEnvPerRound, OpensAlone, TasksCounted,
         MarkHasOwner, ClosedFirst, NothingLost, MarkedUntilGone
<1>1. /\ scope[c] = NoEnv /\ opening[c] = {} /\ stop = "up"
      /\ store[r] \in Envs /\ roundOf[store[r]] = r
  BY DEF ReopenRound, MayReopen, Pop, IInv, Holders, Types, StoreSound
<1>2. /\ store' = [store EXCEPT ![r] = NoEnv]
      /\ scope' = [scope EXCEPT ![c] = store[r]]
      /\ count' = [count EXCEPT ![c] = 1]
      /\ inside' = [inside EXCEPT ![c][store[r]] = 1]
      /\ UNCHANGED <<life, roundOf, opening, marked, owner, orderly, stop>>
  BY <1>1 DEF ReopenRound, Pop, stopVars
<1>3. OneEnvPerRound' /\ OpensAlone' /\ MarkHasOwner' /\ ClosedFirst'
  BY <1>1, <1>2
     DEF IInv, Holders, Types, Protocol, OneEnvPerRound, OpensAlone, MarkHasOwner, ClosedFirst
<1>4. TasksCounted'
  BY <1>1, <1>2, ScopesAssumption DEF IInv, Holders, Types, Protocol, TasksCounted
<1>5. NothingLost'
  BY <1>1, <1>2, ScopesAssumption
     DEF IInv, Holders, Types, Protocol, NothingLost, Active, Stored
<1>6. MarkedUntilGone'
  BY <1>1, <1>2, ScopesAssumption
     DEF IInv, Holders, Types, Protocol, MarkedUntilGone, Active
<1> QED BY <1>3, <1>4, <1>5, <1>6 DEF Protocol

(* What was being built was in no scope and nowhere stored.                 *)
LEMMA BuildFailsProtocol ==
  ASSUME IInv, NEW c \in Contexts, NEW e \in Envs, BuildFails(c, e)
  PROVE  Protocol'
<1>1. /\ life' = [life EXCEPT ![e] = "clean"]
      /\ opening' = [opening EXCEPT ![c] = @ \ {e}]
      /\ UNCHANGED <<roundOf, scope, count, inside, store, marked, owner, orderly, stop>>
  BY DEF BuildFails, storageVars, stopVars
<1>2. life[e] = "building"
  BY DEF BuildFails, IInv, Holders, Opening
<1>3. OneEnvPerRound' /\ MarkHasOwner' /\ TasksCounted'
  BY <1>1, <1>2 DEF IInv, Holders, Types, Protocol, OneEnvPerRound, MarkHasOwner, TasksCounted
<1>4. OpensAlone' /\ ClosedFirst'
  BY <1>1, <1>2 DEF BuildFails, IInv, Holders, Types, Protocol, OpensAlone, ClosedFirst
<1>5. NothingLost'
  BY <1>1, <1>2 DEF IInv, Holders, Types, Protocol, NothingLost, Active, Stored
<1>6. MarkedUntilGone'
  BY <1>1, <1>2 DEF IInv, Holders, Types, Protocol, MarkedUntilGone, Active
<1> QED BY <1>3, <1>4, <1>5, <1>6 DEF Protocol

(* The round that a task marks is the one it works in, whose environment is *)
(* the only one of its id: it is neither stored nor being cleaned up.       *)
LEMMA MarkProtocol ==
  ASSUME IInv, NEW c \in Contexts, NEW r \in Rounds, MarkRound(c, r)
  PROVE  Protocol'
<1>1. marked' = marked \cup {r} /\ UNCHANGED <<life, roundOf, scopeVars, store, owner, stopVars>>
  BY DEF MarkRound, storageVars
<1>2. ASSUME orderly
      PROVE  /\ scope[c] \in Envs /\ roundOf[scope[c]] = r
             /\ life[scope[c]] = "live" /\ ~Stored(scope[c])
             /\ \A e \in Envs : life[e] # "none" /\ roundOf[e] = r => e = scope[c]
  BY <1>2 DEF MarkRound, MayDestroy, IInv, Holders, Types, UpUnswept, OneLiveHolder, LiveOrSwept,
                    Protocol, OneEnvPerRound
<1>3. OneEnvPerRound' /\ OpensAlone' /\ TasksCounted' /\ ClosedFirst' /\ NothingLost'
  BY <1>1 DEF IInv, Protocol, ClosedFirst, OneEnvPerRound, OpensAlone, TasksCounted, NothingLost, Active,
              Stored, LiveOrSwept, scopeVars, stopVars
<1>4. MarkHasOwner'
  BY <1>1, <1>2 DEF IInv, Protocol, MarkHasOwner, scopeVars, stopVars
<1>5. MarkedUntilGone'
  <2>1. ASSUME orderly PROVE store[r] = NoEnv
    BY <1>2, <2>1 DEF IInv, Holders, Types, StoreSound, Stored, LiveOrSwept
  <2> QED BY <1>1, <1>2, <2>1 DEF IInv, Protocol, MarkedUntilGone, Active, scopeVars, stopVars
<1> QED BY <1>3, <1>4, <1>5 DEF Protocol

(* What is left in the storage was cleaned.                                 *)
LEMMA StopEndsProtocol ==
  ASSUME IInv, StopEnds
  PROVE  Protocol'
<1>1. /\ store' = [r \in Rounds |-> NoEnv]
      /\ UNCHANGED <<life, roundOf, scopeVars, marked, owner, orderly>>
      /\ stop # "up" /\ stop' # "up"
  BY DEF StopEnds, StopIdle
<1>2. ASSUME NEW e \in Envs, Stored(e) PROVE life[e] # "live"
  BY <1>2, ScopesAssumption DEF StopEnds, IInv, Holders, Types, SeenSwept, Entries, Stored, LiveOrSwept
<1>3. OneEnvPerRound' /\ OpensAlone' /\ TasksCounted' /\ MarkHasOwner' /\ ClosedFirst'
  BY <1>1 DEF IInv, Protocol, ClosedFirst, OneEnvPerRound, OpensAlone, TasksCounted, MarkHasOwner, scopeVars
<1>4. NothingLost'
  BY <1>1, <1>2 DEF IInv, Protocol, NothingLost, Active, scopeVars
<1>5. MarkedUntilGone'
  BY <1>1 DEF IInv, Holders, Types, Protocol, MarkedUntilGone, Active, scopeVars
<1> QED BY <1>3, <1>4, <1>5 DEF Protocol

-----------------------------------------------------------------------------
LEMMA NextHolders == Holders /\ [Next]_vars => Holders'
<1> SUFFICES ASSUME Holders, [Next]_vars PROVE Holders'
  OBVIOUS
<1>1. CASE \E c \in Contexts, e \in Envs :
             \/ OpenRound(c, e) \/ EnvBuilt(c, e) \/ BuildFails(c, e)
             \/ CreateTask(c, e) \/ Close(c, e)
  BY <1>1, OpenHolders, BuiltHolders, BuildFailsHolders, CreateTaskHolders, CloseOutsideHolders, CloseSharedHolders,
     CloseStoresHolders, CloseRefusedHolders, CloseDestroysHolders DEF Close
<1>2. CASE \E c \in Contexts, r \in Rounds :
             ReopenRound(c, r) \/ MarkRound(c, r) \/ DestroyRound(c, r)
  BY <1>2, ReopenHolders, MarkHolders, DestroyHolders
<1>3. CASE \/ \E e \in Envs : TimerFires(e) \/ Cleaned(e) \/ CleanupFails(e)
           \/ \E r \in Rounds : StopNext(r)
           \/ Stop \/ StopRaises \/ StopEnds
  BY <1>3, TimerHolders, CleanedHolders, CleanupFailsHolders, StopHolders, StopNextHolders,
     StopRaisesHolders, StopEndsHolders
<1>4. CASE UNCHANGED vars
  BY <1>4 DEF vars, scopeVars, storageVars, stopVars, Holders, Types, Counted, Opening, StoreSound, SeenSwept,
              UpUnswept, OneLiveHolder, TimersWatchStored, Stored, LiveOrSwept
<1> QED BY <1>1, <1>2, <1>3, <1>4 DEF Next

LEMMA NextProtocol == IInv /\ [Next]_vars => Protocol'
<1> SUFFICES ASSUME IInv, [Next]_vars PROVE Protocol'
  OBVIOUS
<1>1. CASE \E c \in Contexts, e \in Envs :
             \/ OpenRound(c, e) \/ EnvBuilt(c, e) \/ BuildFails(c, e)
             \/ CreateTask(c, e) \/ Close(c, e)
  BY <1>1, OpenProtocol, BuiltProtocol, BuildFailsProtocol, CreateTaskProtocol,
     CloseOutsideProtocol, CloseSharedProtocol, CloseStoresProtocol, CloseRefusedProtocol, CloseDestroysProtocol DEF Close
<1>2. CASE \E c \in Contexts, r \in Rounds :
             ReopenRound(c, r) \/ MarkRound(c, r) \/ DestroyRound(c, r)
  BY <1>2, ReopenProtocol, MarkProtocol, DestroyProtocol
<1>3. CASE \/ \E e \in Envs : TimerFires(e) \/ Cleaned(e) \/ CleanupFails(e)
           \/ \E r \in Rounds : StopNext(r)
           \/ Stop \/ StopRaises \/ StopEnds
  BY <1>3, TimerProtocol, CleanedProtocol, CleanupFailsProtocol, StopProtocol, StopNextProtocol,
     StopRaisesProtocol, StopEndsProtocol
<1>4. CASE UNCHANGED vars
  BY <1>4 DEF vars, scopeVars, storageVars, stopVars, IInv, Protocol, OneEnvPerRound, OpensAlone,
              TasksCounted, ClosedFirst,
              MarkHasOwner, NothingLost, MarkedUntilGone, Active, Stored
<1> QED BY <1>1, <1>2, <1>3, <1>4 DEF Next

LEMMA Invariance == Spec => []IInv
<1>1. Init => IInv
  BY InitHolders, InitProtocol DEF IInv
<1>2. IInv /\ [Next]_vars => IInv'
  BY NextHolders, NextProtocol DEF IInv
<1> QED BY <1>1, <1>2, PTL DEF Spec

-----------------------------------------------------------------------------
(* The types; the length of the storage is that of a finite table.          *)
THEOREM TypeCorrect == Spec => []TypeOK
<1>1. Size \in Nat
  BY ScopesAssumption, FS_Subset, FS_CardinalityType DEF Size, Entries
<1>2. Init => TypeOK
  BY InitHolders DEF Init, Holders, Types, TypeOK
<1>3. TypeOK /\ IInv' /\ [Next]_vars => TypeOK'
  <2> SUFFICES ASSUME TypeOK, IInv', [Next]_vars PROVE TypeOK'
    OBVIOUS
  <2>1. size' \in Nat
    <3>1. size' \in {size, Size}
      BY DEF Next, vars, scopeVars, stopVars, OpenRound, EnvBuilt, BuildFails, CreateTask, Close,
             CloseShared, CloseStores, CloseRefused, CloseDestroys, CloseOutside, LastClose, ReopenRound,
             MarkRound, DestroyRound, TimerFires, Cleaned, CleanupFails, Stop, StopNext,
             StopRaises, StopEnds
    <3> QED BY <1>1, <3>1 DEF TypeOK
  <2>2. turns' \in Nat
    <3>1. turns' \in {turns, turns + 1}
      BY DEF Next, vars, scopeVars, stopVars, OpenRound, EnvBuilt, BuildFails, CreateTask, Close,
             CloseShared, CloseStores, CloseRefused, CloseDestroys, CloseOutside, LastClose,
             ReopenRound, MarkRound, DestroyRound, TimerFires, Cleaned, CleanupFails, Stop,
             StopNext, StopRaises, StopEnds
    <3> QED BY <3>1 DEF TypeOK
  <2> QED BY <2>1, <2>2 DEF IInv, Holders, Types, TypeOK
<1> QED BY <1>2, <1>3, Invariance, PTL DEF Spec

(* An environment has one holder, and it is live while a context has it or  *)
(* it can be reopened, in every application (HibernatingScopeImpl and       *)
(* RoundsStorageImpl).                                                      *)
THEOREM OneHolder == Spec => []OneLiveHolder
<1>1. IInv => OneLiveHolder
  BY DEF IInv, Holders
<1> QED BY <1>1, Invariance, PTL

(* A timer never fires for a round that was reopened since                  *)
(* (RoundsStorageImpl.pop cancels it), in every application.                *)
THEOREM TimersRight == Spec => []TimersWatchStored
<1>1. IInv => TimersWatchStored
  BY DEF IInv, Holders
<1> QED BY <1>1, Invariance, PTL

(* An application that keeps to the protocol of the scopes loses no round,  *)
(* has none taken from under a task and none reopened that was told to go.  *)
THEOREM OrderlyApplication == Spec => []OrderlyRounds
<1>1. IInv => TasksKeepRound
  <2>1. ASSUME TasksCounted, orderly, NEW c \in Contexts, NEW e \in Envs, inside[c][e] > 0
        PROVE  scope[c] = e
    BY <2>1 DEF TasksCounted
  <2> QED BY <2>1 DEF IInv, Protocol, TasksKeepRound
<1>2. IInv => OrderlyRounds
  BY <1>1 DEF IInv, Protocol, OrderlyRounds
<1> QED BY <1>2, Invariance, PTL

===============================================================================
