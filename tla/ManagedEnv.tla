------------------------------ MODULE ManagedEnv ------------------------------
(***************************************************************************)
(* One environment of the dependency injection (managed_env.py,            *)
(* providers.py) in the scope that opens and closes it (scopes.py): its    *)
(* providers are built in the order of what they depend on and cleaned up  *)
(* in the reverse of it.  A build or a cleanup may fail, and the task that *)
(* opens the scope may be cancelled at any await.                          *)
(***************************************************************************)
EXTENDS Naturals, Sequences

CONSTANTS
    Environments,  \* what an environment may be given: [order, deps, existing],
                   \* the names in the order of their registration, what each
                   \* depends on, and the values that it takes over
    MaxHolders     \* a bound on the tasks that share a scope

VARIABLES
    env,
    kind,       \* of the scope: "simple", or "nesting", which tasks can share
    phase,      \* "new", "building", "open", "unwinding", "cleaning" or "over"
    todo,       \* the providers to build, in order
    cleanups,   \* the providers to clean up, in the order they were built in
    up,         \* the providers that hold their resources
    active,     \* is the environment that of the scope?
    holders,    \* _active_scopes, the tasks that share it
    error       \* what opening or closing the scope raised last

vars == <<env, kind, phase, todo, cleanups, up, active, holders, error>>

Init ==
    /\ env \in Environments /\ kind \in {"simple", "nesting"}
    /\ phase = "new" /\ todo = << >> /\ cleanups = << >> /\ up = {}
    /\ active = FALSE /\ holders = 0 /\ error = "none"

Among(s)  == {s[i] : i \in DOMAIN s}
Names     == Among(env.order)
Available == Names \cup env.existing

\* A name is registered once.
Registered ==
    \A e \in Environments :
        /\ e.order \in Seq(Among(e.order))
        /\ \A i, j \in DOMAIN e.order : e.order[i] = e.order[j] => i = j

(***************************************************************************)
(* Opening                                                                 *)
(***************************************************************************)
Missing == \E p \in Names : ~(env.deps[p] \subseteq Available)

\* The providers that can be built after the first n of s.
Before(s, n)   == {s[j] : j \in 1..n}
Ready(done)    == {p \in Names \ done : env.deps[p] \subseteq done \cup env.existing}
IsFirst(p, S)  == \E i \in DOMAIN env.order :
                      p = env.order[i] /\ p \in S /\ \A j \in 1..(i - 1) : env.order[j] \notin S

\* All providers, each of them the first one registered of those that are ready by
\* then: one such order, or none.
DependencyTopologicalSort ==
    {s \in [DOMAIN env.order -> Names] :
        \A i \in DOMAIN s : IsFirst(s[i], Ready(Before(s, i - 1)))}

Cyclic == DependencyTopologicalSort = {}

OpenFails ==
    /\ phase = "new" /\ (Missing \/ Cyclic)
    /\ phase' = "over"
    /\ error' = IF Missing THEN "missing" ELSE "cyclic"
    /\ UNCHANGED <<env, kind, todo, cleanups, up, active, holders>>

OpenScope ==
    /\ phase = "new" /\ ~Missing
    /\ phase' = "building"
    /\ todo' \in DependencyTopologicalSort
    /\ UNCHANGED <<env, kind, cleanups, up, active, holders, error>>

\* A provider is built from the values that the environment has by then: one that
\* is not there fails it.
Resolves(p) == env.deps[p] \subseteq up \cup env.existing

\* A name that has a value already is passed over.
ToBuild == {i \in DOMAIN todo : todo[i] \notin env.existing}

BuildFromName ==
    /\ phase = "building"
    /\ \E i \in ToBuild :
           /\ \A j \in ToBuild : i <= j
           /\ Resolves(todo[i])
           /\ todo' = SubSeq(todo, i + 1, Len(todo))
           /\ cleanups' = Append(cleanups, todo[i])
           /\ up' = up \cup {todo[i]}
    /\ UNCHANGED <<env, kind, phase, active, holders, error>>

\* What was built is cleaned up again.
BuildFails ==
    /\ phase = "building" /\ ToBuild # {}
    /\ phase' = "unwinding" /\ todo' = << >> /\ error' = "build"
    /\ UNCHANGED <<env, kind, cleanups, up, active, holders>>

\* A cancellation is no Exception: nothing is cleaned up.
BuildCancelled ==
    /\ phase = "building" /\ ToBuild # {}
    /\ phase' = "over" /\ todo' = << >> /\ error' = "cancelled"
    /\ UNCHANGED <<env, kind, cleanups, up, active, holders>>

Opened ==
    /\ phase = "building" /\ ToBuild = {}
    /\ phase' = "open" /\ todo' = << >> /\ active' = TRUE /\ holders' = 1
    /\ UNCHANGED <<env, kind, cleanups, up, error>>

ContinueScope ==
    /\ kind = "nesting" /\ active /\ holders < MaxHolders
    /\ holders' = holders + 1
    /\ UNCHANGED <<env, kind, phase, todo, cleanups, up, active, error>>

(***************************************************************************)
(* Closing.  A nesting scope forgets its environment before the cleanup, a *)
(* simple one after it.                                                    *)
(***************************************************************************)
CloseScope ==
    /\ phase = "open" /\ active
    /\ holders' = holders - 1
    /\ IF kind = "nesting" /\ holders > 1
       THEN UNCHANGED <<phase, active>>
       ELSE phase' = "cleaning" /\ active' = (kind = "simple")
    /\ UNCHANGED <<env, kind, todo, cleanups, up, error>>

\* mutant: in the order of creation
Clean_Oldest ==
    /\ phase \in {"unwinding", "cleaning"} /\ cleanups # << >>
    /\ up' = up \ {Head(cleanups)}
    /\ cleanups' = Tail(cleanups)
    /\ UNCHANGED <<env, kind, phase, todo, active, holders, error>>

Newest == cleanups[Len(cleanups)]

Clean ==
    /\ phase \in {"unwinding", "cleaning"} /\ cleanups # << >>
    /\ up' = up \ {Newest}
    /\ cleanups' = SubSeq(cleanups, 1, Len(cleanups) - 1)
    /\ UNCHANGED <<env, kind, phase, todo, active, holders, error>>

\* A provider raises as it is cleaned up, or yields once more, or the task is
\* cancelled: the providers that were built before it are not cleaned up.
CleanFails ==
    /\ phase \in {"unwinding", "cleaning"} /\ cleanups # << >>
    /\ up' = up \ {Newest}
    /\ cleanups' = << >>
    /\ phase' = "over" /\ error' = "clean"
    /\ UNCHANGED <<env, kind, todo, active, holders>>

Closed ==
    /\ phase \in {"unwinding", "cleaning"} /\ cleanups = << >>
    /\ phase' = "over" /\ active' = FALSE
    /\ UNCHANGED <<env, kind, todo, cleanups, up, holders, error>>

Next == \/ OpenFails \/ OpenScope \/ BuildFromName \/ BuildFails \/ BuildCancelled
        \/ Opened \/ ContinueScope \/ CloseScope \/ Clean \/ CleanFails \/ Closed

Spec == Init /\ [][Next]_vars

(***************************************************************************)
(* What an environment promises                                            *)
(***************************************************************************)
\* Whatever fails and wherever it is cancelled, no provider holds its resources
\* without everything that it depends on.
Grounded == \A p \in up : env.deps[p] \subseteq up \cup env.existing

\* A scope that is over has cleaned up all that it built, once, unless a cleanup
\* failed or the opening was cancelled.
NothingLeft == phase = "over" /\ error \notin {"clean", "cancelled"} => up = {}

\* The tasks that share a scope find every value in it until the last of them
\* closes it, and none once its cleanup has begun.
SharedWhileOpen ==
    kind = "nesting" =>
        /\ active <=> phase = "open"
        /\ active => holders > 0 /\ Names \subseteq up \cup env.existing

EnvSound == Grounded /\ NothingLeft /\ SharedWhileOpen

(***************************************************************************)
(* Why it keeps them: what is up is a stack, in which every provider       *)
(* stands on the ones below it, and what is not on it is still to be       *)
(* built or was given.                                                     *)
(***************************************************************************)
EnvTypes ==
    /\ env \in Environments /\ holders \in Nat
    /\ todo \in Seq(Names) /\ cleanups \in Seq(Names)

Injective(s) == \A i, j \in DOMAIN s : s[i] = s[j] => i = j

Once == Injective(todo) /\ Injective(cleanups) /\ Among(todo) \cap Among(cleanups) = {}

Stacked ==
    /\ \A i \in DOMAIN cleanups :
           env.deps[cleanups[i]] \subseteq Before(cleanups, i - 1) \cup env.existing
    /\ phase = "new" => cleanups = << >>
    /\ phase # "over" => up = Among(cleanups)

Covered ==
    /\ phase = "building" => Names \subseteq Among(todo) \cup up \cup env.existing
    /\ phase = "open" => holders > 0 /\ Names \subseteq up \cup env.existing

EnvInv == EnvTypes /\ Once /\ Stacked /\ Covered /\ EnvSound
===============================================================================
