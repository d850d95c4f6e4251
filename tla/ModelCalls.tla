------------------------------ MODULE ModelCalls ------------------------------
(***************************************************************************)
(* A batch of calls of a language model: every call is retried, and when   *)
(* the endpoint races, a call that is slow competes with calls of the      *)
(* fallback models (libs/chain: retry.py, endpoints.py), until the text    *)
(* that comes back is parsed, or fixed by the model and parsed again       *)
(* (builders.py).  A task is one model under one call: 0 is the endpoint's *)
(* own model, the others are the fallbacks in their order.  How long a     *)
(* wait takes is not modelled: a soft timeout may fire whenever its task   *)
(* still runs.  A race that has its answer may cancel its other models;    *)
(* one that is cancelled amid an attempt tries again, if it may, because   *)
(* the condition of the retries, "no timeout", holds of a cancellation.    *)
(***************************************************************************)
EXTENDS Integers, Sequences, FiniteSets

CONSTANTS
    Settings    \* what an endpoint and a batch may be given: records with
                \* calls, fallbacks, attempts, concurrency (Nat) and racing,
                \* cancelPending, returnExceptions (BOOLEAN)

VARIABLES
    settings,   \* those of this batch
    phase,      \* where each call is
    task,       \* per call, the state of each task and the attempts it made
    active,     \* per call, the tasks its race still waits for
    answer,     \* per call, the task whose outcome is the call's
    parsed,     \* per call, what became of the text
    batch       \* whether the caller of the batch has got something, and what

vars == <<settings, phase, task, active, answer, parsed, batch>>

\* What the settings of a batch are.
Numbered ==
  Settings \subseteq [calls : Nat, fallbacks : Nat, attempts : Nat, concurrency : Nat,
                      racing : BOOLEAN, cancelPending : BOOLEAN, returnExceptions : BOOLEAN]

None == -1

Calls == 1 .. settings.calls
\* With no fallback the race starts the endpoint's model again.
Models == 1 .. (IF settings.fallbacks = 0 THEN 1 ELSE settings.fallbacks)
Tasks == 0 .. (IF ~settings.racing THEN 0 ELSE Cardinality(Models))

Timeouts == {"asyncio", "http"}
Ended    == Timeouts \cup {"ok", "error", "cancelled"}

State(c, t) == task[c][t].state
Done(c)     == {t \in active[c] : State(c, t) \in Ended}
Raised(c)   == answer[c] # None /\ State(c, answer[c]) # "ok"

Init ==
    /\ settings \in Settings
    /\ phase  = [c \in Calls |-> "queued"]
    /\ task   = [c \in Calls |-> [t \in Tasks |-> [state |-> "none", attempts |-> 0]]]
    /\ active = [c \in Calls |-> {}]
    /\ answer = [c \in Calls |-> None]
    /\ parsed = [c \in Calls |-> "none"]
    /\ batch  = [state |-> "running", results |-> << >>]

Start(c, t) == task' = [task EXCEPT ![c][t].state = "running"]

(***************************************************************************)
(* One attempt of a task                                                   *)
(***************************************************************************)
\* The fallback that stands in for none is the bare model, without retries.
Bare(t)     == t > 0 /\ settings.fallbacks = 0
Attempts(t) == IF Bare(t) THEN 1 ELSE settings.attempts

Retries(c, t, outcome) ==
    /\ outcome \in Timeouts => ~settings.racing
    /\ task[c][t].attempts + 1 < Attempts(t)

Attempt(c, t) ==
    /\ State(c, t) = "running"
    /\ \E outcome \in {"ok", "error"} \cup Timeouts :
           task' = [task EXCEPT ![c][t] =
               [state    |-> IF outcome # "ok" /\ Retries(c, t, outcome)
                             THEN "running" ELSE outcome,
                attempts |-> @.attempts + 1]]
    /\ UNCHANGED <<settings, phase, active, answer, parsed, batch>>

(***************************************************************************)
(* A call                                                                  *)
(***************************************************************************)
MayEnter(c) ==
    /\ phase[c] = "queued"
    /\ Cardinality({d \in Calls : phase[d] \notin {"queued", "ended"}}) < settings.concurrency

Enter(c) ==
    /\ MayEnter(c)
    /\ phase' = [phase EXCEPT ![c] = IF settings.racing THEN "first" ELSE "plain"]
    /\ Start(c, 0)
    /\ active' = [active EXCEPT ![c] = {0}]
    /\ UNCHANGED <<settings, answer, parsed, batch>>

\* The retries take the cancellation of an attempt for a failure of it.
Interrupted(c, t) ==
    [state    |-> IF Retries(c, t, "cancelled") THEN "running" ELSE "error",
     attempts |-> task[c][t].attempts + 1]

Pending(c) == {t \in active[c] : State(c, t) = "running"}

\* mutant: a cancellation is only told to the models that are in an attempt
Cancel_Attempts(c, amid) ==
    [t \in Tasks |-> IF t \in amid THEN Interrupted(c, t) ELSE task[c][t]]
\* The tasks of a call once those it waits for are cancelled, some of them amid
\* an attempt: the others have not begun, wait for their next, or are not retried.
Cancel(c, amid) ==
    [t \in Tasks |->
        IF t \in amid THEN Interrupted(c, t)
        ELSE IF t \in Pending(c) THEN [task[c][t] EXCEPT !.state = "cancelled"]
        ELSE task[c][t]]

\* With a completed task, the others are cancelled when the endpoint says so.
Complete(c, t) ==
    /\ phase'  = [phase EXCEPT ![c] = "ended"]
    /\ answer' = [answer EXCEPT ![c] = t]
    /\ IF settings.cancelPending
       THEN \E amid \in SUBSET {u \in Pending(c) : ~Bare(u)} :
                task' = [task EXCEPT ![c] = Cancel(c, amid)]
       ELSE UNCHANGED task

End(c) ==
    /\ phase[c] = "plain" /\ State(c, 0) \in Ended
    /\ phase'  = [phase EXCEPT ![c] = "ended"]
    /\ answer' = [answer EXCEPT ![c] = 0]
    /\ UNCHANGED <<settings, task, active, parsed, batch>>

\* Within the soft timeout every outcome ends the call, except asyncio's own
\* TimeoutError, which looks like the soft timeout.
TryOriginal(c) ==
    /\ phase[c] = "first" /\ State(c, 0) \in Ended \ {"asyncio"}
    /\ phase'  = [phase EXCEPT ![c] = "ended"]
    /\ answer' = [answer EXCEPT ![c] = 0]
    /\ UNCHANGED <<settings, task, active, parsed, batch>>

StartFallback(c, t, waited) ==
    /\ Start(c, t)
    /\ active' = [active EXCEPT ![c] = waited \cup {t}]
    /\ phase'  = [phase EXCEPT ![c] = "race"]

SoftTimeout(c) ==
    /\ phase[c] = "first" /\ State(c, 0) \in {"running", "asyncio"}
    /\ StartFallback(c, 1, {0})
    /\ UNCHANGED <<settings, answer, parsed, batch>>

Started(c) == {t \in Models : State(c, t) # "none"}
Last(c)    == Started(c) = Models

Completed(c) == {t \in Done(c) : State(c, t) \in {"ok", "error"}}

RaceCompletes(c) ==
    /\ phase[c] \in {"race", "rest"}
    /\ \E t \in Completed(c) : Complete(c, t)
    /\ UNCHANGED <<settings, active, parsed, batch>>

\* Only timeouts came, or the next soft timeout: the next fallback joins.
NextFallback(c) ==
    /\ phase[c] = "race" /\ ~Last(c) /\ Completed(c) = {}
    /\ StartFallback(c, Cardinality(Started(c)) + 1, active[c] \ Done(c))
    /\ UNCHANGED <<settings, answer, parsed, batch>>

\* mutant: the call gives up once its last fallback is among those that timed out
NoMoreFallbacks_GiveUp(c) ==
    /\ phase[c] \in {"race", "rest"} /\ Last(c) /\ Done(c) # {} /\ Completed(c) = {}
    /\ active' = [active EXCEPT ![c] = {}]
    /\ phase'  = [phase EXCEPT ![c] = "rest"]
    /\ UNCHANGED <<settings, task, answer, parsed, batch>>
\* mutant: the tasks that timed out are waited for again
NoMoreFallbacks_Again(c) ==
    /\ phase[c] \in {"race", "rest"} /\ Last(c) /\ Done(c) # {} /\ Completed(c) = {}
    /\ phase'  = [phase EXCEPT ![c] = "rest"]
    /\ UNCHANGED <<settings, active, task, answer, parsed, batch>>
NoMoreFallbacks(c) ==
    /\ phase[c] \in {"race", "rest"} /\ Last(c) /\ Done(c) # {} /\ Completed(c) = {}
    /\ active' = [active EXCEPT ![c] = @ \ Done(c)]
    /\ phase'  = [phase EXCEPT ![c] = "rest"]
    /\ UNCHANGED <<settings, task, answer, parsed, batch>>

\* Everything timed out: the call raises what the endpoint's own model raised.
AllTimedOut(c) ==
    /\ phase[c] = "rest" /\ active[c] = {}
    /\ phase'  = [phase EXCEPT ![c] = "ended"]
    /\ answer' = [answer EXCEPT ![c] = 0]
    /\ UNCHANGED <<settings, task, active, parsed, batch>>

(***************************************************************************)
(* The batch: the texts are parsed once every call has ended.              *)
(***************************************************************************)
Answered == \A c \in Calls : phase[c] = "ended"

\* The caller gets the first exception; the calls go on by themselves.
BatchRaises ==
    /\ batch.state = "running" /\ ~settings.returnExceptions
    /\ \E c \in Calls : Raised(c) \/ parsed[c] = "failed"
    /\ batch' = [batch EXCEPT !.state = "raised"]
    /\ UNCHANGED <<settings, phase, task, active, answer, parsed>>

\* A text that does not parse goes to the model once more.
Parse(c) ==
    /\ batch.state = "running" /\ Answered /\ ~Raised(c) /\ parsed[c] = "none"
    /\ settings.returnExceptions \/ ~\E d \in Calls : Raised(d)
    /\ parsed' \in {[parsed EXCEPT ![c] = p] : p \in {"parsed", "fixing"}}
    /\ UNCHANGED <<settings, phase, task, active, answer, batch>>

Fix(c) ==
    /\ parsed[c] = "fixing"
    /\ parsed' \in {[parsed EXCEPT ![c] = p] : p \in {"parsed", "failed"}}
    /\ UNCHANGED <<settings, phase, task, active, answer, batch>>

Judged(c) == Raised(c) \/ parsed[c] \in {"parsed", "failed"}

Results == [c \in Calls |-> [of |-> c, ok |-> parsed[c] = "parsed"]]

BatchReturns ==
    /\ batch.state = "running" /\ Answered /\ \A c \in Calls : Judged(c)
    /\ settings.returnExceptions \/ \A c \in Calls : parsed[c] = "parsed"
    /\ batch' = [state |-> "returned", results |-> Results]
    /\ UNCHANGED <<settings, phase, task, active, answer, parsed>>

Step(c) ==
    \/ Enter(c) \/ End(c) \/ TryOriginal(c) \/ SoftTimeout(c) \/ RaceCompletes(c)
    \/ NextFallback(c) \/ NoMoreFallbacks(c) \/ AllTimedOut(c) \/ Parse(c) \/ Fix(c)

Next ==
    \/ \E c \in Calls : Step(c) \/ \E t \in Tasks : Attempt(c, t)
    \/ BatchRaises \/ BatchReturns

(***************************************************************************)
(* Every attempt ends, by its own timeout at the latest, and what is ready *)
(* to run in the event loop runs.                                          *)
(***************************************************************************)
Fairness == WF_vars(Next)
FairSpec == Init /\ [][Next]_vars /\ Fairness

(***************************************************************************)
(* What the calls promise                                                  *)
(***************************************************************************)
Live(c, t) == State(c, t) = "running"

\* A race is not lost by a model that is merely slow: once it has begun it
\* ends in a timeout only when every model it could ask has timed out.
SlowIsOutlived ==
    \A c \in Calls :
        (/\ answer[c] # None /\ settings.racing /\ Started(c) # {}
         /\ State(c, answer[c]) \in Timeouts) =>
            /\ Started(c) = Models
            /\ \A t \in Tasks : State(c, t) \in Timeouts

\* Once a call of an endpoint that cancels has its answer, a model of it goes on
\* only as a retry: with an attempt behind it, interrupted or failed, and within
\* the number of its attempts.  The bare model, which is not retried, stops.
OnlyRetriesGoOn ==
    \A c \in Calls : settings.cancelPending /\ phase[c] = "ended" =>
        \A t \in Tasks : Live(c, t) => task[c][t].attempts \in 1 .. Attempts(t) - 1

\* The batch never works on more calls than its limit, and every result is at
\* the place of its input: the caller matches failures with inputs by index.
BatchAligned ==
    /\ Cardinality({c \in Calls : phase[c] \notin {"queued", "ended"}}) <= settings.concurrency
    /\ batch.state = "returned" =>
           /\ Len(batch.results) = settings.calls
           /\ \A c \in Calls :
                  /\ batch.results[c].of = c
                  /\ batch.results[c].ok <=> ~Raised(c) /\ parsed[c] = "parsed"

CallsSound == SlowIsOutlived /\ OnlyRetriesGoOn /\ BatchAligned

\* Every batch is answered, as long as its attempts end.
BatchOver     == batch.state # "running"
BatchAnswered == <>BatchOver
===============================================================================
