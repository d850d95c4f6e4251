---------------------------- MODULE OperativeSession ----------------------------
(***************************************************************************)
(* One interactive session: the requests of a conversation, the operatives *)
(* they start and the questions and answers that pass between them         *)
(* (mabool/infra/operatives/operatives.py and interaction.py).             *)
(*                                                                         *)
(* A session has two anyio channels without a buffer, one for questions    *)
(* and one for answers: whoever comes first queues and the other takes it  *)
(* from the queue.  A request that starts or continues an operative waits  *)
(* for two tasks, the operative and its own "inquire" task, which receives *)
(* a question.  A request that brings an answer sends it, giving up after  *)
(* a second, and then waits on whatever task pending_tasks.pop() yields.   *)
(*                                                                         *)
(* One step runs from one suspension to the next, except that the sender   *)
(* of an answer is resumed in the step that takes it: its wake-up is       *)
(* always ahead of the callbacks of the operative it feeds.                *)
(***************************************************************************)
EXTENDS Naturals, Sequences, SequencesExt

CONSTANTS Queries,  \* requests that start an operative, which has their name
          Replies,  \* requests that bring an answer
          Nobody,   \* no operative
          MaxAsks   \* bound: the questions an operative asks

ASSUME SessionAssumption ==
  /\ Queries \cap Replies = {}
  /\ Nobody \notin Queries
  /\ MaxAsks \in Nat

Requests == Queries \cup Replies

VARIABLES op,        \* the state of each operative's task
          asks,      \* how many questions it has asked
          pending,   \* SessionData.pending_tasks
          req,       \* the state of each request
          target,    \* the operative a request waits on
          inquire,   \* the state of a request's inquire task
          question,  \* the operative whose question it received
          early,     \* an answer that came when no operative had asked
          askers,    \* operatives queued to send a question
          listeners, \* requests whose inquire task is queued for one
          answers,   \* requests queued to send an answer
          hearers,   \* operatives queued for one
          orderly    \* the client talks in turn

opVars  == <<op, asks, pending>>
reqVars == <<req, target, inquire, question, early>>
vars    == <<op, asks, pending, req, target, inquire, question, early,
             askers, listeners, answers, hearers, orderly>>

(* "asking": queued with a question.  "asked": the question is taken, the   *)
(* operative is about to wait for the answer.  "hearing": waiting for it.   *)
(* "finished": the task is done, its done callback has not run.             *)
OpStates == {"none", "running", "asking", "asked", "hearing", "finished", "done", "cancelled"}

(* "sending" an answer; "expiring": its second is over, it is still queued  *)
(* until it runs; "waiting" in asyncio.wait; the rest is how it ended.      *)
Ended     == {"question", "response", "timeout", "unexpected", "error"}
ReqStates == {"idle", "sending", "expiring", "waiting"} \cup Ended

InquireStates == {"none", "starting", "listening", "delivered", "received", "cancelled"}

Init ==
  /\ op = [o \in Queries |-> "none"]
  /\ asks = [o \in Queries |-> 0]
  /\ pending = {}
  /\ req = [r \in Requests |-> "idle"]
  /\ target = [r \in Requests |-> Nobody]
  /\ inquire = [r \in Requests |-> "none"]
  /\ question = [r \in Requests |-> Nobody]
  /\ early = [r \in Replies |-> FALSE]
  /\ askers = <<>> /\ listeners = <<>> /\ answers = <<>> /\ hearers = <<>>
  /\ orderly \in BOOLEAN

(* A queue of a channel without x, which is in it once at most: anyio keeps  *)
(* those that wait in an ordered dictionary and pops the one that gives up. *)
Without(queue, x) ==
  LET at == CHOOSE i \in DOMAIN queue : queue[i] = x
  IN  IF x \notin ToSet(queue) THEN queue
      ELSE [i \in 1..(Len(queue) - 1) |-> IF i < at THEN queue[i] ELSE queue[i + 1]]

OpDone(o) == op[o] \in {"finished", "done", "cancelled"}
Live      == {o \in Queries : op[o] \notin {"none", "done", "cancelled"}}

-----------------------------------------------------------------------------
(* _run_operative, up to asyncio.wait.                                      *)
StartQuery(q) ==
  /\ req[q] = "idle"
  /\ op' = [op EXCEPT ![q] = "running"]
  /\ pending' = pending \cup {q}
  /\ req' = [req EXCEPT ![q] = "waiting"]
  /\ target' = [target EXCEPT ![q] = q]
  /\ inquire' = [inquire EXCEPT ![q] = "starting"]
  /\ UNCHANGED <<asks, question, early, askers, listeners, answers, hearers>>

(* _handle_inquiry_reply once the answer is taken: the task popped from     *)
(* pending_tasks, an arbitrary one, is put back at once and waited on.      *)
PopAndWait_Forgetting(r, o) ==      \* mutant: the task is not put back
  /\ o \in pending
  /\ pending' = pending \ {o}
  /\ req' = [req EXCEPT ![r] = "waiting"]
  /\ target' = [target EXCEPT ![r] = o]
  /\ inquire' = [inquire EXCEPT ![r] = "starting"]

PopAndWait(r, o) ==
  /\ o \in pending
  /\ pending' = (pending \ {o}) \cup {o}
  /\ req' = [req EXCEPT ![r] = "waiting"]
  /\ target' = [target EXCEPT ![r] = o]
  /\ inquire' = [inquire EXCEPT ![r] = "starting"]

(* send_reply: an operative waits for an answer and gets this one ...       *)
SendReply(r) ==
  /\ req[r] = "idle"
  /\ hearers # <<>>
  /\ op' = [op EXCEPT ![Head(hearers)] = "running"]
  /\ hearers' = Tail(hearers)
  /\ \E o \in pending : PopAndWait(r, o)
  /\ UNCHANGED <<asks, question, early, askers, listeners, answers>>

(* ... or nobody does, and the answer is queued for a second.               *)
QueueReply(r) ==
  /\ req[r] = "idle"
  /\ hearers = <<>>
  /\ req' = [req EXCEPT ![r] = "sending"]
  /\ answers' = Append(answers, r)
  /\ early' = [early EXCEPT ![r] = \A o \in Queries : op[o] \notin {"asking", "asked"}]
  /\ UNCHANGED <<op, asks, pending, target, inquire, question, askers, listeners, hearers>>

(* The second is over.  An operative that is about to hear when the answer  *)
(* comes takes it long before that.                                         *)
ReplyExpires_AtOnce(r) ==           \* mutant: a time-out of no time
  /\ req[r] = "sending"
  /\ req' = [req EXCEPT ![r] = "expiring"]
  /\ UNCHANGED <<opVars, target, inquire, question, early, askers, listeners, answers, hearers>>

ReplyExpires(r) ==
  /\ req[r] = "sending"
  /\ early[r] \/ Head(answers) # r \/ \A o \in Queries : op[o] # "asked"
  /\ req' = [req EXCEPT ![r] = "expiring"]
  /\ UNCHANGED <<opVars, target, inquire, question, early, askers, listeners, answers, hearers>>

(* The request runs again and raises UnexpectedSessionStateError, although  *)
(* an operative may have taken the answer meanwhile.                        *)
ReplyRefused_StillQueued(r) ==      \* mutant: the answer stays in the queue
  /\ req[r] = "expiring"
  /\ req' = [req EXCEPT ![r] = "unexpected"]
  /\ UNCHANGED <<opVars, target, inquire, question, early, askers, listeners, answers, hearers>>

ReplyRefused(r) ==
  /\ req[r] = "expiring"
  /\ req' = [req EXCEPT ![r] = "unexpected"]
  /\ answers' = Without(answers, r)
  /\ UNCHANGED <<opVars, target, inquire, question, early, askers, listeners, hearers>>

-----------------------------------------------------------------------------
(* The inquire task of a request receives a question that is queued ...     *)
InquireTakes(r) ==
  /\ inquire[r] = "starting"
  /\ askers # <<>>
  /\ inquire' = [inquire EXCEPT ![r] = "received"]
  /\ question' = [question EXCEPT ![r] = Head(askers)]
  /\ op' = [op EXCEPT ![Head(askers)] = "asked"]
  /\ askers' = Tail(askers)
  /\ UNCHANGED <<asks, pending, req, target, early, listeners, answers, hearers>>

(* ... or queues for one.                                                   *)
InquireListens(r) ==
  /\ inquire[r] = "starting"
  /\ askers = <<>>
  /\ inquire' = [inquire EXCEPT ![r] = "listening"]
  /\ listeners' = Append(listeners, r)
  /\ UNCHANGED <<opVars, req, target, question, early, askers, answers, hearers>>

(* The inquire task that was given a question is resumed and returns it.    *)
InquireReturns(r) ==
  /\ inquire[r] = "delivered"
  /\ inquire' = [inquire EXCEPT ![r] = "received"]
  /\ UNCHANGED <<opVars, req, target, question, early, askers, listeners, answers, hearers>>

(* Interactions.ask: the question goes to the first request that listens,   *)
(* or is queued.                                                            *)
Ask(o) ==
  /\ op[o] = "running"
  /\ asks[o] < MaxAsks
  /\ asks' = [asks EXCEPT ![o] = @ + 1]
  /\ IF listeners = <<>>
     THEN /\ op' = [op EXCEPT ![o] = "asking"]
          /\ askers' = Append(askers, o)
          /\ UNCHANGED <<inquire, question, listeners>>
     ELSE /\ op' = [op EXCEPT ![o] = "asked"]
          /\ inquire' = [inquire EXCEPT ![Head(listeners)] = "delivered"]
          /\ question' = [question EXCEPT ![Head(listeners)] = o]
          /\ listeners' = Tail(listeners)
          /\ UNCHANGED askers
  /\ UNCHANGED <<pending, req, target, early, answers, hearers>>

(* receive_reply, after a checkpoint: an answer that is queued is taken,    *)
(* also from a sender whose second is over but that has not run yet.        *)
HearQueued(o) ==
  /\ op[o] = "asked"
  /\ answers # <<>>
  /\ op' = [op EXCEPT ![o] = "running"]
  /\ answers' = Tail(answers)
  /\ IF req[Head(answers)] = "sending"
     THEN \E p \in pending : PopAndWait(Head(answers), p)
     ELSE UNCHANGED <<pending, req, target, inquire>>
  /\ UNCHANGED <<asks, question, early, askers, listeners, hearers>>

Hear(o) ==
  /\ op[o] = "asked"
  /\ answers = <<>>
  /\ op' = [op EXCEPT ![o] = "hearing"]
  /\ hearers' = Append(hearers, o)
  /\ UNCHANGED <<asks, pending, reqVars, askers, listeners, answers>>

(* The operative returns or fails (__call__ turns that into VoidResponse).  *)
Finish(o) ==
  /\ op[o] = "running"
  /\ op' = [op EXCEPT ![o] = "finished"]
  /\ UNCHANGED <<asks, pending, reqVars, askers, listeners, answers, hearers>>

(* clear_state, the done callback.                                          *)
DoneCallback(o) ==
  /\ op[o] = "finished"
  /\ op' = [op EXCEPT ![o] = "done"]
  /\ pending' = pending \ {o}
  /\ UNCHANGED <<asks, reqVars, askers, listeners, answers, hearers>>

-----------------------------------------------------------------------------
(* asyncio.wait returns, after the done callback: the operative is done, so *)
(* the inquire task is cancelled, with the question it may hold.            *)
Respond(r) ==
  /\ req[r] = "waiting"
  /\ op[target[r]] \in {"done", "cancelled"}
  /\ inquire[r] # "received"
  /\ inquire' = [inquire EXCEPT ![r] = "cancelled"]
  /\ listeners' = Without(listeners, r)
  /\ req' = [req EXCEPT ![r] = IF op[target[r]] = "cancelled" THEN "error" ELSE "response"]
  /\ UNCHANGED <<opVars, target, question, early, askers, answers, hearers>>

(* A question came: it is returned and the operative is left as it is.      *)
Question(r) ==
  /\ req[r] = "waiting"
  /\ ~ OpDone(target[r])
  /\ inquire[r] = "received"
  /\ req' = [req EXCEPT ![r] = "question"]
  /\ UNCHANGED <<opVars, target, inquire, question, early, askers, listeners, answers, hearers>>

(* Both are done: asyncio.wait of the empty set of pending tasks raises.    *)
BothDone(r) ==
  /\ req[r] = "waiting"
  /\ OpDone(target[r])
  /\ inquire[r] = "received"
  /\ req' = [req EXCEPT ![r] = "error"]
  /\ UNCHANGED <<opVars, target, inquire, question, early, askers, listeners, answers, hearers>>

(* operative_timeout: both tasks are cancelled and waited for.              *)
Timeout_InquireStays(r) ==          \* mutant: the inquire task is not cancelled
  /\ req[r] = "waiting"
  /\ ~ OpDone(target[r])
  /\ inquire[r] # "received"
  /\ op' = [op EXCEPT ![target[r]] = "cancelled"]
  /\ pending' = pending \ {target[r]}
  /\ askers' = Without(askers, target[r])
  /\ hearers' = Without(hearers, target[r])
  /\ req' = [req EXCEPT ![r] = "timeout"]
  /\ UNCHANGED <<asks, target, inquire, question, early, listeners, answers>>

Timeout_WorkOnly(r) ==              \* mutant: no limit while an answer is awaited
  /\ req[r] = "waiting"
  /\ op[target[r]] = "running"
  /\ inquire[r] # "received"
  /\ op' = [op EXCEPT ![target[r]] = "cancelled"]
  /\ pending' = pending \ {target[r]}
  /\ inquire' = [inquire EXCEPT ![r] = "cancelled"]
  /\ listeners' = Without(listeners, r)
  /\ req' = [req EXCEPT ![r] = "timeout"]
  /\ UNCHANGED <<asks, target, question, early, askers, answers, hearers>>

Timeout(r) ==
  /\ req[r] = "waiting"
  /\ ~ OpDone(target[r])
  /\ inquire[r] # "received"
  /\ op' = [op EXCEPT ![target[r]] = "cancelled"]
  /\ pending' = pending \ {target[r]}
  /\ askers' = Without(askers, target[r])
  /\ hearers' = Without(hearers, target[r])
  /\ inquire' = [inquire EXCEPT ![r] = "cancelled"]
  /\ listeners' = Without(listeners, r)
  /\ req' = [req EXCEPT ![r] = "timeout"]
  /\ UNCHANGED <<asks, target, question, early, answers>>

-----------------------------------------------------------------------------
OperativeStep(o) == Ask(o) \/ HearQueued(o) \/ Hear(o) \/ Finish(o) \/ DoneCallback(o)

RequestStep(r) ==
  \/ InquireTakes(r) \/ InquireListens(r) \/ InquireReturns(r)
  \/ Respond(r) \/ Question(r) \/ BothDone(r) \/ Timeout(r)

ReplyStep(r) == ReplyExpires(r) \/ ReplyRefused(r)

Internal ==
  \/ \E o \in Queries : OperativeStep(o)
  \/ \E r \in Requests : RequestStep(r)
  \/ \E r \in Replies : ReplyStep(r)

(* Requests come whenever their clients please.  A client that talks in     *)
(* turn waits for the end of a request, answers a question it was asked and *)
(* starts anew only when there is none.                                     *)
Quiet == \A r \in Requests : req[r] = "idle" \/ req[r] \in Ended

Next ==
  /\ \/ /\ orderly => Quiet /\ Live = {}
        /\ \E q \in Queries : StartQuery(q)
     \/ /\ orderly => Quiet /\ Live # {}
        /\ \E r \in Replies : SendReply(r) \/ QueueReply(r)
     \/ Internal
  /\ UNCHANGED orderly

(* The event loop runs what is ready and fires its timers; neither clients  *)
(* nor operatives have to do anything.                                      *)
Fairness ==
  /\ \A o \in Queries : WF_vars((HearQueued(o) \/ Hear(o) \/ DoneCallback(o)) /\ UNCHANGED orderly)
  /\ \A r \in Requests : WF_vars(RequestStep(r) /\ UNCHANGED orderly)
  /\ \A r \in Replies : WF_vars(ReplyStep(r) /\ UNCHANGED orderly)

Spec == Init /\ [][Next]_vars /\ Fairness

-----------------------------------------------------------------------------
\* The types of the variables.
TypeOK ==
  /\ op \in [Queries -> OpStates]
  /\ asks \in [Queries -> 0..MaxAsks]
  /\ pending \subseteq Queries
  /\ req \in [Requests -> ReqStates]
  /\ target \in [Requests -> Queries \cup {Nobody}]
  /\ inquire \in [Requests -> InquireStates]
  /\ question \in [Requests -> Queries \cup {Nobody}]
  /\ early \in [Replies -> BOOLEAN]
  /\ askers \in Seq(Queries) /\ hearers \in Seq(Queries)
  /\ listeners \in Seq(Requests) /\ answers \in Seq(Replies)
  /\ orderly \in BOOLEAN

(* pending_tasks holds the operatives that are not over, although every     *)
(* answer takes one out, so that pop() finds one for each answer taken.     *)
PendingIsLive == pending = Live

(* The two rendezvous lose nobody: each queue holds, once, those that are   *)
(* suspended in it, and a sender and a receiver never wait for each other,  *)
(* through time-outs, cancellations and answers nobody asked for.           *)
NobodyForgotten ==
  /\ IsInjective(askers) /\ ToSet(askers) = {o \in Queries : op[o] = "asking"}
  /\ IsInjective(hearers) /\ ToSet(hearers) = {o \in Queries : op[o] = "hearing"}
  /\ IsInjective(listeners) /\ ToSet(listeners) = {r \in Requests : inquire[r] = "listening"}
  /\ IsInjective(answers)
  /\ {r \in Replies : req[r] = "sending"} \subseteq ToSet(answers)
  /\ ToSet(answers) \subseteq {r \in Replies : req[r] \in {"sending", "expiring"}}
  /\ askers = <<>> \/ listeners = <<>>
  /\ answers = <<>> \/ hearers = <<>>

(* Every request ends: with a response, a question or an error, but it is   *)
(* never left hanging, whatever the operatives and the other requests do.   *)
RequestsEnd == \A r \in Requests : (req[r] # "idle") ~> (req[r] \in Ended)

(* A client that talks in turn is never told that its answer was not        *)
(* expected, and no request of it fails inside.                             *)
OrderlyNeverRefused == orderly => \A r \in Requests : req[r] \notin {"unexpected", "error"}

(* In an orderly conversation a question comes from the operative that the  *)
(* request waits on, and that operative, if not cut off, awaits the answer. *)
OrderlyQuestions ==
  orderly => \A r \in Requests : question[r] # Nobody => question[r] = target[r]

(* A client that talks in turn is served: no request of it is refused, fails *)
(* inside, or hears the question of another operative (_run_operative,      *)
(* _handle_inquiry_reply and the two rendezvous of InteractionManager).      *)
OrderlyServed == OrderlyNeverRefused /\ OrderlyQuestions

=============================================================================
