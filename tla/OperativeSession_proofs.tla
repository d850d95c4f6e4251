------------------------- MODULE OperativeSession_proofs -------------------------
(***************************************************************************)
(* Theorems about OperativeSession, for every set of queries and of        *)
(* replies and every number of questions.                                  *)
(***************************************************************************)
EXTENDS OperativeSession, SequenceTheorems, TLAPS

-----------------------------------------------------------------------------
(* The queues of a channel: sequences without repetition, of which only the *)
(* members and the head matter.                                             *)
LEMMA QueueMembers ==
  ASSUME NEW S, NEW q \in Seq(S)
  PROVE  /\ ToSet(q) \subseteq S
         /\ q = <<>> <=> ToSet(q) = {}
         /\ q # <<>> => Head(q) \in ToSet(q)
BY EmptySeq DEF ToSet

LEMMA QueueAppend ==
  ASSUME NEW S, NEW q \in Seq(S), IsInjective(q), NEW x \in S, x \notin ToSet(q)
  PROVE  /\ Append(q, x) \in Seq(S)
         /\ IsInjective(Append(q, x))
         /\ ToSet(Append(q, x)) = ToSet(q) \cup {x}
<1> DEFINE r == Append(q, x)
<1>1. /\ r \in Seq(S) /\ Len(q) \in Nat /\ DOMAIN q = 1..Len(q)
      /\ DOMAIN r = 1..(Len(q) + 1)
      /\ \A i \in 1..Len(q) : r[i] = q[i]
      /\ r[Len(q) + 1] = x
  BY AppendProperties, LenProperties
<1> HIDE DEF r
<1>2. IsInjective(r)
  BY <1>1 DEF IsInjective, ToSet
<1>3. ToSet(r) = ToSet(q) \cup {x}
  BY <1>1 DEF ToSet
<1> QED BY <1>1, <1>2, <1>3 DEF r

LEMMA QueueTail ==
  ASSUME NEW S, NEW q \in Seq(S), IsInjective(q), q # <<>>
  PROVE  /\ Tail(q) \in Seq(S)
         /\ IsInjective(Tail(q))
         /\ ToSet(Tail(q)) = ToSet(q) \ {Head(q)}
<1> DEFINE r == Tail(q)
<1>1. /\ r \in Seq(S) /\ Len(q) \in Nat \ {0} /\ DOMAIN q = 1..Len(q)
      /\ DOMAIN r = 1..(Len(q) - 1)
      /\ \A i \in 1..(Len(q) - 1) : r[i] = q[i + 1]
      /\ Head(q) = q[1]
  BY HeadTailProperties, LenProperties, EmptySeq
<1> HIDE DEF r
<1>2. IsInjective(r)
  <2> SUFFICES ASSUME NEW i \in DOMAIN r, NEW j \in DOMAIN r, r[i] = r[j] PROVE i = j
    BY DEF IsInjective
  <2>1. i + 1 \in DOMAIN q /\ j + 1 \in DOMAIN q /\ q[i + 1] = q[j + 1]
    BY <1>1
  <2> QED BY <1>1, <2>1 DEF IsInjective
<1>3. ToSet(r) = ToSet(q) \ {Head(q)}
  <2>1. \A i \in DOMAIN r : r[i] \in ToSet(q) /\ r[i] # Head(q)
    BY <1>1 DEF IsInjective, ToSet
  <2>2. ASSUME NEW i \in DOMAIN q, q[i] # Head(q) PROVE q[i] \in ToSet(r)
    <3>1. i - 1 \in DOMAIN r /\ r[i - 1] = q[i]
      BY <1>1, <2>2
    <3> QED BY <3>1 DEF ToSet
  <2> QED BY <2>1, <2>2 DEF ToSet
<1> QED BY <1>1, <1>2, <1>3 DEF r

LEMMA QueueWithout ==
  ASSUME NEW S, NEW q \in Seq(S), IsInjective(q), NEW x
  PROVE  /\ Without(q, x) \in Seq(S)
         /\ IsInjective(Without(q, x))
         /\ ToSet(Without(q, x)) = ToSet(q) \ {x}
<1>1. CASE x \notin ToSet(q)
  BY <1>1 DEF Without
<1>2. CASE x \in ToSet(q)
  <2> DEFINE at == CHOOSE i \in DOMAIN q : q[i] = x
             r  == Without(q, x)
  <2>1. at \in DOMAIN q /\ q[at] = x
    BY <1>2 DEF ToSet
  <2>2. Len(q) \in Nat /\ DOMAIN q = 1..Len(q) /\ \A i \in DOMAIN q : q[i] \in S
    BY LenProperties
  <2>3. r = [i \in 1..(Len(q) - 1) |-> IF i < at THEN q[i] ELSE q[i + 1]]
    BY <1>2 DEF Without
  <2> HIDE DEF at, r
  <2>4. r \in Seq(S)
    <3>1. Len(q) - 1 \in Nat
      BY <2>1, <2>2
    <3>2. \A i \in 1..(Len(q) - 1) : (IF i < at THEN q[i] ELSE q[i + 1]) \in S
      BY <2>1, <2>2
    <3>3. r \in [1..(Len(q) - 1) -> S]
      BY <2>3, <3>2
    <3> QED BY <3>1, <3>3, SeqDef
  <2>5. IsInjective(r)
    BY <2>1, <2>2, <2>3 DEF IsInjective
  <2>6. ToSet(r) = ToSet(q) \ {x}
    <3>1. \A i \in DOMAIN r : r[i] \in ToSet(q) /\ r[i] # x
      BY <2>1, <2>2, <2>3 DEF IsInjective, ToSet
    <3>2. ASSUME NEW i \in DOMAIN q, q[i] # x PROVE q[i] \in ToSet(r)
      <4>1. CASE i < at
        <5>1. i \in DOMAIN r /\ r[i] = q[i]
          BY <2>1, <2>2, <2>3, <4>1
        <5> QED BY <5>1 DEF ToSet
      <4>2. CASE i > at
        <5>1. i - 1 \in DOMAIN r /\ r[i - 1] = q[i]
          BY <2>1, <2>2, <2>3, <4>2
        <5> QED BY <5>1 DEF ToSet
      <4> QED BY <2>1, <2>2, <3>2, <4>1, <4>2
    <3> QED BY <3>1, <3>2 DEF ToSet
  <2> QED BY <2>4, <2>5, <2>6 DEF r
<1> QED BY <1>1, <1>2

-----------------------------------------------------------------------------
(* The inductive invariant                                                  *)

(* A request that has not begun to wait has no part in the other channel,   *)
(* and an operative is there once its query was sent.                       *)
BeforeWaiting ==
  /\ \A r \in Requests : req[r] \in {"idle", "sending", "expiring"} =>
       target[r] = Nobody /\ inquire[r] = "none" /\ question[r] = Nobody
  /\ \A q \in Queries : req[q] = "idle" => op[q] = "none"
  /\ \A q \in Queries : req[q] \notin {"sending", "expiring"}

(* An inquire task is at work only while its request waits on an operative. *)
InquiresForWaiting ==
  /\ \A r \in Requests : req[r] = "waiting" => target[r] \in Queries /\ op[target[r]] # "none"
  /\ \A r \in Requests : inquire[r] \in {"starting", "listening", "delivered"} => req[r] = "waiting"

Everyone == TypeOK /\ BeforeWaiting /\ InquiresForWaiting /\ PendingIsLive /\ NobodyForgotten

Under == {r \in Requests : req[r] \in {"sending", "expiring", "waiting"}}

(* In an orderly conversation there is one request under way at most, and   *)
(* one operative alive.                                                     *)
OneAtATime ==
  /\ \A r, s \in Under : r = s
  /\ \A o, p \in Live : o = p

(* The operative that is alive is the one that a request waits on.  If none *)
(* waits, it has asked and awaits the answer, which is then under way or    *)
(* still to come.                                                           *)
OneConversation ==
  /\ \A r \in Requests : req[r] = "waiting" => Live \subseteq {target[r]}
  /\ \A r \in Requests : req[r] = "waiting" => op[target[r]] # "cancelled"
  /\ (\A r \in Requests : req[r] # "waiting") => \A o \in Live : op[o] \in {"asked", "hearing"}

(* Nor does it end while its question waits to be returned.                 *)
AsksAndStays ==
  \A r \in Requests :
    req[r] = "waiting" /\ inquire[r] \in {"delivered", "received"} =>
      op[target[r]] \in {"asked", "hearing"}

(* An answer that is queued is about to be heard.                           *)
AnswerHeard ==
  \A r \in Replies : req[r] = "sending" => ~early[r] /\ \E o \in Queries : op[o] = "asked"

NeverExpires == \A r \in Requests : req[r] # "expiring"

InTurn ==
  orderly =>
    /\ OneAtATime /\ OneConversation /\ AsksAndStays /\ AnswerHeard /\ NeverExpires
    /\ OrderlyNeverRefused /\ OrderlyQuestions

IInv == Everyone /\ InTurn

-----------------------------------------------------------------------------
(* Init => IInv *)
LEMMA InitInv == Init => IInv
<1> SUFFICES ASSUME Init PROVE IInv
  OBVIOUS
<1> USE SessionAssumption DEF Init, Requests
<1>1. TypeOK
  BY EmptySeq DEF TypeOK, OpStates, ReqStates, InquireStates
<1>2. BeforeWaiting /\ InquiresForWaiting
  BY DEF BeforeWaiting, InquiresForWaiting
<1>3. PendingIsLive /\ Live = {}
  BY DEF PendingIsLive, Live
<1>4. NobodyForgotten
  BY DEF NobodyForgotten, ToSet, IsInjective
<1>5. InTurn
  BY <1>3, SessionAssumption DEF InTurn, OneAtATime, Under, OneConversation, AsksAndStays, AnswerHeard,
         NeverExpires, OrderlyNeverRefused, OrderlyQuestions
<1> QED BY <1>1, <1>2, <1>3, <1>4, <1>5 DEF IInv, Everyone

-----------------------------------------------------------------------------
(* What holds with any client, one lemma per action.  NobodyForgotten, one  *)
(* queue at a time:                                                         *)
AskersKept    == IsInjective(askers) /\ ToSet(askers) = {o \in Queries : op[o] = "asking"}
HearersKept   == IsInjective(hearers) /\ ToSet(hearers) = {o \in Queries : op[o] = "hearing"}
ListenersKept == IsInjective(listeners) /\ ToSet(listeners) = {r \in Requests : inquire[r] = "listening"}
AnswersKept ==
  /\ IsInjective(answers)
  /\ {r \in Replies : req[r] = "sending"} \subseteq ToSet(answers)
  /\ ToSet(answers) \subseteq {r \in Replies : req[r] \in {"sending", "expiring"}}
NobodyMissed == (askers = <<>> \/ listeners = <<>>) /\ (answers = <<>> \/ hearers = <<>>)

LEMMA QueueByQueue ==
  NobodyForgotten <=> AskersKept /\ HearersKept /\ ListenersKept /\ AnswersKept /\ NobodyMissed
BY DEF NobodyForgotten, AskersKept, HearersKept, ListenersKept, AnswersKept, NobodyMissed

LEMMA QueueByQueueNext ==
  NobodyForgotten' <=>
    AskersKept' /\ HearersKept' /\ ListenersKept' /\ AnswersKept' /\ NobodyMissed'
BY DEF NobodyForgotten, AskersKept, HearersKept, ListenersKept, AnswersKept, NobodyMissed

USE SessionAssumption
DEF opVars, reqVars, Requests, OpStates, Ended, ReqStates, InquireStates, Everyone

LEMMA StartQueryKeeps ==
  ASSUME Everyone, NEW q \in Queries, StartQuery(q), UNCHANGED orderly
  PROVE  Everyone'
<1>1. TypeOK'
  BY DEF TypeOK, StartQuery
<1>2. BeforeWaiting'
  BY DEF TypeOK, BeforeWaiting, InquiresForWaiting, StartQuery
<1>3. InquiresForWaiting'
  BY DEF TypeOK, BeforeWaiting, InquiresForWaiting, PendingIsLive, Live, StartQuery
<1>4. PendingIsLive'
  BY DEF TypeOK, BeforeWaiting, InquiresForWaiting, PendingIsLive, Live, StartQuery
<1>5. AskersKept'
  BY QueueByQueue DEF TypeOK, InquiresForWaiting, BeforeWaiting, AskersKept, StartQuery
<1>6. HearersKept'
  BY QueueByQueue DEF TypeOK, InquiresForWaiting, BeforeWaiting, HearersKept, AskersKept, StartQuery
<1>7. ListenersKept'
  BY QueueByQueue DEF TypeOK, BeforeWaiting, ListenersKept, StartQuery
<1>8. AnswersKept'
  BY QueueByQueue DEF TypeOK, BeforeWaiting, InquiresForWaiting, AnswersKept, StartQuery
<1>9. NobodyMissed'
  BY QueueByQueue, QueueMembers DEF TypeOK, AskersKept, HearersKept, ListenersKept, AnswersKept, NobodyMissed, StartQuery
<1> QED BY <1>1, <1>2, <1>3, <1>4, <1>5, <1>6, <1>7, <1>8, <1>9, QueueByQueueNext DEF Everyone

LEMMA SendReplyKeeps ==
  ASSUME Everyone, NEW r \in Replies, SendReply(r), UNCHANGED orderly
  PROVE  Everyone'
<1>1. PICK o \in pending : PopAndWait(r, o)
  BY DEF SendReply
<1>2. hearers # <<>> /\ Head(hearers) \in ToSet(hearers) /\ Head(hearers) \in Queries
  BY QueueMembers DEF SendReply, TypeOK
<1>3. hearers' \in Seq(Queries) /\ IsInjective(hearers')
      /\ ToSet(hearers') = ToSet(hearers) \ {Head(hearers)}
  BY <1>2, QueueTail, QueueByQueue DEF SendReply, TypeOK, HearersKept
<1>4. op[Head(hearers)] = "hearing"
  BY <1>2, QueueByQueue DEF HearersKept
<1>5. TypeOK'
  BY <1>1, <1>2, <1>3, <1>4 DEF TypeOK, SendReply, PopAndWait
<1>6. BeforeWaiting'
  BY <1>1, <1>2, <1>3, <1>4 DEF TypeOK, BeforeWaiting, InquiresForWaiting, SendReply, PopAndWait
<1>7. InquiresForWaiting'
  BY <1>1, <1>2, <1>3, <1>4 DEF TypeOK, BeforeWaiting, InquiresForWaiting, PendingIsLive, Live, SendReply, PopAndWait
<1>8. PendingIsLive'
  BY <1>1, <1>2, <1>3, <1>4 DEF TypeOK, BeforeWaiting, InquiresForWaiting, PendingIsLive, Live, SendReply, PopAndWait
<1>9. AskersKept'
  BY <1>1, <1>2, <1>3, <1>4, QueueByQueue DEF TypeOK, InquiresForWaiting, BeforeWaiting, AskersKept, SendReply, PopAndWait
<1>10. HearersKept'
  BY <1>1, <1>2, <1>3, <1>4, QueueByQueue DEF TypeOK, InquiresForWaiting, BeforeWaiting, HearersKept, AskersKept, SendReply, PopAndWait
<1>11. ListenersKept'
  BY <1>1, <1>2, <1>3, <1>4, QueueByQueue DEF TypeOK, BeforeWaiting, ListenersKept, SendReply, PopAndWait
<1>12. AnswersKept'
  BY <1>1, <1>2, <1>3, <1>4, QueueByQueue DEF TypeOK, BeforeWaiting, InquiresForWaiting, AnswersKept, SendReply, PopAndWait
<1>13. NobodyMissed'
  BY <1>1, <1>2, <1>3, <1>4, QueueByQueue, QueueMembers DEF TypeOK, AskersKept, HearersKept, ListenersKept, AnswersKept, NobodyMissed, SendReply, PopAndWait
<1> QED BY <1>5, <1>6, <1>7, <1>8, <1>9, <1>10, <1>11, <1>12, <1>13, QueueByQueueNext DEF Everyone

LEMMA QueueReplyKeeps ==
  ASSUME Everyone, NEW r \in Replies, QueueReply(r), UNCHANGED orderly
  PROVE  Everyone'
<1>1. r \notin ToSet(answers)
  BY QueueByQueue DEF QueueReply, AnswersKept
<1>2. answers' \in Seq(Replies) /\ IsInjective(answers') /\ ToSet(answers') = ToSet(answers) \cup {r}
  BY <1>1, QueueAppend, QueueByQueue DEF QueueReply, TypeOK, AnswersKept
<1>3. TypeOK'
  BY <1>2 DEF TypeOK, QueueReply
<1>4. BeforeWaiting'
  BY <1>2 DEF TypeOK, BeforeWaiting, InquiresForWaiting, QueueReply
<1>5. InquiresForWaiting'
  BY <1>2 DEF TypeOK, BeforeWaiting, InquiresForWaiting, PendingIsLive, Live, QueueReply
<1>6. PendingIsLive'
  BY <1>2 DEF TypeOK, BeforeWaiting, InquiresForWaiting, PendingIsLive, Live, QueueReply
<1>7. AskersKept'
  BY <1>2, QueueByQueue DEF TypeOK, InquiresForWaiting, BeforeWaiting, AskersKept, QueueReply
<1>8. HearersKept'
  BY <1>2, QueueByQueue DEF TypeOK, InquiresForWaiting, BeforeWaiting, HearersKept, AskersKept, QueueReply
<1>9. ListenersKept'
  BY <1>2, QueueByQueue DEF TypeOK, BeforeWaiting, ListenersKept, QueueReply
<1>10. AnswersKept'
  BY <1>2, QueueByQueue DEF TypeOK, BeforeWaiting, InquiresForWaiting, AnswersKept, QueueReply
<1>11. NobodyMissed'
  BY <1>2, QueueByQueue, QueueMembers DEF TypeOK, AskersKept, HearersKept, ListenersKept, AnswersKept, NobodyMissed, QueueReply
<1> QED BY <1>3, <1>4, <1>5, <1>6, <1>7, <1>8, <1>9, <1>10, <1>11, QueueByQueueNext DEF Everyone

LEMMA ReplyExpiresKeeps ==
  ASSUME Everyone, NEW r \in Replies, ReplyExpires(r), UNCHANGED orderly
  PROVE  Everyone'
<1>1. TypeOK'
  BY DEF TypeOK, ReplyExpires
<1>2. BeforeWaiting'
  BY DEF TypeOK, BeforeWaiting, InquiresForWaiting, ReplyExpires
<1>3. InquiresForWaiting'
  BY DEF TypeOK, BeforeWaiting, InquiresForWaiting, PendingIsLive, Live, ReplyExpires
<1>4. PendingIsLive'
  BY DEF TypeOK, BeforeWaiting, InquiresForWaiting, PendingIsLive, Live, ReplyExpires
<1>5. AskersKept'
  BY QueueByQueue DEF TypeOK, InquiresForWaiting, BeforeWaiting, AskersKept, ReplyExpires
<1>6. HearersKept'
  BY QueueByQueue DEF TypeOK, InquiresForWaiting, BeforeWaiting, HearersKept, AskersKept, ReplyExpires
<1>7. ListenersKept'
  BY QueueByQueue DEF TypeOK, BeforeWaiting, ListenersKept, ReplyExpires
<1>8. AnswersKept'
  BY QueueByQueue DEF TypeOK, BeforeWaiting, InquiresForWaiting, AnswersKept, ReplyExpires
<1>9. NobodyMissed'
  BY QueueByQueue, QueueMembers DEF TypeOK, AskersKept, HearersKept, ListenersKept, AnswersKept, NobodyMissed, ReplyExpires
<1> QED BY <1>1, <1>2, <1>3, <1>4, <1>5, <1>6, <1>7, <1>8, <1>9, QueueByQueueNext DEF Everyone

LEMMA ReplyRefusedKeeps ==
  ASSUME Everyone, NEW r \in Replies, ReplyRefused(r), UNCHANGED orderly
  PROVE  Everyone'
<1>1. answers' \in Seq(Replies) /\ IsInjective(answers') /\ ToSet(answers') = ToSet(answers) \ {r}
  BY QueueWithout, QueueByQueue DEF ReplyRefused, TypeOK, AnswersKept
<1>2. TypeOK'
  BY <1>1 DEF TypeOK, ReplyRefused
<1>3. BeforeWaiting'
  BY <1>1 DEF TypeOK, BeforeWaiting, InquiresForWaiting, ReplyRefused
<1>4. InquiresForWaiting'
  BY <1>1 DEF TypeOK, BeforeWaiting, InquiresForWaiting, PendingIsLive, Live, ReplyRefused
<1>5. PendingIsLive'
  BY <1>1 DEF TypeOK, BeforeWaiting, InquiresForWaiting, PendingIsLive, Live, ReplyRefused
<1>6. AskersKept'
  BY <1>1, QueueByQueue DEF TypeOK, InquiresForWaiting, BeforeWaiting, AskersKept, ReplyRefused
<1>7. HearersKept'
  BY <1>1, QueueByQueue DEF TypeOK, InquiresForWaiting, BeforeWaiting, HearersKept, AskersKept, ReplyRefused
<1>8. ListenersKept'
  BY <1>1, QueueByQueue DEF TypeOK, BeforeWaiting, ListenersKept, ReplyRefused
<1>9. AnswersKept'
  BY <1>1, QueueByQueue DEF TypeOK, BeforeWaiting, InquiresForWaiting, AnswersKept, ReplyRefused
<1>10. NobodyMissed'
  BY <1>1, QueueByQueue, QueueMembers DEF TypeOK, AskersKept, HearersKept, ListenersKept, AnswersKept, NobodyMissed, ReplyRefused
<1> QED BY <1>2, <1>3, <1>4, <1>5, <1>6, <1>7, <1>8, <1>9, <1>10, QueueByQueueNext DEF Everyone

LEMMA InquireTakesKeeps ==
  ASSUME Everyone, NEW r \in Requests, InquireTakes(r), UNCHANGED orderly
  PROVE  Everyone'
<1>1. askers # <<>> /\ Head(askers) \in ToSet(askers) /\ Head(askers) \in Queries
  BY QueueMembers DEF InquireTakes, TypeOK
<1>2. askers' \in Seq(Queries) /\ IsInjective(askers')
      /\ ToSet(askers') = ToSet(askers) \ {Head(askers)}
  BY <1>1, QueueTail, QueueByQueue DEF InquireTakes, TypeOK, AskersKept
<1>3. op[Head(askers)] = "asking"
  BY <1>1, QueueByQueue DEF AskersKept
<1>4. TypeOK'
  BY <1>1, <1>2, <1>3 DEF TypeOK, InquireTakes
<1>5. BeforeWaiting'
  BY <1>1, <1>2, <1>3 DEF TypeOK, BeforeWaiting, InquiresForWaiting, InquireTakes
<1>6. InquiresForWaiting'
  BY <1>1, <1>2, <1>3 DEF TypeOK, BeforeWaiting, InquiresForWaiting, PendingIsLive, Live, InquireTakes
<1>7. PendingIsLive'
  BY <1>1, <1>2, <1>3 DEF TypeOK, BeforeWaiting, InquiresForWaiting, PendingIsLive, Live, InquireTakes
<1>8. AskersKept'
  BY <1>1, <1>2, <1>3, QueueByQueue DEF TypeOK, InquiresForWaiting, BeforeWaiting, AskersKept, InquireTakes
<1>9. HearersKept'
  BY <1>1, <1>2, <1>3, QueueByQueue DEF TypeOK, InquiresForWaiting, BeforeWaiting, HearersKept, AskersKept, InquireTakes
<1>10. ListenersKept'
  BY <1>1, <1>2, <1>3, QueueByQueue DEF TypeOK, BeforeWaiting, ListenersKept, InquireTakes
<1>11. AnswersKept'
  BY <1>1, <1>2, <1>3, QueueByQueue DEF TypeOK, BeforeWaiting, InquiresForWaiting, AnswersKept, InquireTakes
<1>12. NobodyMissed'
  BY <1>1, <1>2, <1>3, QueueByQueue, QueueMembers DEF TypeOK, AskersKept, HearersKept, ListenersKept, AnswersKept, NobodyMissed, InquireTakes
<1> QED BY <1>4, <1>5, <1>6, <1>7, <1>8, <1>9, <1>10, <1>11, <1>12, QueueByQueueNext DEF Everyone

LEMMA InquireListensKeeps ==
  ASSUME Everyone, NEW r \in Requests, InquireListens(r), UNCHANGED orderly
  PROVE  Everyone'
<1>1. r \notin ToSet(listeners)
  BY QueueByQueue DEF InquireListens, ListenersKept
<1>2. listeners' \in Seq(Requests) /\ IsInjective(listeners')
      /\ ToSet(listeners') = ToSet(listeners) \cup {r}
  BY <1>1, QueueAppend, QueueByQueue DEF InquireListens, TypeOK, ListenersKept
<1>3. TypeOK'
  BY <1>2 DEF TypeOK, InquireListens
<1>4. BeforeWaiting'
  BY <1>2 DEF TypeOK, BeforeWaiting, InquiresForWaiting, InquireListens
<1>5. InquiresForWaiting'
  BY <1>2 DEF TypeOK, BeforeWaiting, InquiresForWaiting, PendingIsLive, Live, InquireListens
<1>6. PendingIsLive'
  BY <1>2 DEF TypeOK, BeforeWaiting, InquiresForWaiting, PendingIsLive, Live, InquireListens
<1>7. AskersKept'
  BY <1>2, QueueByQueue DEF TypeOK, InquiresForWaiting, BeforeWaiting, AskersKept, InquireListens
<1>8. HearersKept'
  BY <1>2, QueueByQueue DEF TypeOK, InquiresForWaiting, BeforeWaiting, HearersKept, AskersKept, InquireListens
<1>9. ListenersKept'
  BY <1>2, QueueByQueue DEF TypeOK, BeforeWaiting, ListenersKept, InquireListens
<1>10. AnswersKept'
  BY <1>2, QueueByQueue DEF TypeOK, BeforeWaiting, InquiresForWaiting, AnswersKept, InquireListens
<1>11. NobodyMissed'
  BY <1>2, QueueByQueue, QueueMembers DEF TypeOK, AskersKept, HearersKept, ListenersKept, AnswersKept, NobodyMissed, InquireListens
<1> QED BY <1>3, <1>4, <1>5, <1>6, <1>7, <1>8, <1>9, <1>10, <1>11, QueueByQueueNext DEF Everyone

LEMMA InquireReturnsKeeps ==
  ASSUME Everyone, NEW r \in Requests, InquireReturns(r), UNCHANGED orderly
  PROVE  Everyone'
<1>1. TypeOK'
  BY DEF TypeOK, InquireReturns
<1>2. BeforeWaiting'
  BY DEF TypeOK, BeforeWaiting, InquiresForWaiting, InquireReturns
<1>3. InquiresForWaiting'
  BY DEF TypeOK, BeforeWaiting, InquiresForWaiting, PendingIsLive, Live, InquireReturns
<1>4. PendingIsLive'
  BY DEF TypeOK, BeforeWaiting, InquiresForWaiting, PendingIsLive, Live, InquireReturns
<1>5. AskersKept'
  BY QueueByQueue DEF TypeOK, InquiresForWaiting, BeforeWaiting, AskersKept, InquireReturns
<1>6. HearersKept'
  BY QueueByQueue DEF TypeOK, InquiresForWaiting, BeforeWaiting, HearersKept, AskersKept, InquireReturns
<1>7. ListenersKept'
  BY QueueByQueue DEF TypeOK, BeforeWaiting, ListenersKept, InquireReturns
<1>8. AnswersKept'
  BY QueueByQueue DEF TypeOK, BeforeWaiting, InquiresForWaiting, AnswersKept, InquireReturns
<1>9. NobodyMissed'
  BY QueueByQueue, QueueMembers DEF TypeOK, AskersKept, HearersKept, ListenersKept, AnswersKept, NobodyMissed, InquireReturns
<1> QED BY <1>1, <1>2, <1>3, <1>4, <1>5, <1>6, <1>7, <1>8, <1>9, QueueByQueueNext DEF Everyone

LEMMA AskQueuedKeeps ==
  ASSUME Everyone, NEW o \in Queries, Ask(o), listeners = <<>>, UNCHANGED orderly
  PROVE  Everyone'
<1>1. op[o] = "running" /\ asks' \in [Queries -> 0..MaxAsks]
  <2>1. asks[o] \in 0..MaxAsks /\ asks[o] < MaxAsks /\ asks' = [asks EXCEPT ![o] = asks[o] + 1]
    BY DEF Ask, TypeOK
  <2>2. asks[o] + 1 \in 0..MaxAsks
    BY <2>1
  <2> QED BY <2>1, <2>2 DEF Ask, TypeOK
<1>2. /\ op' = [op EXCEPT ![o] = "asking"] /\ askers' = Append(askers, o)
      /\ UNCHANGED <<inquire, question, listeners, pending, req, target, early, answers, hearers>>
  BY DEF Ask
<1>3. o \notin ToSet(askers)
  BY <1>1, QueueByQueue DEF AskersKept
<1>4. askers' \in Seq(Queries) /\ IsInjective(askers') /\ ToSet(askers') = ToSet(askers) \cup {o}
  BY <1>2, <1>3, QueueAppend, QueueByQueue DEF TypeOK, AskersKept
<1>5. TypeOK'
  BY <1>1, <1>2, <1>4 DEF TypeOK
<1>6. BeforeWaiting'
  BY <1>1, <1>2, <1>4 DEF TypeOK, BeforeWaiting, InquiresForWaiting
<1>7. InquiresForWaiting'
  BY <1>1, <1>2, <1>4 DEF TypeOK, BeforeWaiting, InquiresForWaiting, PendingIsLive, Live
<1>8. PendingIsLive'
  BY <1>1, <1>2, <1>4 DEF TypeOK, BeforeWaiting, InquiresForWaiting, PendingIsLive, Live
<1>9. AskersKept'
  BY <1>1, <1>2, <1>4, QueueByQueue DEF TypeOK, InquiresForWaiting, BeforeWaiting, AskersKept
<1>10. HearersKept'
  BY <1>1, <1>2, <1>4, QueueByQueue DEF TypeOK, InquiresForWaiting, BeforeWaiting, HearersKept, AskersKept
<1>11. ListenersKept'
  BY <1>1, <1>2, <1>4, QueueByQueue DEF TypeOK, BeforeWaiting, ListenersKept
<1>12. AnswersKept'
  BY <1>1, <1>2, <1>4, QueueByQueue DEF TypeOK, BeforeWaiting, InquiresForWaiting, AnswersKept
<1>13. NobodyMissed'
  BY <1>1, <1>2, <1>4, QueueByQueue, QueueMembers DEF TypeOK, AskersKept, HearersKept, ListenersKept, AnswersKept, NobodyMissed
<1> QED BY <1>5, <1>6, <1>7, <1>8, <1>9, <1>10, <1>11, <1>12, <1>13, QueueByQueueNext DEF Everyone

LEMMA AskHeardKeeps ==
  ASSUME Everyone, NEW o \in Queries, Ask(o), listeners # <<>>, UNCHANGED orderly
  PROVE  Everyone'
<1>1. op[o] = "running" /\ asks' \in [Queries -> 0..MaxAsks]
  <2>1. asks[o] \in 0..MaxAsks /\ asks[o] < MaxAsks /\ asks' = [asks EXCEPT ![o] = asks[o] + 1]
    BY DEF Ask, TypeOK
  <2>2. asks[o] + 1 \in 0..MaxAsks
    BY <2>1
  <2> QED BY <2>1, <2>2 DEF Ask, TypeOK
<1> DEFINE l == Head(listeners)
<1>2. /\ op' = [op EXCEPT ![o] = "asked"] /\ inquire' = [inquire EXCEPT ![l] = "delivered"]
      /\ question' = [question EXCEPT ![l] = o] /\ listeners' = Tail(listeners)
      /\ UNCHANGED <<askers, pending, req, target, early, answers, hearers>>
  BY DEF Ask
<1>3. l \in ToSet(listeners) /\ l \in Requests
  BY QueueMembers DEF TypeOK
<1>4. /\ listeners' \in Seq(Requests) /\ IsInjective(listeners')
      /\ ToSet(listeners') = ToSet(listeners) \ {l}
  BY <1>2, <1>3, QueueTail, QueueByQueue DEF TypeOK, ListenersKept
<1>5. inquire[l] = "listening"
  BY <1>3, QueueByQueue DEF ListenersKept
<1> HIDE DEF l
<1>6. TypeOK'
  BY <1>1, <1>2, <1>3, <1>4, <1>5 DEF TypeOK
<1>7. BeforeWaiting'
  BY <1>1, <1>2, <1>3, <1>4, <1>5 DEF TypeOK, BeforeWaiting, InquiresForWaiting
<1>8. InquiresForWaiting'
  BY <1>1, <1>2, <1>3, <1>4, <1>5 DEF TypeOK, BeforeWaiting, InquiresForWaiting, PendingIsLive, Live
<1>9. PendingIsLive'
  BY <1>1, <1>2, <1>3, <1>4, <1>5 DEF TypeOK, BeforeWaiting, InquiresForWaiting, PendingIsLive, Live
<1>10. AskersKept'
  BY <1>1, <1>2, <1>3, <1>4, <1>5, QueueByQueue DEF TypeOK, InquiresForWaiting, BeforeWaiting, AskersKept
<1>11. HearersKept'
  BY <1>1, <1>2, <1>3, <1>4, <1>5, QueueByQueue DEF TypeOK, InquiresForWaiting, BeforeWaiting, HearersKept, AskersKept
<1>12. ListenersKept'
  BY <1>1, <1>2, <1>3, <1>4, <1>5, QueueByQueue DEF TypeOK, BeforeWaiting, ListenersKept
<1>13. AnswersKept'
  BY <1>1, <1>2, <1>3, <1>4, <1>5, QueueByQueue DEF TypeOK, BeforeWaiting, InquiresForWaiting, AnswersKept
<1>14. NobodyMissed'
  BY <1>1, <1>2, <1>3, <1>4, <1>5, QueueByQueue, QueueMembers DEF TypeOK, AskersKept, HearersKept, ListenersKept, AnswersKept, NobodyMissed
<1> QED BY <1>6, <1>7, <1>8, <1>9, <1>10, <1>11, <1>12, <1>13, <1>14, QueueByQueueNext DEF Everyone

LEMMA HearQueuedKeeps ==
  ASSUME Everyone, NEW o \in Queries, HearQueued(o), UNCHANGED orderly
  PROVE  Everyone'
<1> DEFINE r == Head(answers)
<1>1. r \in ToSet(answers) /\ r \in Replies
  BY QueueMembers DEF HearQueued, TypeOK
<1>2. answers' \in Seq(Replies) /\ IsInjective(answers') /\ ToSet(answers') = ToSet(answers) \ {r}
  BY QueueTail, QueueByQueue DEF HearQueued, TypeOK, AnswersKept
<1>3. hearers = <<>> /\ hearers' = <<>>
  BY QueueByQueue DEF HearQueued, NobodyMissed
<1>4. /\ op[o] = "asked" /\ op' = [op EXCEPT ![o] = "running"]
      /\ UNCHANGED <<asks, question, early, askers, listeners, hearers>>
  BY DEF HearQueued
<1>5. req[r] = "sending" => \E p \in pending : PopAndWait(r, p)
  BY DEF HearQueued
<1>6. req[r] # "sending" => UNCHANGED <<pending, req, target, inquire>>
  BY DEF HearQueued
<1> HIDE DEF r
<1>7. CASE req[r] = "sending"
  <2>1. PICK p \in pending : PopAndWait(r, p)
    BY <1>5, <1>7
  <2>2. TypeOK'
    BY <1>1, <1>2, <1>3, <1>4, <1>7, <2>1 DEF TypeOK, PopAndWait
  <2>3. BeforeWaiting'
    BY <1>1, <1>2, <1>3, <1>4, <1>7, <2>1 DEF TypeOK, BeforeWaiting, InquiresForWaiting, PopAndWait
  <2>4. InquiresForWaiting'
    BY <1>1, <1>2, <1>3, <1>4, <1>7, <2>1 DEF TypeOK, BeforeWaiting, InquiresForWaiting, PendingIsLive, Live, PopAndWait
  <2>5. PendingIsLive'
    BY <1>1, <1>2, <1>3, <1>4, <1>7, <2>1 DEF TypeOK, BeforeWaiting, InquiresForWaiting, PendingIsLive, Live, PopAndWait
  <2>6. AskersKept'
    BY <1>1, <1>2, <1>3, <1>4, <1>7, <2>1, QueueByQueue DEF TypeOK, InquiresForWaiting, BeforeWaiting, AskersKept, PopAndWait
  <2>7. HearersKept'
    BY <1>1, <1>2, <1>3, <1>4, <1>7, <2>1, QueueByQueue DEF TypeOK, InquiresForWaiting, BeforeWaiting, HearersKept, AskersKept, PopAndWait
  <2>8. ListenersKept'
    BY <1>1, <1>2, <1>3, <1>4, <1>7, <2>1, QueueByQueue DEF TypeOK, BeforeWaiting, ListenersKept, PopAndWait
  <2>9. AnswersKept'
    BY <1>1, <1>2, <1>3, <1>4, <1>7, <2>1, QueueByQueue DEF TypeOK, BeforeWaiting, InquiresForWaiting, AnswersKept, PopAndWait
  <2>10. NobodyMissed'
    BY <1>1, <1>2, <1>3, <1>4, <1>7, <2>1, QueueByQueue, QueueMembers DEF TypeOK, AskersKept, HearersKept, ListenersKept, AnswersKept, NobodyMissed, PopAndWait
  <2> QED BY <2>2, <2>3, <2>4, <2>5, <2>6, <2>7, <2>8, <2>9, <2>10, QueueByQueueNext DEF Everyone
<1>8. CASE req[r] # "sending"
  <2>1. TypeOK'
    BY <1>1, <1>2, <1>3, <1>4, <1>6, <1>8 DEF TypeOK
  <2>2. BeforeWaiting'
    BY <1>1, <1>2, <1>3, <1>4, <1>6, <1>8 DEF TypeOK, BeforeWaiting, InquiresForWaiting
  <2>3. InquiresForWaiting'
    BY <1>1, <1>2, <1>3, <1>4, <1>6, <1>8 DEF TypeOK, BeforeWaiting, InquiresForWaiting, PendingIsLive, Live
  <2>4. PendingIsLive'
    BY <1>1, <1>2, <1>3, <1>4, <1>6, <1>8 DEF TypeOK, BeforeWaiting, InquiresForWaiting, PendingIsLive, Live
  <2>5. AskersKept'
    BY <1>1, <1>2, <1>3, <1>4, <1>6, <1>8, QueueByQueue DEF TypeOK, InquiresForWaiting, BeforeWaiting, AskersKept
  <2>6. HearersKept'
    BY <1>1, <1>2, <1>3, <1>4, <1>6, <1>8, QueueByQueue DEF TypeOK, InquiresForWaiting, BeforeWaiting, HearersKept, AskersKept
  <2>7. ListenersKept'
    BY <1>1, <1>2, <1>3, <1>4, <1>6, <1>8, QueueByQueue DEF TypeOK, BeforeWaiting, ListenersKept
  <2>8. AnswersKept'
    BY <1>1, <1>2, <1>3, <1>4, <1>6, <1>8, QueueByQueue DEF TypeOK, BeforeWaiting, InquiresForWaiting, AnswersKept
  <2>9. NobodyMissed'
    BY <1>1, <1>2, <1>3, <1>4, <1>6, <1>8, QueueByQueue, QueueMembers DEF TypeOK, AskersKept, HearersKept, ListenersKept, AnswersKept, NobodyMissed
  <2> QED BY <2>1, <2>2, <2>3, <2>4, <2>5, <2>6, <2>7, <2>8, <2>9, QueueByQueueNext DEF Everyone
<1> QED BY <1>7, <1>8

LEMMA HearKeeps ==
  ASSUME Everyone, NEW o \in Queries, Hear(o), UNCHANGED orderly
  PROVE  Everyone'
<1>1. o \notin ToSet(hearers)
  BY QueueByQueue DEF Hear, HearersKept
<1>2. hearers' \in Seq(Queries) /\ IsInjective(hearers') /\ ToSet(hearers') = ToSet(hearers) \cup {o}
  BY <1>1, QueueAppend, QueueByQueue DEF Hear, TypeOK, HearersKept
<1>3. TypeOK'
  BY <1>2 DEF TypeOK, Hear
<1>4. BeforeWaiting'
  BY <1>2 DEF TypeOK, BeforeWaiting, InquiresForWaiting, Hear
<1>5. InquiresForWaiting'
  BY <1>2 DEF TypeOK, BeforeWaiting, InquiresForWaiting, PendingIsLive, Live, Hear
<1>6. PendingIsLive'
  BY <1>2 DEF TypeOK, BeforeWaiting, InquiresForWaiting, PendingIsLive, Live, Hear
<1>7. AskersKept'
  BY <1>2, QueueByQueue DEF TypeOK, InquiresForWaiting, BeforeWaiting, AskersKept, Hear
<1>8. HearersKept'
  BY <1>2, QueueByQueue DEF TypeOK, InquiresForWaiting, BeforeWaiting, HearersKept, AskersKept, Hear
<1>9. ListenersKept'
  BY <1>2, QueueByQueue DEF TypeOK, BeforeWaiting, ListenersKept, Hear
<1>10. AnswersKept'
  BY <1>2, QueueByQueue DEF TypeOK, BeforeWaiting, InquiresForWaiting, AnswersKept, Hear
<1>11. NobodyMissed'
  BY <1>2, QueueByQueue, QueueMembers DEF TypeOK, AskersKept, HearersKept, ListenersKept, AnswersKept, NobodyMissed, Hear
<1> QED BY <1>3, <1>4, <1>5, <1>6, <1>7, <1>8, <1>9, <1>10, <1>11, QueueByQueueNext DEF Everyone

LEMMA FinishKeeps ==
  ASSUME Everyone, NEW o \in Queries, Finish(o), UNCHANGED orderly
  PROVE  Everyone'
<1>1. TypeOK'
  BY DEF TypeOK, Finish
<1>2. BeforeWaiting'
  BY DEF TypeOK, BeforeWaiting, InquiresForWaiting, Finish
<1>3. InquiresForWaiting'
  BY DEF TypeOK, BeforeWaiting, InquiresForWaiting, PendingIsLive, Live, Finish
<1>4. PendingIsLive'
  BY DEF TypeOK, BeforeWaiting, InquiresForWaiting, PendingIsLive, Live, Finish
<1>5. AskersKept'
  BY QueueByQueue DEF TypeOK, InquiresForWaiting, BeforeWaiting, AskersKept, Finish
<1>6. HearersKept'
  BY QueueByQueue DEF TypeOK, InquiresForWaiting, BeforeWaiting, HearersKept, AskersKept, Finish
<1>7. ListenersKept'
  BY QueueByQueue DEF TypeOK, BeforeWaiting, ListenersKept, Finish
<1>8. AnswersKept'
  BY QueueByQueue DEF TypeOK, BeforeWaiting, InquiresForWaiting, AnswersKept, Finish
<1>9. NobodyMissed'
  BY QueueByQueue, QueueMembers DEF TypeOK, AskersKept, HearersKept, ListenersKept, AnswersKept, NobodyMissed, Finish
<1> QED BY <1>1, <1>2, <1>3, <1>4, <1>5, <1>6, <1>7, <1>8, <1>9, QueueByQueueNext DEF Everyone

LEMMA DoneCallbackKeeps ==
  ASSUME Everyone, NEW o \in Queries, DoneCallback(o), UNCHANGED orderly
  PROVE  Everyone'
<1>1. TypeOK'
  BY DEF TypeOK, DoneCallback
<1>2. BeforeWaiting'
  BY DEF TypeOK, BeforeWaiting, InquiresForWaiting, DoneCallback
<1>3. InquiresForWaiting'
  BY DEF TypeOK, BeforeWaiting, InquiresForWaiting, PendingIsLive, Live, DoneCallback
<1>4. PendingIsLive'
  BY DEF TypeOK, BeforeWaiting, InquiresForWaiting, PendingIsLive, Live, DoneCallback
<1>5. AskersKept'
  BY QueueByQueue DEF TypeOK, InquiresForWaiting, BeforeWaiting, AskersKept, DoneCallback
<1>6. HearersKept'
  BY QueueByQueue DEF TypeOK, InquiresForWaiting, BeforeWaiting, HearersKept, AskersKept, DoneCallback
<1>7. ListenersKept'
  BY QueueByQueue DEF TypeOK, BeforeWaiting, ListenersKept, DoneCallback
<1>8. AnswersKept'
  BY QueueByQueue DEF TypeOK, BeforeWaiting, InquiresForWaiting, AnswersKept, DoneCallback
<1>9. NobodyMissed'
  BY QueueByQueue, QueueMembers DEF TypeOK, AskersKept, HearersKept, ListenersKept, AnswersKept, NobodyMissed, DoneCallback
<1> QED BY <1>1, <1>2, <1>3, <1>4, <1>5, <1>6, <1>7, <1>8, <1>9, QueueByQueueNext DEF Everyone

LEMMA RespondKeeps ==
  ASSUME Everyone, NEW r \in Requests, Respond(r), UNCHANGED orderly
  PROVE  Everyone'
<1>1. listeners' \in Seq(Requests) /\ IsInjective(listeners')
      /\ ToSet(listeners') = ToSet(listeners) \ {r}
  BY QueueWithout, QueueByQueue DEF Respond, TypeOK, ListenersKept
<1>2. TypeOK'
  BY <1>1 DEF TypeOK, Respond
<1>3. BeforeWaiting'
  BY <1>1 DEF TypeOK, BeforeWaiting, InquiresForWaiting, Respond
<1>4. InquiresForWaiting'
  BY <1>1 DEF TypeOK, BeforeWaiting, InquiresForWaiting, PendingIsLive, Live, Respond
<1>5. PendingIsLive'
  BY <1>1 DEF TypeOK, BeforeWaiting, InquiresForWaiting, PendingIsLive, Live, Respond
<1>6. AskersKept'
  BY <1>1, QueueByQueue DEF TypeOK, InquiresForWaiting, BeforeWaiting, AskersKept, Respond
<1>7. HearersKept'
  BY <1>1, QueueByQueue DEF TypeOK, InquiresForWaiting, BeforeWaiting, HearersKept, AskersKept, Respond
<1>8. ListenersKept'
  BY <1>1, QueueByQueue DEF TypeOK, BeforeWaiting, ListenersKept, Respond
<1>9. AnswersKept'
  BY <1>1, QueueByQueue DEF TypeOK, BeforeWaiting, InquiresForWaiting, AnswersKept, Respond
<1>10. NobodyMissed'
  BY <1>1, QueueByQueue, QueueMembers DEF TypeOK, AskersKept, HearersKept, ListenersKept, AnswersKept, NobodyMissed, Respond
<1> QED BY <1>2, <1>3, <1>4, <1>5, <1>6, <1>7, <1>8, <1>9, <1>10, QueueByQueueNext DEF Everyone

LEMMA QuestionKeeps ==
  ASSUME Everyone, NEW r \in Requests, Question(r) \/ BothDone(r), UNCHANGED orderly
  PROVE  Everyone'
<1>1. TypeOK'
  BY DEF TypeOK, Question, BothDone
<1>2. BeforeWaiting'
  BY DEF TypeOK, BeforeWaiting, InquiresForWaiting, Question, BothDone
<1>3. InquiresForWaiting'
  BY DEF TypeOK, BeforeWaiting, InquiresForWaiting, PendingIsLive, Live, Question, BothDone
<1>4. PendingIsLive'
  BY DEF TypeOK, BeforeWaiting, InquiresForWaiting, PendingIsLive, Live, Question, BothDone
<1>5. AskersKept'
  BY QueueByQueue DEF TypeOK, InquiresForWaiting, BeforeWaiting, AskersKept, Question, BothDone
<1>6. HearersKept'
  BY QueueByQueue DEF TypeOK, InquiresForWaiting, BeforeWaiting, HearersKept, AskersKept, Question, BothDone
<1>7. ListenersKept'
  BY QueueByQueue DEF TypeOK, BeforeWaiting, ListenersKept, Question, BothDone
<1>8. AnswersKept'
  BY QueueByQueue DEF TypeOK, BeforeWaiting, InquiresForWaiting, AnswersKept, Question, BothDone
<1>9. NobodyMissed'
  BY QueueByQueue, QueueMembers DEF TypeOK, AskersKept, HearersKept, ListenersKept, AnswersKept, NobodyMissed, Question, BothDone
<1> QED BY <1>1, <1>2, <1>3, <1>4, <1>5, <1>6, <1>7, <1>8, <1>9, QueueByQueueNext DEF Everyone

LEMMA TimeoutKeeps ==
  ASSUME Everyone, NEW r \in Requests, Timeout(r), UNCHANGED orderly
  PROVE  Everyone'
<1> DEFINE o == target[r]
<1>1. o \in Queries /\ op[o] # "none" /\ req[o] # "idle"
  BY DEF Timeout, InquiresForWaiting, BeforeWaiting
<1>2. listeners' \in Seq(Requests) /\ IsInjective(listeners')
      /\ ToSet(listeners') = ToSet(listeners) \ {r}
  BY QueueWithout, QueueByQueue DEF Timeout, TypeOK, ListenersKept
<1>3. askers' \in Seq(Queries) /\ IsInjective(askers') /\ ToSet(askers') = ToSet(askers) \ {o}
  BY QueueWithout, QueueByQueue DEF Timeout, TypeOK, AskersKept
<1>4. hearers' \in Seq(Queries) /\ IsInjective(hearers') /\ ToSet(hearers') = ToSet(hearers) \ {o}
  BY QueueWithout, QueueByQueue DEF Timeout, TypeOK, HearersKept
<1>5. /\ askers = <<>> => askers' = <<>>
      /\ listeners = <<>> => listeners' = <<>>
      /\ hearers = <<>> => hearers' = <<>>
  <2>1. ToSet(askers') \subseteq ToSet(askers) /\ ToSet(listeners') \subseteq ToSet(listeners)
        /\ ToSet(hearers') \subseteq ToSet(hearers)
    BY <1>2, <1>3, <1>4
  <2>2. askers \in Seq(Queries) /\ hearers \in Seq(Queries) /\ listeners \in Seq(Requests)
    BY DEF TypeOK
  <2> QED BY <1>2, <1>3, <1>4, <2>1, <2>2, QueueMembers
<1>6. TypeOK'
  BY <1>1, <1>2, <1>3, <1>4, <1>5 DEF TypeOK, Timeout, OpDone
<1>7. BeforeWaiting'
  BY <1>1 DEF TypeOK, BeforeWaiting, Timeout
<1>8. InquiresForWaiting'
  BY <1>1, <1>2, <1>3, <1>4, <1>5 DEF TypeOK, BeforeWaiting, InquiresForWaiting, PendingIsLive, Live, Timeout, OpDone
<1>9. PendingIsLive'
  BY <1>1, <1>2, <1>3, <1>4, <1>5 DEF TypeOK, BeforeWaiting, InquiresForWaiting, PendingIsLive, Live, Timeout, OpDone
<1>10. AskersKept'
  BY <1>1, <1>2, <1>3, <1>4, <1>5, QueueByQueue DEF TypeOK, InquiresForWaiting, BeforeWaiting, AskersKept, Timeout, OpDone
<1>11. HearersKept'
  BY <1>1, <1>2, <1>3, <1>4, <1>5, QueueByQueue DEF TypeOK, InquiresForWaiting, BeforeWaiting, HearersKept, AskersKept, Timeout, OpDone
<1>12. ListenersKept'
  BY <1>1, <1>2, <1>3, <1>4, <1>5, QueueByQueue DEF TypeOK, BeforeWaiting, ListenersKept, Timeout, OpDone
<1>13. AnswersKept'
  BY <1>1, <1>2, <1>3, <1>4, <1>5, QueueByQueue DEF TypeOK, BeforeWaiting, InquiresForWaiting, AnswersKept, Timeout, OpDone
<1>14. NobodyMissed'
  BY <1>1, <1>2, <1>3, <1>4, <1>5, QueueByQueue, QueueMembers DEF TypeOK, AskersKept, HearersKept, ListenersKept, AnswersKept, NobodyMissed, Timeout, OpDone
<1> QED BY <1>6, <1>7, <1>8, <1>9, <1>10, <1>11, <1>12, <1>13, <1>14, QueueByQueueNext DEF Everyone

-----------------------------------------------------------------------------
(* What holds of a client that talks in turn, one lemma per action          *)
USE DEF Live, OneAtATime, Under, OneConversation, AsksAndStays, AnswerHeard, NeverExpires,
        OrderlyNeverRefused, OrderlyQuestions

(* An operative at work is waited for, and its request has no question.     *)
LEMMA WorkIsAwaited ==
  ASSUME Everyone, InTurn, orderly, NEW o \in Queries, op[o] \in {"running", "asking", "finished"}
  PROVE  /\ \E r \in Requests : req[r] = "waiting" /\ target[r] = o
                                /\ inquire[r] \notin {"delivered", "received"}
         /\ \A r \in Requests : req[r] = "waiting" => target[r] = o
                                                      /\ inquire[r] \notin {"delivered", "received"}
         /\ \A r \in Replies : req[r] # "sending"
         /\ \A p \in Queries : op[p] # "asked"
         /\ Live = {o}
<1>1. o \in Live
  OBVIOUS
<1>2. PICK r \in Requests : req[r] = "waiting"
  BY <1>1 DEF InTurn
<1>3. \A s \in Requests : req[s] = "waiting" => target[s] = o
  BY <1>1 DEF InTurn
<1>4. \A s \in Requests : req[s] = "waiting" => inquire[s] \notin {"delivered", "received"}
  BY <1>3 DEF InTurn
<1>5. \A p \in Queries : p \in Live => p = o
  BY <1>1 DEF InTurn
<1>6. \A s \in Replies : req[s] # "sending"
  <2> SUFFICES ASSUME NEW s \in Replies, req[s] = "sending" PROVE FALSE
    OBVIOUS
  <2>1. r \in Under /\ s \in Under
    BY <1>2
  <2>2. r = s
    BY <2>1 DEF InTurn
  <2> QED BY <1>2, <2>2
<1> QED BY <1>1, <1>2, <1>3, <1>4, <1>5, <1>6

(* The only request under way ...                                           *)
LEMMA OnlyRequest ==
  ASSUME InTurn, orderly, NEW r \in Under, NEW s \in Requests, s # r
  PROVE  req[s] \notin {"sending", "expiring", "waiting"}
BY DEF InTurn

(* ... and the only operative.                                              *)
LEMMA OnlyOperative ==
  ASSUME InTurn, orderly, NEW o \in Live, NEW p \in Queries, p # o
  PROVE  op[p] \in {"none", "done", "cancelled"}
BY DEF InTurn

LEMMA StartQueryInTurn ==
  ASSUME Everyone, InTurn, orderly, NEW q \in Queries, StartQuery(q), Quiet, Live = {}, UNCHANGED orderly
  PROVE  InTurn'
<1>1. \A r \in Requests : r # q => req'[r] \notin {"sending", "expiring", "waiting"}
  BY DEF StartQuery, Quiet, TypeOK
<1>2. \A o \in Queries : o # q => op'[o] = op[o] /\ o \notin Live
  BY DEF StartQuery, TypeOK
<1>3. OneAtATime'
  BY <1>1, <1>2 DEF InTurn, TypeOK, BeforeWaiting, InquiresForWaiting, StartQuery
<1>4. OneConversation'
  BY <1>1, <1>2 DEF InTurn, TypeOK, BeforeWaiting, InquiresForWaiting, StartQuery
<1>5. AsksAndStays'
  BY <1>1, <1>2 DEF InTurn, TypeOK, BeforeWaiting, InquiresForWaiting, StartQuery
<1>6. AnswerHeard'
  BY <1>1, <1>2 DEF InTurn, TypeOK, BeforeWaiting, InquiresForWaiting, StartQuery
<1>7. NeverExpires'
  BY <1>1, <1>2 DEF InTurn, TypeOK, BeforeWaiting, InquiresForWaiting, StartQuery
<1>8. OrderlyNeverRefused'
  BY <1>1, <1>2 DEF InTurn, TypeOK, BeforeWaiting, InquiresForWaiting, StartQuery
<1>9. OrderlyQuestions'
  BY <1>1, <1>2 DEF InTurn, TypeOK, BeforeWaiting, InquiresForWaiting, StartQuery
<1> QED BY <1>3, <1>4, <1>5, <1>6, <1>7, <1>8, <1>9 DEF InTurn

LEMMA SendReplyInTurn ==
  ASSUME Everyone, InTurn, orderly, NEW r \in Replies, SendReply(r), Quiet, UNCHANGED orderly
  PROVE  InTurn'
<1> DEFINE h == Head(hearers)
<1>1. h \in Queries /\ op[h] = "hearing"
  BY QueueMembers, QueueByQueue DEF SendReply, TypeOK, HearersKept
<1>2. PICK o \in pending : PopAndWait(r, o)
  BY DEF SendReply
<1>3. o \in Live /\ h \in Live
  BY <1>1, <1>2 DEF PendingIsLive
<1>4. o = h
  BY <1>3 DEF InTurn
<1>5. \A s \in Requests : s # r => req'[s] \notin {"sending", "expiring", "waiting"}
  BY <1>2 DEF PopAndWait, Quiet, TypeOK
<1>6. \A p \in Queries : p # h => op'[p] = op[p] /\ p \notin Live
  BY <1>3, OnlyOperative DEF SendReply, TypeOK
<1>7. op' = [op EXCEPT ![h] = "running"] /\ UNCHANGED <<question, early>>
  BY DEF SendReply
<1> HIDE DEF h
<1>8. question[r] = Nobody /\ Nobody \notin Queries
  BY DEF SendReply, BeforeWaiting
<1>9. \A s \in Requests : s # r => target'[s] = target[s] /\ question'[s] = question[s]
  BY <1>2, <1>7 DEF PopAndWait, TypeOK
<1>10. OneAtATime'
  BY <1>1, <1>2, <1>4, <1>5, <1>6, <1>7 DEF InTurn, TypeOK, BeforeWaiting, InquiresForWaiting, PopAndWait
<1>11. OneConversation'
  BY <1>1, <1>2, <1>4, <1>5, <1>6, <1>7 DEF InTurn, TypeOK, BeforeWaiting, InquiresForWaiting, PopAndWait
<1>12. AsksAndStays'
  BY <1>1, <1>2, <1>4, <1>5, <1>6, <1>7 DEF InTurn, TypeOK, BeforeWaiting, InquiresForWaiting, PopAndWait
<1>13. AnswerHeard'
  BY <1>1, <1>2, <1>4, <1>5, <1>6, <1>7 DEF InTurn, TypeOK, BeforeWaiting, InquiresForWaiting, PopAndWait
<1>14. NeverExpires'
  BY <1>1, <1>2, <1>4, <1>5, <1>6, <1>7 DEF InTurn, TypeOK, BeforeWaiting, InquiresForWaiting, PopAndWait
<1>15. OrderlyNeverRefused'
  BY <1>1, <1>2, <1>4, <1>5, <1>6, <1>7 DEF InTurn, TypeOK, BeforeWaiting, InquiresForWaiting, PopAndWait
<1>16. OrderlyQuestions'
  BY <1>7, <1>8, <1>9 DEF InTurn, TypeOK, BeforeWaiting, InquiresForWaiting, PopAndWait
<1> QED BY <1>10, <1>11, <1>12, <1>13, <1>14, <1>15, <1>16 DEF InTurn

LEMMA QueueReplyInTurn ==
  ASSUME Everyone, InTurn, orderly, NEW r \in Replies, QueueReply(r), Quiet, Live # {}, UNCHANGED orderly
  PROVE  InTurn'
<1>1. \A s \in Requests : s # r => req'[s] \notin {"sending", "expiring", "waiting"}
  BY DEF QueueReply, Quiet, TypeOK
<1>2. PICK o \in Queries : o \in Live
  OBVIOUS
<1>3. op[o] = "asked"
  <2>1. ToSet(hearers) = {}
    BY QueueMembers DEF QueueReply, TypeOK
  <2>2. op[o] # "hearing"
    BY <2>1, QueueByQueue DEF HearersKept
  <2>3. op[o] \in {"asked", "hearing"}
    BY <1>2 DEF Quiet, InTurn
  <2> QED BY <2>2, <2>3
<1>4. early'[r] = FALSE
  BY <1>3 DEF QueueReply, TypeOK
<1>5. OneAtATime'
  BY <1>1, <1>3, <1>4 DEF InTurn, TypeOK, BeforeWaiting, InquiresForWaiting, QueueReply
<1>6. OneConversation'
  BY <1>1, <1>3, <1>4 DEF InTurn, TypeOK, BeforeWaiting, InquiresForWaiting, QueueReply
<1>7. AsksAndStays'
  BY <1>1, <1>3, <1>4 DEF InTurn, TypeOK, BeforeWaiting, InquiresForWaiting, QueueReply
<1>8. AnswerHeard'
  BY <1>1, <1>3, <1>4 DEF InTurn, TypeOK, BeforeWaiting, InquiresForWaiting, QueueReply
<1>9. NeverExpires'
  BY <1>1, <1>3, <1>4 DEF InTurn, TypeOK, BeforeWaiting, InquiresForWaiting, QueueReply
<1>10. OrderlyNeverRefused'
  BY <1>1, <1>3, <1>4 DEF InTurn, TypeOK, BeforeWaiting, InquiresForWaiting, QueueReply
<1>11. OrderlyQuestions'
  BY <1>1, <1>3, <1>4 DEF InTurn, TypeOK, BeforeWaiting, InquiresForWaiting, QueueReply
<1> QED BY <1>5, <1>6, <1>7, <1>8, <1>9, <1>10, <1>11 DEF InTurn

LEMMA NoReplyExpires ==
  ASSUME Everyone, InTurn, orderly, NEW r \in Replies, ReplyExpires(r) \/ ReplyRefused(r)
  PROVE  FALSE
<1>1. ReplyExpires(r)
  BY DEF InTurn, ReplyRefused
<1>2. req[r] = "sending" /\ r \in Under
  BY <1>1 DEF ReplyExpires
<1>3. ~ early[r] /\ \E o \in Queries : op[o] = "asked"
  BY <1>2 DEF InTurn
<1>4. r \in ToSet(answers)
  BY <1>2, QueueByQueue DEF AnswersKept
<1>5. Head(answers) \in Replies /\ req[Head(answers)] \in {"sending", "expiring"}
  BY <1>4, QueueMembers, QueueByQueue DEF TypeOK, AnswersKept
<1>6. Head(answers) = r
  BY <1>2, <1>5, OnlyRequest
<1> QED BY <1>1, <1>3, <1>6 DEF ReplyExpires

LEMMA InquireTakesInTurn ==
  ASSUME Everyone, InTurn, orderly, NEW r \in Requests, InquireTakes(r), UNCHANGED orderly
  PROVE  InTurn'
<1> DEFINE o == Head(askers)
<1>1. o \in Queries /\ op[o] = "asking"
  BY QueueMembers, QueueByQueue DEF InquireTakes, TypeOK, AskersKept
<1>2. /\ inquire' = [inquire EXCEPT ![r] = "received"]
      /\ question' = [question EXCEPT ![r] = o]
      /\ op' = [op EXCEPT ![o] = "asked"]
      /\ UNCHANGED <<req, target, early>>
  BY DEF InquireTakes
<1>3. req[r] = "waiting"
  BY DEF InquireTakes, InquiresForWaiting
<1> HIDE DEF o
<1>4. target[r] = o /\ r \in Under /\ o \in Live
  BY <1>1, <1>3, WorkIsAwaited
<1>5. \A s \in Requests : s # r => req[s] \notin {"sending", "expiring", "waiting"}
  BY <1>4, OnlyRequest
<1>6. \A p \in Queries : p # o => op'[p] = op[p] /\ p \notin Live
  BY <1>2, <1>4, OnlyOperative DEF TypeOK
<1>7. OneAtATime'
  BY <1>1, <1>2, <1>3, <1>4, <1>5, <1>6 DEF InTurn, TypeOK, BeforeWaiting, InquiresForWaiting
<1>8. OneConversation'
  BY <1>1, <1>2, <1>3, <1>4, <1>5, <1>6 DEF InTurn, TypeOK, BeforeWaiting, InquiresForWaiting
<1>9. AsksAndStays'
  BY <1>1, <1>2, <1>3, <1>4, <1>5, <1>6 DEF InTurn, TypeOK, BeforeWaiting, InquiresForWaiting
<1>10. AnswerHeard'
  BY <1>1, <1>2, <1>3, <1>4, <1>5, <1>6 DEF InTurn, TypeOK, BeforeWaiting, InquiresForWaiting
<1>11. NeverExpires'
  BY <1>1, <1>2, <1>3, <1>4, <1>5, <1>6 DEF InTurn, TypeOK, BeforeWaiting, InquiresForWaiting
<1>12. OrderlyNeverRefused'
  BY <1>1, <1>2, <1>3, <1>4, <1>5, <1>6 DEF InTurn, TypeOK, BeforeWaiting, InquiresForWaiting
<1>13. OrderlyQuestions'
  BY <1>1, <1>2, <1>3, <1>4, <1>5, <1>6 DEF InTurn, TypeOK, BeforeWaiting, InquiresForWaiting
<1> QED BY <1>7, <1>8, <1>9, <1>10, <1>11, <1>12, <1>13 DEF InTurn

LEMMA InquireQuietInTurn ==
  ASSUME Everyone, InTurn, orderly, NEW r \in Requests, InquireListens(r) \/ InquireReturns(r), UNCHANGED orderly
  PROVE  InTurn'
<1>1. OneAtATime'
  BY DEF InTurn, TypeOK, BeforeWaiting, InquiresForWaiting, InquireListens, InquireReturns
<1>2. OneConversation'
  BY DEF InTurn, TypeOK, BeforeWaiting, InquiresForWaiting, InquireListens, InquireReturns
<1>3. AsksAndStays'
  BY DEF InTurn, TypeOK, BeforeWaiting, InquiresForWaiting, InquireListens, InquireReturns
<1>4. AnswerHeard'
  BY DEF InTurn, TypeOK, BeforeWaiting, InquiresForWaiting, InquireListens, InquireReturns
<1>5. NeverExpires'
  BY DEF InTurn, TypeOK, BeforeWaiting, InquiresForWaiting, InquireListens, InquireReturns
<1>6. OrderlyNeverRefused'
  BY DEF InTurn, TypeOK, BeforeWaiting, InquiresForWaiting, InquireListens, InquireReturns
<1>7. OrderlyQuestions'
  BY DEF InTurn, TypeOK, BeforeWaiting, InquiresForWaiting, InquireListens, InquireReturns
<1> QED BY <1>1, <1>2, <1>3, <1>4, <1>5, <1>6, <1>7 DEF InTurn

LEMMA AskInTurn ==
  ASSUME Everyone, InTurn, orderly, NEW o \in Queries, Ask(o), UNCHANGED orderly
  PROVE  InTurn'
<1>1. op[o] = "running" /\ o \in Live
  BY DEF Ask
<1>2. PICK r \in Requests : /\ req[r] = "waiting" /\ target[r] = o
                            /\ inquire[r] \notin {"delivered", "received"}
  BY <1>1, WorkIsAwaited
<1>3. \A s \in Requests : s # r => req[s] \notin {"sending", "expiring", "waiting"}
  BY <1>2, OnlyRequest
<1>4. \A p \in Queries : p # o => op'[p] = op[p] /\ p \notin Live
  BY <1>1, OnlyOperative DEF Ask, TypeOK
<1>5. CASE listeners = <<>>
  <2>1. op' = [op EXCEPT ![o] = "asking"] /\ UNCHANGED <<inquire, question, req, target, early>>
    BY <1>5 DEF Ask
  <2>2. OneAtATime'
    BY <1>1, <1>2, <1>3, <1>4, <2>1 DEF InTurn, TypeOK, BeforeWaiting, InquiresForWaiting
  <2>3. OneConversation'
    BY <1>1, <1>2, <1>3, <1>4, <2>1 DEF InTurn, TypeOK, BeforeWaiting, InquiresForWaiting
  <2>4. AsksAndStays'
    BY <1>1, <1>2, <1>3, <1>4, <2>1 DEF InTurn, TypeOK, BeforeWaiting, InquiresForWaiting
  <2>5. AnswerHeard'
    BY <1>1, <1>2, <1>3, <1>4, <2>1 DEF InTurn, TypeOK, BeforeWaiting, InquiresForWaiting
  <2>6. NeverExpires'
    BY <1>1, <1>2, <1>3, <1>4, <2>1 DEF InTurn, TypeOK, BeforeWaiting, InquiresForWaiting
  <2>7. OrderlyNeverRefused'
    BY <1>1, <1>2, <1>3, <1>4, <2>1 DEF InTurn, TypeOK, BeforeWaiting, InquiresForWaiting
  <2>8. OrderlyQuestions'
    BY <1>1, <1>2, <1>3, <1>4, <2>1 DEF InTurn, TypeOK, BeforeWaiting, InquiresForWaiting
  <2> QED BY <2>2, <2>3, <2>4, <2>5, <2>6, <2>7, <2>8 DEF InTurn
<1>6. CASE listeners # <<>>
  <2> DEFINE l == Head(listeners)
  <2>1. l \in Requests /\ inquire[l] = "listening"
    BY <1>6, QueueMembers, QueueByQueue DEF TypeOK, ListenersKept
  <2>2. l = r
    BY <1>3, <2>1 DEF InquiresForWaiting
  <2>3. /\ op' = [op EXCEPT ![o] = "asked"] /\ inquire' = [inquire EXCEPT ![r] = "delivered"]
        /\ question' = [question EXCEPT ![r] = o]
        /\ UNCHANGED <<req, target, early>>
    BY <1>6, <2>2 DEF Ask
  <2>4. OneAtATime'
    BY <1>1, <1>2, <1>3, <1>4, <2>3 DEF InTurn, TypeOK, BeforeWaiting, InquiresForWaiting
  <2>5. OneConversation'
    BY <1>1, <1>2, <1>3, <1>4, <2>3 DEF InTurn, TypeOK, BeforeWaiting, InquiresForWaiting
  <2>6. AsksAndStays'
    BY <1>1, <1>2, <1>3, <1>4, <2>3 DEF InTurn, TypeOK, BeforeWaiting, InquiresForWaiting
  <2>7. AnswerHeard'
    BY <1>1, <1>2, <1>3, <1>4, <2>3 DEF InTurn, TypeOK, BeforeWaiting, InquiresForWaiting
  <2>8. NeverExpires'
    BY <1>1, <1>2, <1>3, <1>4, <2>3 DEF InTurn, TypeOK, BeforeWaiting, InquiresForWaiting
  <2>9. OrderlyNeverRefused'
    BY <1>1, <1>2, <1>3, <1>4, <2>3 DEF InTurn, TypeOK, BeforeWaiting, InquiresForWaiting
  <2>10. OrderlyQuestions'
    BY <1>1, <1>2, <1>3, <1>4, <2>3 DEF InTurn, TypeOK, BeforeWaiting, InquiresForWaiting
  <2> QED BY <2>4, <2>5, <2>6, <2>7, <2>8, <2>9, <2>10 DEF InTurn
<1> QED BY <1>5, <1>6

LEMMA HearQueuedInTurn ==
  ASSUME Everyone, InTurn, orderly, NEW o \in Queries, HearQueued(o), UNCHANGED orderly
  PROVE  InTurn'
<1> DEFINE r == Head(answers)
<1>1. r \in Replies /\ req[r] \in {"sending", "expiring"}
  BY QueueMembers, QueueByQueue DEF HearQueued, TypeOK, AnswersKept
<1>2. req[r] = "sending" /\ r \in Under
  BY <1>1 DEF InTurn
<1>3. op[o] = "asked" /\ op' = [op EXCEPT ![o] = "running"] /\ UNCHANGED <<question, early>>
  BY DEF HearQueued
<1>4. PICK p \in pending : PopAndWait(r, p)
  BY <1>2 DEF HearQueued
<1> HIDE DEF r
<1>5. o \in Live /\ p \in Live
  BY <1>3, <1>4 DEF PendingIsLive
<1>6. p = o
  BY <1>5 DEF InTurn
<1>7. \A s \in Requests : s # r => req[s] \notin {"sending", "expiring", "waiting"}
  BY <1>2, OnlyRequest
<1>8. \A q \in Queries : q # o => op'[q] = op[q] /\ q \notin Live
  BY <1>3, <1>5, OnlyOperative DEF TypeOK
<1>9. OneAtATime'
  BY <1>1, <1>2, <1>3, <1>4, <1>6, <1>7, <1>8 DEF InTurn, TypeOK, BeforeWaiting, InquiresForWaiting, PopAndWait
<1>10. OneConversation'
  BY <1>1, <1>2, <1>3, <1>4, <1>6, <1>7, <1>8 DEF InTurn, TypeOK, BeforeWaiting, InquiresForWaiting, PopAndWait
<1>11. AsksAndStays'
  BY <1>1, <1>2, <1>3, <1>4, <1>6, <1>7, <1>8 DEF InTurn, TypeOK, BeforeWaiting, InquiresForWaiting, PopAndWait
<1>12. AnswerHeard'
  BY <1>1, <1>2, <1>3, <1>4, <1>6, <1>7, <1>8 DEF InTurn, TypeOK, BeforeWaiting, InquiresForWaiting, PopAndWait
<1>13. NeverExpires'
  BY <1>1, <1>2, <1>3, <1>4, <1>6, <1>7, <1>8 DEF InTurn, TypeOK, BeforeWaiting, InquiresForWaiting, PopAndWait
<1>14. OrderlyNeverRefused'
  BY <1>1, <1>2, <1>3, <1>4, <1>6, <1>7, <1>8 DEF InTurn, TypeOK, BeforeWaiting, InquiresForWaiting, PopAndWait
<1>15. OrderlyQuestions'
  BY <1>1, <1>2, <1>3, <1>4, <1>6, <1>7, <1>8 DEF InTurn, TypeOK, BeforeWaiting, InquiresForWaiting, PopAndWait
<1> QED BY <1>9, <1>10, <1>11, <1>12, <1>13, <1>14, <1>15 DEF InTurn

LEMMA HearInTurn ==
  ASSUME Everyone, InTurn, orderly, NEW o \in Queries, Hear(o), UNCHANGED orderly
  PROVE  InTurn'
<1>1. op[o] = "asked" /\ op' = [op EXCEPT ![o] = "hearing"] /\ UNCHANGED reqVars
  BY DEF Hear
<1>2. \A r \in Replies : req[r] # "sending"
  <2>1. ToSet(answers) = {}
    BY QueueMembers DEF Hear, TypeOK
  <2> QED BY <2>1, QueueByQueue DEF AnswersKept
<1>3. \A p \in Queries : p # o => op'[p] = op[p] /\ p \notin Live
  BY <1>1, OnlyOperative DEF TypeOK
<1>4. OneAtATime'
  BY <1>1, <1>2, <1>3 DEF InTurn, TypeOK, BeforeWaiting, InquiresForWaiting
<1>5. OneConversation'
  BY <1>1, <1>2, <1>3 DEF InTurn, TypeOK, BeforeWaiting, InquiresForWaiting
<1>6. AsksAndStays'
  BY <1>1, <1>2, <1>3 DEF InTurn, TypeOK, BeforeWaiting, InquiresForWaiting
<1>7. AnswerHeard'
  BY <1>1, <1>2, <1>3 DEF InTurn, TypeOK, BeforeWaiting, InquiresForWaiting
<1>8. NeverExpires'
  BY <1>1, <1>2, <1>3 DEF InTurn, TypeOK, BeforeWaiting, InquiresForWaiting
<1>9. OrderlyNeverRefused'
  BY <1>1, <1>2, <1>3 DEF InTurn, TypeOK, BeforeWaiting, InquiresForWaiting
<1>10. OrderlyQuestions'
  BY <1>1, <1>2, <1>3 DEF InTurn, TypeOK, BeforeWaiting, InquiresForWaiting
<1> QED BY <1>4, <1>5, <1>6, <1>7, <1>8, <1>9, <1>10 DEF InTurn

LEMMA FinishInTurn ==
  ASSUME Everyone, InTurn, orderly, NEW o \in Queries, Finish(o) \/ DoneCallback(o), UNCHANGED orderly
  PROVE  InTurn'
<1>1. op[o] \in {"running", "finished"} /\ o \in Live /\ UNCHANGED reqVars
  BY DEF Finish, DoneCallback
<1>2. op' = [op EXCEPT ![o] = "finished"] \/ op' = [op EXCEPT ![o] = "done"]
  BY DEF Finish, DoneCallback
<1>3. \A p \in Queries : p # o => op'[p] = op[p] /\ p \notin Live
  BY <1>1, <1>2, OnlyOperative DEF TypeOK
<1>4. OneAtATime'
  BY <1>1, <1>2, <1>3, WorkIsAwaited DEF InTurn, TypeOK, BeforeWaiting, InquiresForWaiting
<1>5. OneConversation'
  BY <1>1, <1>2, <1>3, WorkIsAwaited DEF InTurn, TypeOK, BeforeWaiting, InquiresForWaiting
<1>6. AsksAndStays'
  BY <1>1, <1>2, <1>3, WorkIsAwaited DEF InTurn, TypeOK, BeforeWaiting, InquiresForWaiting
<1>7. AnswerHeard'
  BY <1>1, <1>2, <1>3, WorkIsAwaited DEF InTurn, TypeOK, BeforeWaiting, InquiresForWaiting
<1>8. NeverExpires'
  BY <1>1, <1>2, <1>3, WorkIsAwaited DEF InTurn, TypeOK, BeforeWaiting, InquiresForWaiting
<1>9. OrderlyNeverRefused'
  BY <1>1, <1>2, <1>3, WorkIsAwaited DEF InTurn, TypeOK, BeforeWaiting, InquiresForWaiting
<1>10. OrderlyQuestions'
  BY <1>1, <1>2, <1>3, WorkIsAwaited DEF InTurn, TypeOK, BeforeWaiting, InquiresForWaiting
<1> QED BY <1>4, <1>5, <1>6, <1>7, <1>8, <1>9, <1>10 DEF InTurn

LEMMA RespondInTurn ==
  ASSUME Everyone, InTurn, orderly, NEW r \in Requests, Respond(r), UNCHANGED orderly
  PROVE  InTurn'
<1>1. req[r] = "waiting" /\ r \in Under /\ op[target[r]] = "done"
  BY DEF Respond, InTurn
<1>2. Live = {}
  BY <1>1 DEF InTurn
<1>3. req' = [req EXCEPT ![r] = "response"] /\ UNCHANGED <<op, target, question, early>>
  BY <1>1 DEF Respond
<1>4. \A s \in Requests : s # r => req[s] \notin {"sending", "expiring", "waiting"}
  BY <1>1, OnlyRequest
<1>5. OneAtATime'
  BY <1>1, <1>2, <1>3, <1>4 DEF InTurn, TypeOK, BeforeWaiting, InquiresForWaiting
<1>6. OneConversation'
  BY <1>1, <1>2, <1>3, <1>4 DEF InTurn, TypeOK, BeforeWaiting, InquiresForWaiting
<1>7. AsksAndStays'
  BY <1>1, <1>2, <1>3, <1>4 DEF InTurn, TypeOK, BeforeWaiting, InquiresForWaiting
<1>8. AnswerHeard'
  BY <1>1, <1>2, <1>3, <1>4 DEF InTurn, TypeOK, BeforeWaiting, InquiresForWaiting
<1>9. NeverExpires'
  BY <1>1, <1>2, <1>3, <1>4 DEF InTurn, TypeOK, BeforeWaiting, InquiresForWaiting
<1>10. OrderlyNeverRefused'
  BY <1>1, <1>2, <1>3, <1>4 DEF InTurn, TypeOK, BeforeWaiting, InquiresForWaiting
<1>11. OrderlyQuestions'
  BY <1>1, <1>2, <1>3, <1>4 DEF InTurn, TypeOK, BeforeWaiting, InquiresForWaiting
<1> QED BY <1>5, <1>6, <1>7, <1>8, <1>9, <1>10, <1>11 DEF InTurn

LEMMA QuestionInTurn ==
  ASSUME Everyone, InTurn, orderly, NEW r \in Requests, Question(r), UNCHANGED orderly
  PROVE  InTurn'
<1>1. req[r] = "waiting" /\ r \in Under /\ op[target[r]] \in {"asked", "hearing"}
  BY DEF Question, InTurn
<1>2. Live \subseteq {target[r]}
  BY <1>1 DEF InTurn
<1>3. \A s \in Requests : s # r => req[s] \notin {"sending", "expiring", "waiting"}
  BY <1>1, OnlyRequest
<1>4. OneAtATime'
  BY <1>1, <1>2, <1>3 DEF InTurn, TypeOK, BeforeWaiting, InquiresForWaiting, Question
<1>5. OneConversation'
  BY <1>1, <1>2, <1>3 DEF InTurn, TypeOK, BeforeWaiting, InquiresForWaiting, Question
<1>6. AsksAndStays'
  BY <1>1, <1>2, <1>3 DEF InTurn, TypeOK, BeforeWaiting, InquiresForWaiting, Question
<1>7. AnswerHeard'
  BY <1>1, <1>2, <1>3 DEF InTurn, TypeOK, BeforeWaiting, InquiresForWaiting, Question
<1>8. NeverExpires'
  BY <1>1, <1>2, <1>3 DEF InTurn, TypeOK, BeforeWaiting, InquiresForWaiting, Question
<1>9. OrderlyNeverRefused'
  BY <1>1, <1>2, <1>3 DEF InTurn, TypeOK, BeforeWaiting, InquiresForWaiting, Question
<1>10. OrderlyQuestions'
  BY <1>1, <1>2, <1>3 DEF InTurn, TypeOK, BeforeWaiting, InquiresForWaiting, Question
<1> QED BY <1>4, <1>5, <1>6, <1>7, <1>8, <1>9, <1>10 DEF InTurn

LEMMA NeverBothDone ==
  ASSUME Everyone, InTurn, orderly, NEW r \in Requests, BothDone(r)
  PROVE  FALSE
BY DEF BothDone, OpDone, InTurn

LEMMA TimeoutInTurn ==
  ASSUME Everyone, InTurn, orderly, NEW r \in Requests, Timeout(r), UNCHANGED orderly
  PROVE  InTurn'
<1>1. req[r] = "waiting" /\ r \in Under /\ target[r] \in Queries
  BY DEF Timeout, InquiresForWaiting
<1>2. /\ op' = [op EXCEPT ![target[r]] = "cancelled"] /\ req' = [req EXCEPT ![r] = "timeout"]
      /\ UNCHANGED <<target, question, early>>
  BY DEF Timeout
<1>3. \A p \in Queries : op'[p] \in {"none", "done", "cancelled"}
  BY <1>1, <1>2 DEF InTurn, TypeOK
<1>4. \A s \in Requests : s # r => req[s] \notin {"sending", "expiring", "waiting"}
  BY <1>1, OnlyRequest
<1>5. OneAtATime'
  BY <1>1, <1>2, <1>3, <1>4 DEF InTurn, TypeOK, BeforeWaiting, InquiresForWaiting
<1>6. OneConversation'
  BY <1>1, <1>2, <1>3, <1>4 DEF InTurn, TypeOK, BeforeWaiting, InquiresForWaiting
<1>7. AsksAndStays'
  BY <1>1, <1>2, <1>3, <1>4 DEF InTurn, TypeOK, BeforeWaiting, InquiresForWaiting
<1>8. AnswerHeard'
  BY <1>1, <1>2, <1>3, <1>4 DEF InTurn, TypeOK, BeforeWaiting, InquiresForWaiting
<1>9. NeverExpires'
  BY <1>1, <1>2, <1>3, <1>4 DEF InTurn, TypeOK, BeforeWaiting, InquiresForWaiting
<1>10. OrderlyNeverRefused'
  BY <1>1, <1>2, <1>3, <1>4 DEF InTurn, TypeOK, BeforeWaiting, InquiresForWaiting
<1>11. OrderlyQuestions'
  BY <1>1, <1>2, <1>3, <1>4 DEF InTurn, TypeOK, BeforeWaiting, InquiresForWaiting
<1> QED BY <1>5, <1>6, <1>7, <1>8, <1>9, <1>10, <1>11 DEF InTurn

-----------------------------------------------------------------------------
(* IInv /\ [Next]_vars => IInv'                                             *)
LEMMA NextEveryone == ASSUME Everyone, Next PROVE Everyone'
<1>1. UNCHANGED orderly
  BY DEF Next
<1>2. CASE \E q \in Queries : StartQuery(q)
  BY <1>1, <1>2, StartQueryKeeps
<1>3. CASE \E r \in Replies : SendReply(r) \/ QueueReply(r)
  BY <1>1, <1>3, SendReplyKeeps, QueueReplyKeeps
<1>4. CASE \E o \in Queries : OperativeStep(o)
  BY <1>1, <1>4, AskQueuedKeeps, AskHeardKeeps, HearQueuedKeeps, HearKeeps, FinishKeeps,
     DoneCallbackKeeps DEF OperativeStep
<1>5. CASE \E r \in Requests : RequestStep(r)
  BY <1>1, <1>5, InquireTakesKeeps, InquireListensKeeps, InquireReturnsKeeps, RespondKeeps,
     QuestionKeeps, TimeoutKeeps DEF RequestStep
<1>6. CASE \E r \in Replies : ReplyStep(r)
  BY <1>1, <1>6, ReplyExpiresKeeps, ReplyRefusedKeeps DEF ReplyStep
<1> QED BY <1>2, <1>3, <1>4, <1>5, <1>6 DEF Next, Internal

LEMMA NextInTurn == ASSUME Everyone, InTurn, Next PROVE InTurn'
<1>1. UNCHANGED orderly
  BY DEF Next
<1>2. CASE ~ orderly
  BY <1>1, <1>2 DEF InTurn
<1>3. CASE orderly
  <2>1. CASE Quiet /\ Live = {} /\ \E q \in Queries : StartQuery(q)
    BY <1>1, <1>3, <2>1, StartQueryInTurn
  <2>2. CASE Quiet /\ Live # {} /\ \E r \in Replies : SendReply(r) \/ QueueReply(r)
    BY <1>1, <1>3, <2>2, SendReplyInTurn, QueueReplyInTurn
  <2>3. CASE \E o \in Queries : OperativeStep(o)
    BY <1>1, <1>3, <2>3, AskInTurn, HearQueuedInTurn, HearInTurn, FinishInTurn DEF OperativeStep
  <2>4. CASE \E r \in Requests : RequestStep(r)
    BY <1>1, <1>3, <2>4, InquireTakesInTurn, InquireQuietInTurn, RespondInTurn, QuestionInTurn,
       NeverBothDone, TimeoutInTurn DEF RequestStep
  <2>5. CASE \E r \in Replies : ReplyStep(r)
    BY <1>3, <2>5, NoReplyExpires DEF ReplyStep
  <2> QED BY <1>3, <2>1, <2>2, <2>3, <2>4, <2>5 DEF Next, Internal
<1> QED BY <1>2, <1>3

LEMMA StutterInv == ASSUME IInv, UNCHANGED vars PROVE IInv'
<1>1. Everyone'
  BY QueueByQueue, QueueByQueueNext
     DEF IInv, vars, TypeOK, BeforeWaiting, InquiresForWaiting, PendingIsLive,
         AskersKept, HearersKept, ListenersKept, AnswersKept, NobodyMissed
<1>2. InTurn'
  BY DEF IInv, InTurn, vars
<1> QED BY <1>1, <1>2 DEF IInv

LEMMA Invariance == Spec => []IInv
<1>1. IInv /\ [Next]_vars => IInv'
  BY NextEveryone, NextInTurn, StutterInv DEF IInv
<1> QED BY InitInv, <1>1, PTL DEF Spec

-----------------------------------------------------------------------------
(* Every variable of a session keeps to its type: the tasks, requests,      *)
(* queues and sets of InteractionManager and OperativeInteractions hold     *)
(* nothing else.                                                            *)
THEOREM TypeCorrect == Spec => []TypeOK
<1>1. IInv => TypeOK
  BY DEF IInv
<1> QED BY Invariance, <1>1, PTL

(* Whatever clients do, the two rendezvous of a session lose nobody: through *)
(* time-outs, cancellations and unexpected answers each queue holds exactly *)
(* those that are suspended in it, once, and no sender waits while a        *)
(* receiver does (interaction.py, anyio's streams without a buffer).        *)
THEOREM SessionForgetsNobody == Spec => []NobodyForgotten
<1>1. IInv => NobodyForgotten
  BY DEF IInv
<1> QED BY Invariance, <1>1, PTL

(* The set of tasks from which an answer pops an arbitrary one holds the    *)
(* live operatives and no other, so pop() finds one for each answer taken.  *)
THEOREM PendingTasksAreLive == Spec => []PendingIsLive
<1>1. IInv => PendingIsLive
  BY DEF IInv
<1> QED BY Invariance, <1>1, PTL

(* A client that talks in turn is served, with any number of queries,       *)
(* answers and questions: no answer of it is refused, no request fails      *)
(* inside, and each question comes from the operative it waits on.          *)
THEOREM OrderlyClientIsServed == Spec => []OrderlyServed
<1>1. IInv => OrderlyServed
  BY DEF IInv, InTurn, OrderlyServed, OrderlyNeverRefused, OrderlyQuestions
<1> QED BY Invariance, <1>1, PTL

=============================================================================
