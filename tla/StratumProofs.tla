---------------------------- MODULE StratumProofs ----------------------------
(***************************************************************************)
(* Proofs about Stratum, for any tasks, pools, sizes of the channel and of *)
(* the sockets: what the pool will answer is known when the answer comes,  *)
(* one inference is under way, and a share carries the CID of its own job. *)
(***************************************************************************)
EXTENDS Stratum, FiniteSetTheorems, TLAPS

-----------------------------------------------------------------------------
\* The types.

Id       == Nat \cup {None}
Kinds    == {"register", "share", "ai", "keepalive", "challenge"}
LineType == [kind : Kinds, id : Id, job : Nat, cid : Task \cup {None}]

Answer  == [kind : {"answer"}, to : Kinds, id : Nat, verdict : {"true", "rejected", "denied"}]
Notify  == [kind : {"notify"}, job : Nat, task : Task \cup {None}, seed : BOOLEAN]
Ask     == [kind : {"ai_request", "challenge"}]
Message == Answer \cup Notify \cup Ask

Slot   == [job : Nat, task : Task]
Thread == [kind : {"ai", "challenge", "task"}, task : Task \cup {None}, at : {"infer", "send"}, id : Id]
Sharer == [at : {"idle", "look", "send"}, id : Nat, job : Nat, cid : Task \cup {None}]

PoolTypes  == pool \in Pool /\ wire \in SUBSET LineType
InboxTypes == inbox \in Seq(Message)
SentTypes  == sent \in [tasks : Seq(Task \cup {None}), shares : Nat, requests : Nat, keepalives : Nat]
LinkTypes  == loop \in LineType \cup {None} /\ chan \in Seq(LineType) /\ lastId \in Nat
NoteTypes  == pending \in SUBSET Nat /\ keepalive \in Id /\ ai \in Id
InferTypes ==
    /\ slot \in Slot \cup {None}
    /\ results \in SUBSET Task /\ running \in SUBSET Task /\ threads \in SUBSET Thread
ShareTypes == sharer \in Sharer /\ work \in SUBSET Nat

TypeOK ==
    /\ PoolTypes /\ InboxTypes /\ SentTypes
    /\ LinkTypes /\ NoteTypes /\ InferTypes /\ ShareTypes

-----------------------------------------------------------------------------
\* Numbers.

\* What the pool sent and listen has not handled.
Received == {inbox[i] : i \in 1 .. Len(inbox)}

\* The numbers of what the pool has not answered yet, or whose answer is not handled.
ChanIds  == {chan[i].id : i \in 1 .. Len(chan)} \ {None}
WireIds  == {line.id : line \in wire} \ {None}
InboxIds == {m.id : m \in {n \in Received : n.kind = "answer"}}
Open     == ChanIds \cup WireIds \cup InboxIds

\* Every number is on its way once.
Once ==
    /\ \A i, j \in 1 .. Len(chan) : chan[i].id # None /\ chan[i].id = chan[j].id => i = j
    /\ \A line, other \in wire : line.id # None /\ line.id = other.id => line = other
    /\ \A i, j \in 1 .. Len(inbox) :
         inbox[i].kind = "answer" /\ inbox[j].kind = "answer" /\ inbox[i].id = inbox[j].id => i = j
    /\ ChanIds \cap WireIds = {} /\ ChanIds \cap InboxIds = {} /\ WireIds \cap InboxIds = {}

\* A number is given to one request.
Given ==
    /\ \A x \in Open : x <= lastId
    /\ \A x \in pending : 0 < x /\ x <= lastId /\ x # ai /\ x # keepalive
    /\ ai # None => 0 < ai /\ ai <= lastId /\ ai # keepalive
    /\ keepalive # None => 0 < keepalive /\ keepalive <= lastId

\* What will be answered is noted where its answer is looked for.
ExpectedOf(kind, id) ==
    /\ kind = "share" => id \in pending
    /\ kind = "ai" => id = ai
    /\ kind = "keepalive" => id = keepalive
Expected ==
    /\ \A line \in OnItsWay : ExpectedOf(line.kind, line.id)
    /\ \A m \in Received : m.kind = "answer" => ExpectedOf(m.to, m.id)

\* Registrations have the number none of these has.
Numbered ==
    /\ \A line \in OnItsWay : line.kind = "register" => line.id = 0
    /\ \A line \in OnItsWay : line.kind = "challenge" <=> line.id = None
    /\ \A m \in Received : m.kind = "answer" =>
         m.to # "challenge" /\ (m.to = "register" => m.id = 0)

\* What is about to be sent has its number noted, and nobody else has it.
AboutToSend ==
    /\ sharer.at # "idle" => sharer.id \in pending /\ sharer.id \notin Open
    /\ loop # None =>
         /\ loop.kind \in {"challenge", "keepalive"}
         /\ loop.kind = "challenge" => loop.id = None
         /\ loop.kind = "keepalive" =>
              /\ loop.id \in Nat /\ 0 < loop.id /\ loop.id <= lastId /\ keepalive = None
              /\ loop.id \notin pending \cup Open /\ loop.id # ai

\* The one inference.
Inference ==
    /\ \A t, s \in threads : t = s
    /\ threads # {} => busy
    /\ \A t \in threads :
         /\ t.kind = "ai" /\ t.at = "infer" => ai = None
         /\ t.kind = "ai" /\ t.at = "send" /\ up => t.id \in Nat /\ t.id = ai /\ t.id \notin Open
         /\ t.kind = "challenge" /\ t.at = "send" => t.id = None
         /\ t.kind = "task" => t.at = "infer" /\ t.task \in Task

\* Nothing is left of a connection that was lost.
Lost ==
    ~up => /\ loop = None /\ chan = <<>> /\ wire = {} /\ inbox = <<>> /\ silent
           /\ pending = {} /\ keepalive = None /\ ai = None /\ sharer = Idle /\ work = {}

\* The inductive invariant of what is asked and answered.
NotesInv ==
    TypeOK /\ Expected /\ Once /\ Given /\ Numbered /\ AboutToSend /\ Inference /\ Lost

-----------------------------------------------------------------------------
\* Jobs.

\* The task x came with the job j.
IsOfJob(x, j) == j \in 1 .. Len(sent.tasks) /\ x = sent.tasks[j]

\* The inductive invariant of the CIDs: the jobs on their way, the current one and
\* the share at work are paired with the tasks that were sent.
JobsInv ==
    /\ \A line \in OnItsWay : line.cid # None => IsOfJob(line.cid, line.job)
    /\ \A m \in Received : m.kind = "notify" => IsOfJob(m.task, m.job)
    /\ slot # None => IsOfJob(slot.task, slot.job)
    /\ sharer.cid # None => IsOfJob(sharer.cid, sharer.job)
    /\ loop # None => loop.cid = None

-----------------------------------------------------------------------------
\* Types.

\* A handler that ends the connection leaves what Init would, but for the threads.
LEMMA DownKeepsTypes == ASSUME TypeOK, Down PROVE TypeOK'
<1>1. PoolTypes' /\ InboxTypes' /\ SentTypes'
  BY DEF TypeOK, PoolTypes, InboxTypes, SentTypes, Down, Nothing
<1>2. LinkTypes'
  BY DEF TypeOK, LinkTypes, Down
<1>3. NoteTypes'
  BY DEF TypeOK, NoteTypes, Down, Id
<1>4. InferTypes'
  BY DEF TypeOK, InferTypes, Down
<1>5. ShareTypes'
  BY DEF TypeOK, ShareTypes, Down, Idle, Sharer
<1> QED BY <1>1, <1>2, <1>3, <1>4, <1>5 DEF TypeOK

\* The counters of the pool and its list of tasks grow.
LEMMA SentGrows ==
    ASSUME SentTypes,
           \/ sent' = [sent EXCEPT !.shares = @ + 1]
           \/ sent' = [sent EXCEPT !.requests = @ + 1]
           \/ sent' = [sent EXCEPT !.keepalives = IF silent THEN @ ELSE @ + 1]
           \/ \E task \in Task \cup {None} : sent' = [sent EXCEPT !.tasks = Append(@, task)]
    PROVE  SentTypes'
<1>1. CASE sent' = [sent EXCEPT !.shares = @ + 1]
  BY <1>1 DEF SentTypes
<1>2. CASE sent' = [sent EXCEPT !.requests = @ + 1]
  BY <1>2 DEF SentTypes
<1>3. CASE sent' = [sent EXCEPT !.keepalives = IF silent THEN @ ELSE @ + 1]
  BY <1>3 DEF SentTypes
<1>4. ASSUME NEW task \in Task \cup {None}, sent' = [sent EXCEPT !.tasks = Append(@, task)] PROVE SentTypes'
  <2>1. Append(sent.tasks, task) \in Seq(Task \cup {None})
    BY DEF SentTypes
  <2> QED BY <1>4, <2>1 DEF SentTypes
<1> QED BY <1>1, <1>2, <1>3, <1>4

\* An answer that is ready has a number of its own.
LEMMA NumberedThread ==
    ASSUME NEW t \in Thread, NEW id \in Id PROVE [t EXCEPT !.at = "send", !.id = id] \in Thread
  BY DEF Thread

\* Every step keeps the types.
LEMMA TypesKeep == ASSUME TypeOK, Inference, [Next]_vars PROVE TypeOK'
<1> USE StratumAssumption DEF TypeOK, PoolTypes, InboxTypes, SentTypes, LinkTypes, NoteTypes, InferTypes, ShareTypes,
        poolVars, linkVars, noteVars, inferVars
<1>1. ASSUME UNCHANGED vars PROVE TypeOK'
  BY <1>1 DEF vars
<1>2. ASSUME HandleAnswer PROVE TypeOK'
  <2>1. CASE Down
    BY <2>1, DownKeepsTypes
  <2>2. CASE ~Down
    <3>1. inbox' = Tail(inbox) /\ inbox # <<>> /\ UNCHANGED <<pool, wire, sent>>
      BY <1>2, <2>2 DEF HandleAnswer, Take
    <3>2. InboxTypes' /\ PoolTypes' /\ SentTypes'
      BY <3>1
    <3>3. LinkTypes' /\ NoteTypes' /\ InferTypes' /\ ShareTypes'
      BY <1>2, <2>2 DEF HandleAnswer, Id
    <3> QED BY <3>2, <3>3
  <2> QED BY <2>1, <2>2
<1>3. ASSUME HandleNotify PROVE TypeOK'
  <2> DEFINE m == Head(inbox)
  <2>1. m \in Notify
    BY <1>3 DEF HandleNotify, Message, Answer, Ask
  <2>2. slot' \in Slot \cup {None}
    BY <1>3, <2>1 DEF HandleNotify, Notify, Slot, Launches
  <2>3. threads' \in SUBSET Thread /\ running' \in SUBSET Task
        /\ results' \in SUBSET Task /\ work' \in SUBSET Nat
    BY <1>3, <2>1 DEF HandleNotify, Notify, Start, Launches, Thread, Id
  <2> QED BY <1>3, <2>2, <2>3 DEF HandleNotify, Take
<1>4. ASSUME HandleAiRequest PROVE TypeOK'
  BY <1>4 DEF HandleAiRequest, Take, Start, Thread, Id
<1>5. ASSUME HandleChallenge PROVE TypeOK'
  BY <1>5 DEF HandleChallenge, Take, Start, Thread, Id, Line, LineType, Kinds
<1>6. ASSUME LoopSends PROVE TypeOK'
  BY <1>6 DEF LoopSends, Push, LineType, Id
<1>7. ASSUME Late PROVE TypeOK'
  BY <1>7, DownKeepsTypes DEF Late
<1>8. ASSUME SendKeepalive PROVE TypeOK'
  <2>1. SentTypes'
    BY <1>8, SentGrows DEF SendKeepalive
  <2>2. LinkTypes'
    BY <1>8 DEF SendKeepalive, Line, LineType, Kinds, Id
  <2> QED BY <1>8, <2>1, <2>2 DEF SendKeepalive
<1>9. ASSUME NEW j \in work, TakeShare(j) PROVE TypeOK'
  <2>1. SentTypes'
    BY <1>9, SentGrows DEF TakeShare
  <2>2. ShareTypes' /\ NoteTypes' /\ LinkTypes'
    BY <1>9 DEF TakeShare, Sharer
  <2> QED BY <1>9, <2>1, <2>2 DEF TakeShare
<1>10. ASSUME LookUp PROVE TypeOK'
  BY <1>10 DEF LookUp, Cid, Slot, Sharer
<1>11. ASSUME SendShare PROVE TypeOK'
  BY <1>11 DEF SendShare, Push, ShareLine, LineType, Kinds, Id, Sharer, Idle
<1>12. ASSUME NEW t \in threads, AnswerReady(t) PROVE TypeOK'
  <2>1. threads' \in SUBSET Thread
    <3>1. [t EXCEPT !.at = "send", !.id = lastId + 1] \in Thread
      <4>1. lastId + 1 \in Id /\ t \in Thread
        BY DEF Id
      <4> QED BY <4>1, NumberedThread
    <3> QED BY <1>12, <3>1 DEF AnswerReady, Ends, Becomes
  <2>2. lastId' \in Nat /\ ai' \in Id
    BY <1>12 DEF AnswerReady, Id
  <2> QED BY <1>12, <2>1, <2>2 DEF AnswerReady
<1>13. ASSUME NEW t \in threads, ChallengeReady(t) PROVE TypeOK'
  BY <1>13 DEF ChallengeReady, Becomes, Thread, Id
<1>14. ASSUME NEW t \in threads, TaskReady(t) PROVE TypeOK'
  <2>1. t.task \in Task
    BY <1>14 DEF TaskReady, Inference
  <2> QED BY <1>14, <2>1 DEF TaskReady, Ends, Becomes
<1>15. ASSUME NEW t \in threads, ThreadSends(t) PROVE TypeOK'
  <2>1. Line(t.kind, t.id) \in LineType
    BY <1>15 DEF ThreadSends, Inference, Line, LineType, Kinds, Thread
  <2>2. chan' \in Seq(LineType)
    <3>1. chan' = Append(chan, Line(t.kind, t.id)) \/ chan' = chan
      BY <1>15 DEF ThreadSends, Push
    <3>2. chan \in Seq(LineType) /\ Append(chan, Line(t.kind, t.id)) \in Seq(LineType)
      BY <2>1
    <3> QED BY <3>1, <3>2
  <2>3. ai' \in Id
    BY <1>15 DEF ThreadSends, Id
  <2>4. threads' \in SUBSET Thread
    BY <1>15 DEF ThreadSends, Ends, Becomes
  <2> QED BY <1>15, <2>2, <2>3, <2>4 DEF ThreadSends
<1>16. ASSUME Write PROVE TypeOK'
  BY <1>16 DEF Write
<1>17. ASSUME Lose PROVE TypeOK'
  BY <1>17, DownKeepsTypes DEF Lose
<1>18. ASSUME FallSilent PROVE TypeOK'
  BY <1>18 DEF FallSilent
<1>19. ASSUME NEW line \in wire, PoolReads(line) PROVE TypeOK'
  BY <1>19 DEF PoolReads
<1>20. ASSUME NEW line \in wire, PoolAnswers(line) PROVE TypeOK'
  BY <1>20 DEF PoolAnswers, PoolSays, Message, Answer, LineType, Id
<1>21. ASSUME NEW task \in Task \cup {None}, NEW seed \in BOOLEAN, PoolNotifies(task, seed) PROVE TypeOK'
  <2>1. InboxTypes'
    BY <1>21 DEF PoolNotifies, PoolSays, Message, Notify
  <2>2. SentTypes'
    BY <1>21, SentGrows DEF PoolNotifies
  <2> QED BY <1>21, <2>1, <2>2 DEF PoolNotifies
<1>22. ASSUME NEW kind \in {"ai_request", "challenge"}, PoolAsks(kind) PROVE TypeOK'
  <2>1. InboxTypes'
    BY <1>22 DEF PoolAsks, PoolSays, Message, Ask
  <2>2. SentTypes'
    BY <1>22, SentGrows DEF PoolAsks
  <2> QED BY <1>22, <2>1, <2>2 DEF PoolAsks
<1> HIDE DEF TypeOK
<1> QED
  BY <1>1, <1>2, <1>3, <1>4, <1>5, <1>6, <1>7, <1>8, <1>9, <1>10, <1>11, <1>12, <1>13, <1>14,
     <1>15, <1>16, <1>17, <1>18, <1>19, <1>20, <1>21, <1>22
  DEF Next, Listen, Share, Infer, PoolStep

-----------------------------------------------------------------------------
\* The ways of a line.

\* What Append and Tail do to a sequence, element by element.
LEMMA AppendIs ==
    ASSUME NEW S, NEW s \in Seq(S), NEW e \in S
    PROVE  /\ Len(Append(s, e)) = Len(s) + 1
           /\ \A i \in 1 .. Len(s) : Append(s, e)[i] = s[i]
           /\ Append(s, e)[Len(s) + 1] = e
  OBVIOUS

LEMMA TailIs ==
    ASSUME NEW S, NEW s \in Seq(S), s # <<>>
    PROVE  /\ Len(s) \in Nat /\ Len(s) > 0 /\ Head(s) = s[1]
           /\ Len(Tail(s)) = Len(s) - 1
           /\ \A i \in 1 .. Len(s) - 1 : Tail(s)[i] = s[i + 1]
  OBVIOUS

\* A line that is pushed is the last one of the channel.
LEMMA Pushing ==
    ASSUME TypeOK, Once, NEW line \in LineType, Push(line), UNCHANGED <<wire, inbox>>,
           line.id # None => line.id \notin Open
    PROVE  /\ Once' /\ OnItsWay' = OnItsWay \cup {line} /\ Received' = Received
           /\ Open' = Open \cup ({line.id} \ {None})
<1>1. chan \in Seq(LineType) /\ Len(chan) \in Nat
  BY DEF TypeOK, LinkTypes
<1>2. /\ Len(chan') = Len(chan) + 1 /\ \A i \in 1 .. Len(chan) : chan'[i] = chan[i]
      /\ chan'[Len(chan) + 1] = line
  BY <1>1, AppendIs DEF Push
<1>3. 1 .. Len(chan') = 1 .. Len(chan) \cup {Len(chan) + 1}
  BY <1>1, <1>2
<1>4. {chan'[i] : i \in 1 .. Len(chan')} = {chan[i] : i \in 1 .. Len(chan)} \cup {line}
  BY <1>2, <1>3
<1>5. ChanIds' = ChanIds \cup ({line.id} \ {None})
  BY <1>2, <1>3 DEF ChanIds
<1>6. WireIds' = WireIds /\ Received' = Received /\ InboxIds' = InboxIds
  BY DEF WireIds, Received, InboxIds
<1>7. \A i, j \in 1 .. Len(chan') : chan'[i].id # None /\ chan'[i].id = chan'[j].id => i = j
  <2>1. \A i \in 1 .. Len(chan) : chan[i].id # None => chan[i].id # line.id
    BY DEF Open, ChanIds
  <2> QED BY <1>2, <1>3, <2>1 DEF Once
<1>8. Once'
  BY <1>5, <1>6, <1>7 DEF Once, Open
<1> QED BY <1>4, <1>5, <1>6, <1>8 DEF OnItsWay, Open

\* A line that is written keeps its number.
LEMMA Writing ==
    ASSUME TypeOK, Once, chan # <<>>, wire' = wire \cup {Head(chan)}, chan' = Tail(chan), inbox' = inbox
    PROVE  Once' /\ OnItsWay' = OnItsWay /\ Received' = Received /\ Open' = Open
<1> DEFINE first == Head(chan)
<1>1. chan \in Seq(LineType)
  BY DEF TypeOK, LinkTypes
<1>2. /\ Len(chan) \in Nat /\ Len(chan) > 0 /\ first = chan[1] /\ Len(chan') = Len(chan) - 1
      /\ \A i \in 1 .. Len(chan') : chan'[i] = chan[i + 1] /\ i + 1 \in 1 .. Len(chan)
  BY <1>1, TailIs
<1> HIDE DEF first
<1>3. \A i \in 1 .. Len(chan) : i = 1 \/ (i - 1 \in 1 .. Len(chan') /\ chan'[i - 1] = chan[i])
  BY <1>2
<1>4. {chan[i] : i \in 1 .. Len(chan)} = {chan'[i] : i \in 1 .. Len(chan')} \cup {first}
  <2>1. {chan[i] : i \in 1 .. Len(chan)} \subseteq {chan'[i] : i \in 1 .. Len(chan')} \cup {first}
    <3> SUFFICES ASSUME NEW i \in 1 .. Len(chan)
                 PROVE  chan[i] = first \/ \E j \in 1 .. Len(chan') : chan'[j] = chan[i]
      OBVIOUS
    <3> QED BY <1>2, <1>3
  <2>2. {chan'[i] : i \in 1 .. Len(chan')} \cup {first} \subseteq {chan[i] : i \in 1 .. Len(chan)}
    BY <1>2
  <2> QED BY <2>1, <2>2
<1>5. wire' = wire \cup {first}
  BY DEF first
<1>6. OnItsWay' = OnItsWay
  BY <1>4, <1>5 DEF OnItsWay
<1>7. ChanIds = ChanIds' \cup ({first.id} \ {None})
  <2>1. ChanIds \subseteq ChanIds' \cup ({first.id} \ {None})
    BY <1>2, <1>3 DEF ChanIds
  <2>2. ChanIds' \cup ({first.id} \ {None}) \subseteq ChanIds
    BY <1>2 DEF ChanIds
  <2> QED BY <2>1, <2>2
<1>8. WireIds' = WireIds \cup ({first.id} \ {None})
  BY <1>5 DEF WireIds
<1>9. Received' = Received /\ InboxIds' = InboxIds
  BY DEF Received, InboxIds
<1>10. first.id \notin ChanIds'
  BY <1>2 DEF Once, ChanIds
<1>11. \A i, j \in 1 .. Len(chan') : chan'[i].id # None /\ chan'[i].id = chan'[j].id => i = j
  <2> SUFFICES ASSUME NEW i \in 1 .. Len(chan'), NEW j \in 1 .. Len(chan'),
                      chan'[i].id # None, chan'[i].id = chan'[j].id PROVE i = j
    OBVIOUS
  <2>1. i + 1 = j + 1
    BY <1>2 DEF Once
  <2> QED BY <1>2, <2>1
<1>12. \A line, other \in wire' : line.id # None /\ line.id = other.id => line = other
  BY <1>5, <1>7, <1>8 DEF Once, WireIds
<1>13. Once'
  BY <1>7, <1>8, <1>9, <1>10, <1>11, <1>12 DEF Once
<1> QED BY <1>6, <1>7, <1>8, <1>9, <1>13 DEF Open

\* The number of a line is that of its answer.
LEMMA Answering ==
    ASSUME TypeOK, Once, NEW line \in wire, line.id # None, NEW m \in Answer, m.id = line.id,
           inbox' = Append(inbox, m), wire' = wire \ {line}, chan' = chan
    PROVE  /\ Once' /\ OnItsWay' \subseteq OnItsWay /\ line \in OnItsWay
           /\ Received' = Received \cup {m} /\ Open' = Open
<1>1. inbox \in Seq(Message) /\ m \in Message /\ m.kind = "answer" /\ Len(inbox) \in Nat
  BY DEF TypeOK, InboxTypes, Message, Answer
<1>2. /\ Len(inbox') = Len(inbox) + 1 /\ \A i \in 1 .. Len(inbox) : inbox'[i] = inbox[i]
      /\ inbox'[Len(inbox) + 1] = m
  BY <1>1, AppendIs
<1>3. 1 .. Len(inbox') = 1 .. Len(inbox) \cup {Len(inbox) + 1}
  BY <1>1, <1>2
<1>4. Received' = Received \cup {m}
  BY <1>2, <1>3 DEF Received
<1>5. InboxIds' = InboxIds \cup {m.id}
  BY <1>1, <1>4 DEF InboxIds
<1>6. WireIds = WireIds' \cup {m.id} /\ m.id \notin WireIds'
  BY DEF WireIds, Once
<1>7. ChanIds' = ChanIds
  BY DEF ChanIds
<1>8. \A i \in 1 .. Len(inbox) : inbox[i].kind = "answer" => inbox[i].id # m.id
  BY <1>6 DEF Once, InboxIds, Received
<1>9. \A i, j \in 1 .. Len(inbox') :
        inbox'[i].kind = "answer" /\ inbox'[j].kind = "answer" /\ inbox'[i].id = inbox'[j].id => i = j
  BY <1>2, <1>3, <1>8 DEF Once
<1>10. Once'
  BY <1>5, <1>6, <1>7, <1>9 DEF Once
<1>11. OnItsWay' \subseteq OnItsWay /\ line \in OnItsWay
  BY DEF OnItsWay
<1> QED BY <1>4, <1>5, <1>6, <1>7, <1>10, <1>11 DEF Open

\* What is not an answer has no number.
LEMMA Saying ==
    ASSUME TypeOK, Once, NEW m \in Message, m.kind # "answer", inbox' = Append(inbox, m),
           UNCHANGED <<chan, wire>>
    PROVE  Once' /\ OnItsWay' = OnItsWay /\ Received' = Received \cup {m} /\ Open' = Open
<1>1. inbox \in Seq(Message) /\ Len(inbox) \in Nat
  BY DEF TypeOK, InboxTypes
<1>2. /\ Len(inbox') = Len(inbox) + 1 /\ \A i \in 1 .. Len(inbox) : inbox'[i] = inbox[i]
      /\ inbox'[Len(inbox) + 1] = m
  BY <1>1, AppendIs
<1>3. 1 .. Len(inbox') = 1 .. Len(inbox) \cup {Len(inbox) + 1}
  BY <1>1, <1>2
<1>4. Received' = Received \cup {m}
  BY <1>2, <1>3 DEF Received
<1>5. InboxIds' = InboxIds /\ WireIds' = WireIds /\ ChanIds' = ChanIds
  BY <1>4 DEF InboxIds, WireIds, ChanIds
<1>6. \A i, j \in 1 .. Len(inbox') :
        inbox'[i].kind = "answer" /\ inbox'[j].kind = "answer" /\ inbox'[i].id = inbox'[j].id => i = j
  BY <1>2, <1>3 DEF Once
<1>7. Once'
  BY <1>5, <1>6 DEF Once
<1> QED BY <1>4, <1>5, <1>7 DEF Open, OnItsWay

\* An answer that is taken was the only thing with its number.
LEMMA Taking ==
    ASSUME TypeOK, Once, inbox # <<>>, inbox' = Tail(inbox), UNCHANGED <<chan, wire>>
    PROVE  /\ Once' /\ OnItsWay' = OnItsWay /\ Received' \subseteq Received /\ Open' \subseteq Open
           /\ Head(inbox) \in Received /\ Head(inbox) \in Message
           /\ Head(inbox).kind = "answer" =>
                /\ Head(inbox).id \notin Open'
                /\ \A line \in OnItsWay : line.id # Head(inbox).id
                /\ \A n \in Received' : n.kind = "answer" => n.id # Head(inbox).id
<1> DEFINE m == Head(inbox)
<1>1. inbox \in Seq(Message)
  BY DEF TypeOK, InboxTypes
<1>2. /\ Len(inbox) \in Nat /\ Len(inbox) > 0 /\ m = inbox[1] /\ Len(inbox') = Len(inbox) - 1
      /\ \A i \in 1 .. Len(inbox') : inbox'[i] = inbox[i + 1] /\ i + 1 \in 1 .. Len(inbox)
  BY <1>1, TailIs
<1>3. m \in Message
  BY <1>1, <1>2
<1> HIDE DEF m
<1>4. m \in Received /\ Received' \subseteq Received
  <2>1. m \in Received
    BY <1>2 DEF Received
  <2>2. \A i \in 1 .. Len(inbox') : \E j \in 1 .. Len(inbox) : inbox'[i] = inbox[j]
    BY <1>2
  <2> QED BY <2>1, <2>2 DEF Received
<1>5. InboxIds' \subseteq InboxIds /\ WireIds' = WireIds /\ ChanIds' = ChanIds /\ OnItsWay' = OnItsWay
  BY <1>4 DEF InboxIds, WireIds, ChanIds, OnItsWay
<1>6. \A i, j \in 1 .. Len(inbox') :
        inbox'[i].kind = "answer" /\ inbox'[j].kind = "answer" /\ inbox'[i].id = inbox'[j].id => i = j
  <2> SUFFICES ASSUME NEW i \in 1 .. Len(inbox'), NEW j \in 1 .. Len(inbox'), inbox'[i].kind = "answer",
                      inbox'[j].kind = "answer", inbox'[i].id = inbox'[j].id PROVE i = j
    OBVIOUS
  <2>1. i + 1 = j + 1
    BY <1>2 DEF Once
  <2> QED BY <1>2, <2>1
<1>7. Once' /\ Open' \subseteq Open
  BY <1>5, <1>6 DEF Once, Open
<1>8. ASSUME m.kind = "answer"
      PROVE  /\ \A n \in Received' : n.kind = "answer" => n.id # m.id
             /\ \A line \in OnItsWay : line.id # m.id
             /\ m.id \notin Open'
  <2>1. \A i \in 1 .. Len(inbox') : inbox'[i].kind = "answer" => inbox'[i].id # m.id
    BY <1>2, <1>8 DEF Once
  <2>2. \A n \in Received' : n.kind = "answer" => n.id # m.id
    BY <2>1 DEF Received
  <2>3. m.id \in InboxIds /\ m.id \in Nat
    BY <1>3, <1>4, <1>8 DEF InboxIds, Message, Answer, Notify, Ask
  <2>4. m.id \notin ChanIds \cup WireIds /\ m.id # None
    BY <2>3, StratumAssumption DEF Once
  <2>5. \A line \in OnItsWay : line.id # m.id
    BY <2>4 DEF OnItsWay, ChanIds, WireIds
  <2> QED BY <1>5, <2>2, <2>4, <2>5 DEF Open, InboxIds
<1> QED BY <1>3, <1>4, <1>5, <1>7, <1>8 DEF m

\* A line that is read without an answer is gone.
LEMMA Dropping ==
    ASSUME Once, NEW line, wire' = wire \ {line}, UNCHANGED <<chan, inbox>>
    PROVE  Once' /\ OnItsWay' \subseteq OnItsWay /\ Received' = Received /\ Open' \subseteq Open
<1>1. ChanIds' = ChanIds /\ WireIds' \subseteq WireIds /\ Received' = Received /\ InboxIds' = InboxIds
  BY DEF ChanIds, WireIds, Received, InboxIds
<1> QED BY <1>1 DEF Once, Open, OnItsWay

\* What is on its way stays as it is.
LEMMA Staying ==
    ASSUME Once, UNCHANGED <<chan, wire, inbox>>
    PROVE  Once' /\ OnItsWay' = OnItsWay /\ Received' = Received /\ Open' = Open
<1>1. ChanIds' = ChanIds /\ WireIds' = WireIds /\ Received' = Received /\ InboxIds' = InboxIds
  BY DEF ChanIds, WireIds, Received, InboxIds
<1> QED BY <1>1 DEF Once, Open, OnItsWay

-----------------------------------------------------------------------------
\* Numbers are kept.

\* A new connection has asked to be registered, with a number no note has.
LEMMA NotesStart == Init => NotesInv
<1> SUFFICES ASSUME Init PROVE NotesInv
  OBVIOUS
<1>1. Line("register", 0) \in LineType
  BY DEF Line, LineType, Kinds, Id
<1>2. TypeOK
  <2>1. PoolTypes /\ InboxTypes /\ SentTypes
    BY <1>1, StratumAssumption DEF Init, PoolTypes, InboxTypes, SentTypes, Nothing
  <2>2. LinkTypes /\ NoteTypes
    BY DEF Init, LinkTypes, NoteTypes, Id
  <2>3. InferTypes /\ ShareTypes
    BY DEF Init, InferTypes, ShareTypes, Sharer, Idle
  <2> QED BY <2>1, <2>2, <2>3 DEF TypeOK
<1>3. OnItsWay = {Line("register", 0)} /\ Received = {} /\ chan = <<>> /\ inbox = <<>> /\ wire = {Line("register", 0)}
  BY DEF Init, OnItsWay, Received
<1>4. ChanIds = {} /\ InboxIds = {} /\ WireIds = {0} /\ Open = {0}
  BY <1>3, StratumAssumption DEF ChanIds, InboxIds, WireIds, Open, Line
<1>5. Once
  BY <1>3, <1>4 DEF Once
<1>6. Expected /\ Numbered
  BY <1>3, StratumAssumption DEF Expected, ExpectedOf, Numbered, Line
<1>7. Given /\ AboutToSend
  BY <1>4 DEF Init, Given, AboutToSend, Idle
<1>8. Inference /\ Lost
  BY DEF Init, Inference, Lost
<1> QED BY <1>2, <1>5, <1>6, <1>7, <1>8 DEF NotesInv

\* Of a connection that ends no number is left.
LEMMA DownKeepsNotes == ASSUME NotesInv, Down PROVE NotesInv'
<1>1. TypeOK'
  BY DownKeepsTypes DEF NotesInv
<1>2. chan' = <<>> /\ wire' = {} /\ inbox' = <<>>
  BY DEF Down
<1>3. OnItsWay' = {} /\ Received' = {}
  BY <1>2 DEF OnItsWay, Received
<1>4. ChanIds' = {} /\ InboxIds' = {} /\ WireIds' = {} /\ Open' = {}
  BY <1>2, <1>3 DEF ChanIds, InboxIds, WireIds, Open
<1>5. Once'
  BY <1>2, <1>4 DEF Once
<1>6. Expected' /\ Numbered' /\ Given' /\ AboutToSend'
  BY <1>3, <1>4 DEF Expected, Numbered, Given, AboutToSend, Down, Idle
<1>7. Inference' /\ Lost'
  BY DEF Down, NotesInv, Inference, Lost, Idle
<1> QED BY <1>1, <1>5, <1>6, <1>7 DEF NotesInv

\* The numbers have a type.
LEMMA Numbers ==
    ASSUME TypeOK
    PROVE  /\ \A line \in OnItsWay : line \in LineType /\ line.id \in Id /\ (line.id # None => line.id \in Open)
           /\ \A m \in Received : m \in Message /\ (m.kind = "answer" => m.id \in Open /\ m.id \in Nat)
           /\ Open \subseteq Nat
<1>1. \A line \in OnItsWay : line \in LineType
  BY DEF TypeOK, PoolTypes, LinkTypes, OnItsWay
<1>2. \A line \in OnItsWay : line.id \in Id
  BY <1>1 DEF LineType
<1>3. \A line \in OnItsWay : line.id # None => line.id \in Open
  BY DEF OnItsWay, Open, ChanIds, WireIds
<1>4. \A m \in Received : m \in Message
  BY DEF TypeOK, InboxTypes, Received
<1>5. \A m \in Received : m.kind = "answer" => m.id \in Nat /\ m.id \in Open
  BY <1>4 DEF Open, InboxIds, Message, Answer, Notify, Ask
<1>6. ChanIds \subseteq Nat /\ WireIds \subseteq Nat
  BY <1>1, <1>2 DEF ChanIds, WireIds, OnItsWay, Id
<1>7. Open \subseteq Nat
  BY <1>5, <1>6 DEF Open, InboxIds
<1> QED BY <1>1, <1>2, <1>3, <1>4, <1>5, <1>7

\* The pool moves lines to answers, and says what carries no number.
LEMMA PoolKeepsNotes == ASSUME NotesInv, TypeOK', PoolStep PROVE NotesInv'
<1> USE DEF poolVars, linkVars, noteVars, inferVars
<1>0. TypeOK /\ Once
  BY DEF NotesInv
<1>1. CASE FallSilent
  <2>1. Once' /\ OnItsWay' = OnItsWay /\ Received' = Received /\ Open' = Open
    BY <1>0, <1>1, Staying DEF FallSilent
  <2> QED
    BY <1>1, <2>1 DEF FallSilent, NotesInv, Expected, ExpectedOf, Given, Numbered, AboutToSend, Inference, Lost
<1>2. ASSUME NEW line \in wire, PoolReads(line) PROVE NotesInv'
  <2>1. Once' /\ OnItsWay' \subseteq OnItsWay /\ Received' = Received /\ Open' \subseteq Open
    BY <1>0, <1>2, Dropping DEF PoolReads
  <2> QED
    BY <1>2, <2>1 DEF PoolReads, NotesInv, Expected, ExpectedOf, Given, Numbered, AboutToSend, Inference, Lost
<1>3. ASSUME NEW line \in wire, PoolAnswers(line) PROVE NotesInv'
  <2>1. PICK verdict \in {"true", "rejected", "denied"} :
          PoolSays([kind |-> "answer", to |-> line.kind, id |-> line.id, verdict |-> verdict])
    BY <1>3 DEF PoolAnswers
  <2> DEFINE m == [kind |-> "answer", to |-> line.kind, id |-> line.id, verdict |-> verdict]
  <2>2. m \in Answer /\ m.kind = "answer" /\ m.to = line.kind /\ m.id = line.id
    BY <1>0, <1>3, <2>1 DEF PoolAnswers, Answer, TypeOK, PoolTypes, LineType, Id
  <2> HIDE DEF m
  <2>3. /\ inbox' = Append(inbox, m) /\ wire' = wire \ {line} /\ chan' = chan
        /\ line.id # None /\ ~silent
    BY <1>3, <2>1 DEF PoolAnswers, PoolSays, m
  <2>4. /\ Once' /\ OnItsWay' \subseteq OnItsWay /\ line \in OnItsWay
        /\ Received' = Received \cup {m} /\ Open' = Open
    BY <1>0, <2>2, <2>3, Answering
  <2>5. Expected' /\ Numbered'
    BY <1>3, <2>2, <2>3, <2>4 DEF PoolAnswers, NotesInv, Expected, ExpectedOf, Numbered
  <2>6. Given' /\ AboutToSend' /\ Inference'
    BY <1>3, <2>4 DEF PoolAnswers, NotesInv, Given, AboutToSend, Inference
  <2>7. Lost'
    BY <1>3, <2>3 DEF PoolAnswers, NotesInv, Lost
  <2> QED BY <2>4, <2>5, <2>6, <2>7 DEF NotesInv
<1>4. ASSUME NEW m \in Message, m.kind # "answer", PoolSays(m),
             UNCHANGED <<pool, wire, silent, linkVars, noteVars, inferVars, sharer, work>>
      PROVE  NotesInv'
  <2>1. Once' /\ OnItsWay' = OnItsWay /\ Received' = Received \cup {m} /\ Open' = Open
    BY <1>0, <1>4, Saying DEF PoolSays
  <2>2. Expected' /\ Numbered'
    BY <1>4, <2>1 DEF NotesInv, Expected, ExpectedOf, Numbered
  <2>3. Given' /\ AboutToSend' /\ Inference' /\ Lost'
    BY <1>4, <2>1 DEF PoolSays, NotesInv, Given, AboutToSend, Inference, Lost
  <2> QED BY <2>1, <2>2, <2>3 DEF NotesInv
<1>5. ASSUME NEW task \in Task \cup {None}, NEW seed \in BOOLEAN, PoolNotifies(task, seed) PROVE NotesInv'
  <2> DEFINE m == [kind |-> "notify", job |-> Len(sent.tasks) + 1, task |-> task, seed |-> seed]
  <2>1. Len(sent.tasks) + 1 \in Nat
    BY <1>0 DEF TypeOK, SentTypes
  <2>2. m \in Message /\ m.kind # "answer"
    BY <2>1 DEF Message, Notify
  <2> QED BY <1>4, <1>5, <2>2 DEF PoolNotifies
<1>6. ASSUME NEW kind \in {"ai_request", "challenge"}, PoolAsks(kind) PROVE NotesInv'
  <2>1. [kind |-> kind] \in Message /\ [kind |-> kind].kind # "answer"
    BY DEF Message, Ask
  <2> QED BY <1>4, <1>6, <2>1 DEF PoolAsks
<1> QED BY <1>1, <1>2, <1>3, <1>5, <1>6 DEF PoolStep

\* A number that is noted for a new request is nobody else's.
LEMMA FreshNumber ==
    ASSUME NotesInv
    PROVE  /\ lastId + 1 \in Nat /\ 0 < lastId + 1 /\ lastId + 1 \notin pending \cup Open
           /\ lastId + 1 # ai /\ lastId + 1 # keepalive /\ lastId + 1 # None
<1>1. TypeOK /\ Open \subseteq Nat
  BY Numbers DEF NotesInv
<1> QED BY <1>1, StratumAssumption DEF NotesInv, Given, TypeOK, LinkTypes, NoteTypes, Id

\* An answer clears the note it finds and no other.
LEMMA AnswerKeepsNotes == ASSUME NotesInv, TypeOK', HandleAnswer PROVE NotesInv'
<1> DEFINE m == Head(inbox)
<1>0. CASE Down
  BY <1>0, DownKeepsNotes
<1>1. CASE ~Down
  <2>1. /\ up /\ loop = None /\ inbox # <<>> /\ m.kind = "answer" /\ inbox' = Tail(inbox)
        /\ UNCHANGED <<up, loop, chan, lastId, wire, silent, sent, sharer, work, inferVars>>
    BY <1>1 DEF HandleAnswer, Take, Ready, linkVars
  <2>2. /\ Once' /\ OnItsWay' = OnItsWay /\ Received' \subseteq Received /\ Open' \subseteq Open
        /\ m \in Received /\ m \in Message /\ m.id \notin Open'
        /\ \A line \in OnItsWay : line.id # m.id
        /\ \A n \in Received' : n.kind = "answer" => n.id # m.id
    BY <2>1, Taking DEF NotesInv
  <2>3. m.id \in Open /\ m.id \in Nat
    BY <2>1, <2>2, Numbers DEF NotesInv
  <2>4. /\ ai' = ai \/ (m.id = ai /\ ai' = None)
        /\ keepalive' = keepalive \/ (m.id = keepalive /\ keepalive' = None)
        /\ pending' \subseteq pending /\ \A x \in pending : x # m.id => x \in pending'
    BY <1>1 DEF HandleAnswer
  <2> HIDE DEF m
  <2>5. Expected' /\ Numbered'
    BY <2>2, <2>4 DEF NotesInv, Expected, ExpectedOf, Numbered
  <2>6. Given'
    <3>1. None \notin pending
      BY StratumAssumption DEF NotesInv, TypeOK, NoteTypes
    <3> QED BY <2>1, <2>2, <2>4, <3>1 DEF NotesInv, Given
  <2>7. AboutToSend'
    <3>1. sharer.at # "idle" => sharer.id # m.id
      BY <2>3 DEF NotesInv, AboutToSend
    <3> QED BY <2>1, <2>2, <2>4, <3>1 DEF NotesInv, AboutToSend
  <2>8. Inference'
    <3>1. \A t \in threads : t.kind = "ai" /\ t.at = "send" => t.id # m.id
      BY <2>1, <2>3 DEF NotesInv, Inference
    <3> QED BY <2>1, <2>2, <2>4, <3>1 DEF NotesInv, Inference, inferVars
  <2>9. Lost'
    BY <2>1 DEF Lost
  <2> QED BY <2>2, <2>5, <2>6, <2>7, <2>8, <2>9 DEF NotesInv
<1> QED BY <1>0, <1>1

\* What else listen handles has no number; it begins an inference only beside none.
LEMMA HandlersKeepNotes ==
    ASSUME NotesInv, TypeOK', HandleNotify \/ HandleAiRequest \/ HandleChallenge PROVE NotesInv'
<1>1. /\ up /\ loop = None /\ inbox # <<>> /\ inbox' = Tail(inbox)
      /\ UNCHANGED <<up, chan, lastId, wire, silent, sent, sharer, noteVars>>
  BY DEF HandleNotify, HandleAiRequest, HandleChallenge, Take, Ready, linkVars
<1>2. Once' /\ OnItsWay' = OnItsWay /\ Received' \subseteq Received /\ Open' \subseteq Open
  BY <1>1, Taking DEF NotesInv
<1>3. Expected' /\ Numbered' /\ Given'
  BY <1>1, <1>2 DEF noteVars, NotesInv, Expected, ExpectedOf, Numbered, Given
<1>4. AboutToSend'
  <2>1. loop' = None \/ loop' = Line("challenge", None)
    BY <1>1 DEF HandleNotify, HandleAiRequest, HandleChallenge, linkVars
  <2> QED BY <1>1, <1>2, <2>1 DEF noteVars, NotesInv, AboutToSend, Line
<1>5. Inference'
  <2>1. CASE UNCHANGED <<threads, busy>>
    BY <1>1, <1>2, <2>1 DEF noteVars, NotesInv, Inference
  <2>2. ASSUME NEW kind, NEW task, Start(kind, task), kind = "task" => task \in Task,
               kind = "ai" => ai = None
        PROVE  Inference'
    <3>1. threads = {}
      BY <2>2 DEF Start, NotesInv, Inference
    <3>2. threads' = {[kind |-> kind, task |-> task, at |-> "infer", id |-> 0]} /\ busy' = TRUE
      BY <2>2, <3>1 DEF Start
    <3> QED BY <1>1, <2>2, <3>2 DEF noteVars, Inference
  <2>3. CASE HandleNotify
    <3>1. CASE UNCHANGED <<threads, busy>>
      BY <2>1, <3>1
    <3>2. CASE ~UNCHANGED <<threads, busy>>
      <4>1. Head(inbox).kind = "notify" /\ Start("task", Head(inbox).task) /\ Launches(Head(inbox))
        BY <2>3, <3>2 DEF HandleNotify, inferVars
      <4>2. Head(inbox) \in Notify
        BY <1>1, <4>1, Taking DEF NotesInv, Message, Answer, Ask
      <4>3. Head(inbox).task \in Task
        BY <4>1, <4>2 DEF Launches, Notify
      <4> QED BY <2>2, <4>1, <4>3
    <3> QED BY <3>1, <3>2
  <2>4. CASE HandleAiRequest
    BY <2>1, <2>2, <2>4 DEF HandleAiRequest
  <2>5. CASE HandleChallenge
    BY <2>1, <2>2, <2>5 DEF HandleChallenge
  <2> QED BY <2>3, <2>4, <2>5
<1>6. Lost'
  BY <1>1 DEF Lost
<1> QED BY <1>2, <1>3, <1>4, <1>5, <1>6 DEF NotesInv

\* listen notes a keepalive when its line is in the channel.
LEMMA LoopKeepsNotes == ASSUME NotesInv, TypeOK', LoopSends \/ SendKeepalive PROVE NotesInv'
<1>0. TypeOK /\ Once
  BY DEF NotesInv
<1>1. CASE LoopSends
  <2>1. /\ up /\ loop # None /\ Push(loop) /\ loop' = None
        /\ keepalive' = IF loop.kind = "keepalive" THEN loop.id ELSE keepalive
        /\ UNCHANGED <<wire, inbox, silent, up, lastId, pending, ai, busy, threads, sharer, work>>
    BY <1>1 DEF LoopSends, poolVars, inferVars
  <2>2. loop \in LineType
    BY <1>0, <2>1 DEF TypeOK, LinkTypes
  <2>3. loop.id # None => loop.kind = "keepalive" /\ loop.id \notin Open /\ loop.id \in Nat /\ loop.id <= lastId
    BY <2>1 DEF NotesInv, AboutToSend
  <2>4. /\ Once' /\ OnItsWay' = OnItsWay \cup {loop} /\ Received' = Received
        /\ Open' = Open \cup ({loop.id} \ {None})
    BY <1>0, <2>1, <2>2, <2>3, Pushing
  <2>5. Expected'
    <3>1. /\ \A line \in OnItsWay : line.kind = "keepalive" => line.id = keepalive'
          /\ \A m \in Received : m.kind = "answer" /\ m.to = "keepalive" => m.id = keepalive'
      <4>1. CASE loop.kind = "keepalive"
        <5>1. keepalive = None
          BY <2>1, <4>1 DEF NotesInv, AboutToSend
        <5> QED BY <5>1, Numbers, <1>0, StratumAssumption DEF NotesInv, Expected, ExpectedOf, Numbered
      <4>2. CASE loop.kind # "keepalive"
        BY <2>1, <4>2 DEF NotesInv, Expected, ExpectedOf
      <4> QED BY <4>1, <4>2
    <3>2. loop.kind \notin {"share", "ai"} /\ (loop.kind = "keepalive" => loop.id = keepalive')
      BY <2>1 DEF NotesInv, AboutToSend
    <3> QED BY <2>1, <2>4, <3>1, <3>2 DEF NotesInv, Expected, ExpectedOf
  <2>6. Numbered' /\ Given'
    <3>1. /\ loop.kind = "challenge" <=> loop.id = None
          /\ loop.kind # "register"
      BY <2>1, StratumAssumption DEF NotesInv, AboutToSend
    <3>2. Numbered'
      BY <2>4, <3>1 DEF NotesInv, Numbered
    <3>3. Given'
      BY <2>1, <2>3, <2>4 DEF NotesInv, Given, AboutToSend
    <3> QED BY <3>2, <3>3
  <2>7. AboutToSend' /\ Inference' /\ Lost'
    <3>1. sharer.at # "idle" => sharer.id # loop.id
      <4>1. None \notin pending
        BY StratumAssumption DEF NotesInv, TypeOK, NoteTypes
      <4> QED BY <2>1, <4>1 DEF NotesInv, AboutToSend
    <3>2. \A t \in threads : t.kind = "ai" /\ t.at = "send" => t.id # loop.id
      BY <2>1, StratumAssumption DEF NotesInv, Inference, AboutToSend
    <3> QED BY <2>1, <2>4, <3>1, <3>2 DEF NotesInv, AboutToSend, Inference, Lost
  <2> QED BY <2>4, <2>5, <2>6, <2>7 DEF NotesInv
<1>2. CASE SendKeepalive
  <2>1. /\ up /\ keepalive = None /\ loop' = Line("keepalive", lastId + 1) /\ lastId' = lastId + 1
        /\ UNCHANGED <<wire, inbox, silent, up, chan, pending, keepalive, ai, busy, threads, sharer, work>>
    BY <1>2 DEF SendKeepalive, Ready, noteVars, inferVars
  <2>2. Once' /\ OnItsWay' = OnItsWay /\ Received' = Received /\ Open' = Open
    BY <1>0, <2>1, Staying
  <2>3. Expected' /\ Numbered'
    BY <2>1, <2>2 DEF NotesInv, Expected, ExpectedOf, Numbered
  <2>4. Given'
    BY <1>0, <2>1, <2>2, Numbers DEF NotesInv, Given, TypeOK, LinkTypes, NoteTypes, Id
  <2>5. AboutToSend'
    BY <2>1, <2>2, FreshNumber DEF NotesInv, AboutToSend, Line
  <2>6. Inference' /\ Lost'
    BY <2>1, <2>2 DEF NotesInv, Inference, Lost
  <2> QED BY <2>2, <2>3, <2>4, <2>5, <2>6 DEF NotesInv
<1> QED BY <1>1, <1>2

\* A share is noted when it has its number, and sent once.
LEMMA ShareKeepsNotes == ASSUME NotesInv, TypeOK', Share PROVE NotesInv'
<1>0. TypeOK /\ Once
  BY DEF NotesInv
<1>1. ASSUME NEW j \in work, TakeShare(j) PROVE NotesInv'
  <2>1. /\ up /\ sharer.at = "idle" /\ lastId' = lastId + 1 /\ pending' = pending \cup {lastId + 1}
        /\ sharer' = [at |-> "look", id |-> lastId + 1, job |-> j, cid |-> None]
        /\ UNCHANGED <<wire, inbox, silent, up, loop, chan, keepalive, ai, busy, threads, work>>
    BY <1>1 DEF TakeShare, inferVars
  <2>2. Once' /\ OnItsWay' = OnItsWay /\ Received' = Received /\ Open' = Open
    BY <1>0, <2>1, Staying
  <2>3. Expected' /\ Numbered'
    BY <2>1, <2>2 DEF NotesInv, Expected, ExpectedOf, Numbered
  <2>4. Given'
    BY <1>0, <2>1, <2>2, Numbers, FreshNumber DEF NotesInv, Given, TypeOK, LinkTypes, NoteTypes, Id
  <2>5. AboutToSend'
    <3>1. loop # None /\ loop.kind = "keepalive" => loop.id # lastId + 1 /\ loop.id <= lastId + 1
      BY <1>0, <2>1 DEF NotesInv, AboutToSend, TypeOK, LinkTypes
    <3> QED BY <2>1, <2>2, <3>1, FreshNumber DEF NotesInv, AboutToSend
  <2>6. Inference' /\ Lost'
    BY <2>1, <2>2 DEF NotesInv, Inference, Lost
  <2> QED BY <2>2, <2>3, <2>4, <2>5, <2>6 DEF NotesInv
<1>2. CASE LookUp
  <2>1. /\ up /\ sharer.at = "look" /\ sharer'.id = sharer.id
        /\ UNCHANGED <<wire, inbox, silent, up, loop, chan, lastId, noteVars, busy, threads, work>>
    BY <1>0, <1>2 DEF LookUp, poolVars, linkVars, inferVars, TypeOK, ShareTypes, Sharer
  <2>2. Once' /\ OnItsWay' = OnItsWay /\ Received' = Received /\ Open' = Open
    BY <1>0, <2>1, Staying
  <2> QED
    BY <2>1, <2>2
    DEF noteVars, NotesInv, Expected, ExpectedOf, Given, Numbered, AboutToSend, Inference, Lost
<1>3. CASE SendShare
  <2> DEFINE line == ShareLine(sharer.id, sharer.job, sharer.cid)
  <2>1. /\ up /\ sharer.at = "send" /\ Push(line) /\ sharer' = Idle
        /\ UNCHANGED <<wire, inbox, silent, up, loop, lastId, noteVars, busy, threads, work>>
    BY <1>3 DEF SendShare, poolVars, inferVars
  <2>2. line \in LineType /\ line.id = sharer.id /\ line.kind = "share" /\ sharer.id \in Nat
    BY <1>0 DEF ShareLine, LineType, Kinds, Id, TypeOK, ShareTypes, Sharer
  <2>3. sharer.id \in pending /\ sharer.id \notin Open
    BY <2>1 DEF NotesInv, AboutToSend
  <2> HIDE DEF line
  <2>4. /\ Once' /\ OnItsWay' = OnItsWay \cup {line} /\ Received' = Received
        /\ Open' = Open \cup {sharer.id}
    BY <1>0, <2>1, <2>2, <2>3, Pushing, StratumAssumption
  <2>5. Expected' /\ Numbered'
    BY <2>1, <2>2, <2>3, <2>4, StratumAssumption
    DEF noteVars, NotesInv, Expected, ExpectedOf, Numbered
  <2>6. Given'
    BY <2>1, <2>3, <2>4 DEF noteVars, NotesInv, Given
  <2>7. AboutToSend' /\ Inference' /\ Lost'
    BY <2>1, <2>3, <2>4 DEF noteVars, NotesInv, Given, AboutToSend, Inference, Lost, Idle
  <2> QED BY <2>4, <2>5, <2>6, <2>7 DEF NotesInv
<1> QED BY <1>1, <1>2, <1>3 DEF Share

\* The answer to a request is noted when it has its number, and sent once.
LEMMA InferKeepsNotes == ASSUME NotesInv, TypeOK', Infer PROVE NotesInv'
<1>0. TypeOK /\ Once
  BY DEF NotesInv
<1> SUFFICES ASSUME NEW t \in threads,
                    AnswerReady(t) \/ ChallengeReady(t) \/ TaskReady(t) \/ ThreadSends(t)
             PROVE  NotesInv'
  BY DEF Infer
<1>1. threads = {t} /\ busy /\ t \in Thread
  BY <1>0 DEF NotesInv, Inference, TypeOK, InferTypes
<1>2. ASSUME UNCHANGED <<wire, inbox, silent, up, loop, chan, lastId, noteVars, sharer, work>>,
             \/ threads' = {}
             \/ busy' /\ \E u : threads' = {u} /\ u.kind = "challenge" /\ u.at = "send" /\ u.id = None
      PROVE  NotesInv'
  <2>1. Once' /\ OnItsWay' = OnItsWay /\ Received' = Received /\ Open' = Open
    BY <1>0, <1>2, Staying
  <2>2. Inference'
    BY <1>2 DEF Inference
  <2> QED
    BY <1>2, <2>1, <2>2 DEF noteVars, NotesInv, Expected, ExpectedOf, Given, Numbered, AboutToSend, Lost
<1>3. CASE AnswerReady(t)
  <2>0. t.kind = "ai" /\ t.at = "infer" /\ ai = None /\ lastId' = lastId + 1
    BY <1>3 DEF AnswerReady, NotesInv, Inference
  <2>1. UNCHANGED <<wire, inbox, silent, up, loop, chan, pending, keepalive, sharer, work>>
    BY <1>3 DEF AnswerReady, poolVars
  <2>2. Once' /\ OnItsWay' = OnItsWay /\ Received' = Received /\ Open' = Open
    BY <1>0, <2>1, Staying
  <2>3. /\ \A line \in OnItsWay : line.kind # "ai"
        /\ \A m \in Received : m.kind = "answer" => m.to # "ai"
    BY <1>0, <2>0, Numbers, StratumAssumption DEF NotesInv, Expected, ExpectedOf, Numbered
  <2>4. ai' = lastId + 1 \/ ai' = None
    BY <1>3, <2>0 DEF AnswerReady
  <2>5. Expected' /\ Numbered'
    BY <2>1, <2>2, <2>3 DEF NotesInv, Expected, ExpectedOf, Numbered
  <2>6. Given'
    BY <1>0, <2>0, <2>1, <2>2, <2>4, Numbers, FreshNumber
    DEF NotesInv, Given, TypeOK, LinkTypes, NoteTypes, Id
  <2>7. AboutToSend'
    <3>1. loop # None /\ loop.kind = "keepalive" =>
            loop.id # ai' /\ loop.id <= lastId' /\ loop.id \in Nat
      BY <1>0, <2>0, <2>4, StratumAssumption DEF NotesInv, AboutToSend, TypeOK, LinkTypes
    <3> QED BY <2>1, <2>2, <3>1 DEF NotesInv, AboutToSend
  <2>8. Inference' /\ Lost'
    <3>1. CASE up /\ ai' = lastId + 1 /\ threads' = {[t EXCEPT !.at = "send", !.id = lastId + 1]} /\ busy' = busy
      <4> DEFINE u == [t EXCEPT !.at = "send", !.id = lastId + 1]
      <4>1. u.kind = "ai" /\ u.at = "send" /\ u.id = lastId + 1
        BY <1>1, <2>0 DEF Thread
      <4> HIDE DEF u
      <4>2. threads' = {u}
        BY <3>1 DEF u
      <4>3. Inference'
        BY <1>1, <2>2, <3>1, <4>1, <4>2, FreshNumber DEF Inference
      <4> QED BY <2>1, <3>1, <4>3 DEF Lost
    <3>2. CASE threads' = {} /\ ai' = ai
      BY <2>0, <2>1, <3>2 DEF NotesInv, Inference, Lost
    <3> QED BY <1>1, <1>3, <3>1, <3>2 DEF AnswerReady, Becomes, Ends
  <2> QED BY <2>2, <2>5, <2>6, <2>7, <2>8 DEF NotesInv
<1>4. CASE ChallengeReady(t)
  <2> DEFINE u == [t EXCEPT !.at = "send", !.id = None]
  <2>1. u.kind = "challenge" /\ u.at = "send" /\ u.id = None
    BY <1>1, <1>4 DEF ChallengeReady, Thread
  <2> HIDE DEF u
  <2>2. threads' = {u}
    BY <1>1, <1>4 DEF ChallengeReady, Becomes, u
  <2> QED BY <1>1, <1>2, <1>4, <2>1, <2>2 DEF ChallengeReady, poolVars, linkVars
<1>5. CASE TaskReady(t)
  BY <1>1, <1>2, <1>5 DEF TaskReady, Ends, Becomes, poolVars, linkVars
<1>6. CASE ThreadSends(t)
  <2>0. t.at = "send" /\ t.kind \in {"ai", "challenge"} /\ threads' = {}
    BY <1>1, <1>6 DEF ThreadSends, Ends, Becomes, NotesInv, Inference, Thread
  <2>1. CASE up
    <3> DEFINE line == Line(t.kind, t.id)
    <3>1. Push(line) /\ UNCHANGED <<wire, inbox, silent, up, loop, lastId, noteVars, sharer, work>>
      BY <1>6, <2>1 DEF ThreadSends, poolVars, noteVars
    <3>2. /\ t.kind = "ai" => t.id \in Nat /\ t.id = ai /\ t.id \notin Open
          /\ t.kind = "challenge" => t.id = None
      BY <2>0, <2>1 DEF NotesInv, Inference
    <3>3. line \in LineType /\ line.id = t.id /\ line.kind = t.kind
      BY <1>1, <2>0 DEF Line, LineType, Kinds, Thread, Id
    <3> HIDE DEF line
    <3>4. /\ Once' /\ OnItsWay' = OnItsWay \cup {line} /\ Received' = Received
          /\ Open' = Open \cup ({t.id} \ {None})
      BY <1>0, <2>0, <3>1, <3>2, <3>3, Pushing
    <3>5. Expected' /\ Numbered'
      BY <2>0, <3>1, <3>2, <3>3, <3>4, StratumAssumption
      DEF noteVars, NotesInv, Expected, ExpectedOf, Numbered
    <3>6. Given'
      BY <2>0, <3>1, <3>2, <3>4 DEF noteVars, NotesInv, Given
    <3>7. AboutToSend'
      <4>1. sharer.at # "idle" => sharer.id \notin {t.id} \ {None}
        BY <2>0, <3>2 DEF NotesInv, Given, AboutToSend
      <4>2. loop # None /\ loop.kind = "keepalive" => loop.id \notin {t.id} \ {None}
        BY <2>0, <3>2 DEF NotesInv, AboutToSend
      <4> QED BY <3>1, <3>4, <4>1, <4>2 DEF noteVars, NotesInv, AboutToSend
    <3>8. Inference' /\ Lost'
      BY <2>0, <2>1, <3>1 DEF Inference, Lost
    <3> QED BY <3>4, <3>5, <3>6, <3>7, <3>8 DEF NotesInv
  <2>2. CASE ~up
    <3>1. ai' = None /\ ai = None
      BY <1>6, <2>0, <2>2 DEF ThreadSends, NotesInv, Lost
    <3> QED BY <1>2, <1>6, <2>0, <2>2, <3>1 DEF ThreadSends, poolVars, noteVars
  <2> QED BY <2>1, <2>2
<1> QED BY <1>3, <1>4, <1>5, <1>6

\* The numbers of what is asked are kept by every step.
LEMMA NotesKeep == ASSUME NotesInv, [Next]_vars PROVE NotesInv'
<1>0. TypeOK /\ Once /\ TypeOK'
  BY TypesKeep DEF NotesInv
<1>1. CASE UNCHANGED vars
  <2>1. Once' /\ OnItsWay' = OnItsWay /\ Received' = Received /\ Open' = Open
    BY <1>0, <1>1, Staying DEF vars, poolVars, linkVars
  <2> QED
    BY <1>0, <1>1, <2>1
    DEF vars, poolVars, linkVars, noteVars, inferVars, NotesInv, Expected, ExpectedOf, Given, Numbered,
        AboutToSend, Inference, Lost
<1>2. CASE Write
  <2>1. Once' /\ OnItsWay' = OnItsWay /\ Received' = Received /\ Open' = Open
    BY <1>0, <1>2, Writing DEF Write
  <2> QED
    BY <1>0, <1>2, <2>1
    DEF Write, noteVars, inferVars, NotesInv, Expected, ExpectedOf, Given, Numbered, AboutToSend, Inference, Lost
<1>3. CASE Lose \/ Late
  BY <1>3, DownKeepsNotes DEF Lose, Late
<1> QED
  BY <1>0, <1>1, <1>2, <1>3, AnswerKeepsNotes, HandlersKeepNotes, LoopKeepsNotes, ShareKeepsNotes,
     InferKeepsNotes, PoolKeepsNotes
  DEF Next, Listen

\* Nothing is paired with a job before the pool sends one.
LEMMA JobsStart == Init => JobsInv
<1>1. Init => OnItsWay = {Line("register", 0)} /\ Received = {} /\ loop = None
  BY DEF Init, OnItsWay, Received
<1>2. Init => slot = None /\ sharer.cid = None
  BY DEF Init, Idle
<1>3. Line("register", 0).cid = None
  BY DEF Line
<1> QED BY <1>1, <1>2, <1>3 DEF JobsInv

\* What was paired with a job stays paired with it while tasks come after it.
LEMMA TasksGrow ==
    ASSUME TypeOK, NEW task \in Task \cup {None}, sent' = [sent EXCEPT !.tasks = Append(@, task)]
    PROVE  /\ \A x, j : IsOfJob(x, j) => j \in 1 .. Len(sent'.tasks) /\ x = sent'.tasks[j]
           /\ Len(sent.tasks) + 1 \in 1 .. Len(sent'.tasks) /\ task = sent'.tasks[Len(sent.tasks) + 1]
<1>1. sent.tasks \in Seq(Task \cup {None}) /\ sent'.tasks = Append(sent.tasks, task)
  BY DEF TypeOK, SentTypes
<1>2. /\ Len(sent.tasks) \in Nat /\ Len(sent'.tasks) = Len(sent.tasks) + 1
      /\ \A i \in 1 .. Len(sent.tasks) : sent'.tasks[i] = sent.tasks[i]
      /\ sent'.tasks[Len(sent.tasks) + 1] = task
  BY <1>1, AppendIs
<1>3. 1 .. Len(sent'.tasks) = 1 .. Len(sent.tasks) \cup {Len(sent.tasks) + 1}
  BY <1>2
<1> QED BY <1>2, <1>3 DEF IsOfJob

\* Every step keeps the pairs.
LEMMA JobsKeep == ASSUME NotesInv, JobsInv, [Next]_vars PROVE JobsInv'
<1> USE DEF poolVars, linkVars, noteVars, inferVars
<1>0. TypeOK /\ Once
  BY DEF NotesInv
<1>1. ASSUME OnItsWay' \subseteq OnItsWay, Received' \subseteq Received, sent'.tasks = sent.tasks,
             slot' = slot \/ slot' = None, UNCHANGED sharer, loop' = None \/ loop' = loop \/ loop'.cid = None
      PROVE  JobsInv'
  BY <1>1 DEF JobsInv, IsOfJob
<1>2. CASE Down
  <2>1. OnItsWay' = {} /\ Received' = {} /\ slot' = None /\ loop' = None /\ sharer'.cid = None
    BY <1>2 DEF Down, OnItsWay, Received, Idle
  <2> QED BY <2>1 DEF JobsInv
<1>3. CASE UNCHANGED vars
  BY <1>0, <1>1, <1>3, Staying DEF vars
<1>4. CASE HandleAnswer /\ ~Down
  BY <1>0, <1>1, <1>4, Taking DEF HandleAnswer, Take
<1>5. CASE HandleAiRequest \/ HandleChallenge
  <2>1. loop' = loop \/ loop'.cid = None
    BY <1>5 DEF HandleAiRequest, HandleChallenge, Line
  <2> QED BY <1>0, <1>1, <1>5, <2>1, Taking DEF HandleAiRequest, HandleChallenge, Take
<1>6. CASE HandleNotify
  <2> DEFINE m == Head(inbox)
  <2>1. /\ OnItsWay' = OnItsWay /\ Received' \subseteq Received /\ m \in Received /\ m.kind = "notify"
        /\ UNCHANGED <<sent, sharer, loop>>
    BY <1>0, <1>6, Taking DEF HandleNotify, Take
  <2>2. slot' = slot \/ slot' = None \/ slot' = [job |-> m.job, task |-> m.task]
    BY <1>6 DEF HandleNotify
  <2>3. IsOfJob(m.task, m.job)
    BY <2>1 DEF JobsInv
  <2> HIDE DEF m
  <2> QED BY <2>1, <2>2, <2>3 DEF JobsInv, IsOfJob
<1>7. CASE LoopSends
  <2>1. loop \in LineType /\ loop.cid = None /\ (loop.id # None => loop.id \notin Open)
    BY <1>0, <1>7 DEF LoopSends, TypeOK, LinkTypes, JobsInv, NotesInv, AboutToSend
  <2>2. OnItsWay' = OnItsWay \cup {loop} /\ Received' = Received
    BY <1>0, <1>7, <2>1, Pushing DEF LoopSends
  <2> QED BY <1>7, <2>1, <2>2 DEF LoopSends, JobsInv, IsOfJob
<1>8. CASE SendKeepalive
  <2>1. sent'.tasks = sent.tasks /\ loop'.cid = None
    BY <1>0, <1>8 DEF SendKeepalive, Line, TypeOK, SentTypes
  <2> QED BY <1>0, <1>1, <1>8, <2>1, Staying DEF SendKeepalive
<1>9. ASSUME NEW j \in work, TakeShare(j) PROVE JobsInv'
  <2>1. sent'.tasks = sent.tasks /\ sharer'.cid = None
    BY <1>0, <1>9 DEF TakeShare, TypeOK, SentTypes
  <2>2. OnItsWay' = OnItsWay /\ Received' = Received /\ UNCHANGED <<slot, loop>>
    BY <1>0, <1>9, Staying DEF TakeShare
  <2> QED BY <2>1, <2>2 DEF JobsInv, IsOfJob
<1>10. CASE LookUp
  <2>1. sharer'.job = sharer.job /\ sharer'.cid = Cid(sharer.job)
    BY <1>0, <1>10 DEF LookUp, TypeOK, ShareTypes, Sharer
  <2>2. Cid(sharer.job) # None => IsOfJob(Cid(sharer.job), sharer.job)
    BY DEF Cid, JobsInv
  <2>3. OnItsWay' = OnItsWay /\ Received' = Received /\ UNCHANGED <<slot, loop, sent>>
    BY <1>0, <1>10, Staying DEF LookUp
  <2> QED BY <2>1, <2>2, <2>3 DEF JobsInv, IsOfJob
<1>11. CASE SendShare
  <2> DEFINE line == ShareLine(sharer.id, sharer.job, sharer.cid)
  <2>1. line \in LineType /\ line.id = sharer.id /\ line.cid = sharer.cid /\ line.job = sharer.job
    BY <1>0 DEF ShareLine, LineType, Kinds, Id, TypeOK, ShareTypes, Sharer
  <2>2. line.id \notin Open
    BY <1>11, <2>1 DEF SendShare, NotesInv, AboutToSend
  <2>3. Push(line) /\ UNCHANGED <<wire, inbox, slot, loop, sent>> /\ sharer'.cid = None
    BY <1>11 DEF SendShare, Idle
  <2> HIDE DEF line
  <2>4. OnItsWay' = OnItsWay \cup {line} /\ Received' = Received
    BY <1>0, <2>1, <2>2, <2>3, Pushing
  <2> QED BY <2>1, <2>3, <2>4 DEF JobsInv, IsOfJob
<1>12. ASSUME NEW t \in threads, AnswerReady(t) \/ ChallengeReady(t) \/ TaskReady(t) PROVE JobsInv'
  BY <1>0, <1>1, <1>12, Staying DEF AnswerReady, ChallengeReady, TaskReady
<1>13. ASSUME NEW t \in threads, ThreadSends(t) PROVE JobsInv'
  <2> DEFINE line == Line(t.kind, t.id)
  <2>1. CASE Push(line) /\ up
    <3>1. /\ t.kind \in {"ai", "challenge"} /\ t \in Thread /\ t.at = "send"
          /\ t.id # None => t.id \notin Open
      BY <1>0, <1>13, <2>1 DEF ThreadSends, TypeOK, InferTypes, NotesInv, Inference, Thread
    <3>2. line \in LineType /\ line.id = t.id /\ line.cid = None
      BY <3>1 DEF Line, LineType, Kinds, Thread
    <3>3. UNCHANGED <<wire, inbox, slot, loop, sent, sharer>>
      BY <1>13 DEF ThreadSends
    <3> HIDE DEF line
    <3>4. OnItsWay' = OnItsWay \cup {line} /\ Received' = Received
      BY <1>0, <2>1, <3>1, <3>2, <3>3, Pushing
    <3> QED BY <3>2, <3>3, <3>4 DEF JobsInv, IsOfJob
  <2>2. CASE chan' = chan
    BY <1>0, <1>1, <1>13, <2>2, Staying DEF ThreadSends
  <2> QED BY <1>13, <2>1, <2>2 DEF ThreadSends
<1>14. CASE Write
  BY <1>0, <1>1, <1>14, Writing DEF Write
<1>15. CASE FallSilent
  BY <1>0, <1>1, <1>15, Staying DEF FallSilent
<1>16. ASSUME NEW line \in wire, PoolReads(line) PROVE JobsInv'
  BY <1>0, <1>1, <1>16, Dropping DEF PoolReads
<1>17. ASSUME NEW line \in wire, PoolAnswers(line) PROVE JobsInv'
  <2>1. PICK verdict \in {"true", "rejected", "denied"} :
          PoolSays([kind |-> "answer", to |-> line.kind, id |-> line.id, verdict |-> verdict])
    BY <1>17 DEF PoolAnswers
  <2> DEFINE m == [kind |-> "answer", to |-> line.kind, id |-> line.id, verdict |-> verdict]
  <2>2. m \in Answer /\ m.kind = "answer" /\ m.id = line.id
    BY <1>0, <1>17, <2>1 DEF PoolAnswers, Answer, TypeOK, PoolTypes, LineType, Id
  <2> HIDE DEF m
  <2>3. inbox' = Append(inbox, m) /\ wire' = wire \ {line} /\ chan' = chan /\ line.id # None
    BY <1>17, <2>1 DEF PoolAnswers, PoolSays, m
  <2>4. OnItsWay' \subseteq OnItsWay /\ Received' = Received \cup {m}
    BY <1>0, <2>2, <2>3, Answering
  <2> QED BY <1>17, <2>2, <2>4 DEF PoolAnswers, JobsInv, IsOfJob
<1>18. ASSUME NEW task \in Task \cup {None}, NEW seed \in BOOLEAN, PoolNotifies(task, seed) PROVE JobsInv'
  <2> DEFINE m == [kind |-> "notify", job |-> Len(sent.tasks) + 1, task |-> task, seed |-> seed]
  <2>1. Len(sent.tasks) + 1 \in Nat
    BY <1>0 DEF TypeOK, SentTypes
  <2>2. m \in Message /\ m.kind = "notify" /\ m.task = task /\ m.job = Len(sent.tasks) + 1
    BY <2>1 DEF Message, Notify
  <2>3. inbox' = Append(inbox, m) /\ UNCHANGED <<wire, chan, loop, slot, sharer>>
        /\ sent' = [sent EXCEPT !.tasks = Append(@, task)]
    BY <1>18 DEF PoolNotifies, PoolSays
  <2> HIDE DEF m
  <2>4. OnItsWay' = OnItsWay /\ Received' = Received \cup {m}
    BY <1>0, <2>2, <2>3, Saying
  <2>5. \A x, j : IsOfJob(x, j) => j \in 1 .. Len(sent'.tasks) /\ x = sent'.tasks[j]
    BY <1>0, <2>3, TasksGrow
  <2>6. m.job \in 1 .. Len(sent'.tasks) /\ m.task = sent'.tasks[m.job]
    BY <1>0, <2>2, <2>3, TasksGrow
  <2> QED BY <2>2, <2>3, <2>4, <2>5, <2>6 DEF JobsInv, IsOfJob
<1>19. ASSUME NEW kind \in {"ai_request", "challenge"}, PoolAsks(kind) PROVE JobsInv'
  <2>1. [kind |-> kind] \in Message /\ [kind |-> kind].kind \notin {"answer", "notify"}
    BY DEF Message, Ask
  <2>2. OnItsWay' = OnItsWay /\ Received' = Received \cup {[kind |-> kind]}
    BY <1>0, <1>19, <2>1, Saying DEF PoolAsks, PoolSays
  <2>3. sent'.tasks = sent.tasks
    BY <1>0, <1>19 DEF PoolAsks, TypeOK, SentTypes
  <2> QED BY <1>19, <2>1, <2>2, <2>3 DEF PoolAsks, JobsInv, IsOfJob
<1> QED
  BY <1>2, <1>3, <1>4, <1>5, <1>6, <1>7, <1>8, <1>9, <1>10, <1>11, <1>12, <1>13, <1>14, <1>15,
     <1>16, <1>17, <1>18, <1>19
  DEF Next, Listen, Share, Infer, PoolStep, Late, Lose

-----------------------------------------------------------------------------
\* The invariant as it is stated, from its set of lines.
LEMMA ExpectedAnswers == Expected => AnswersAreExpected
  BY DEF Expected, ExpectedOf, AnswersAreExpected, Received

\* A set of one thread at most has one element at most.
LEMMA OneThread == Inference => OneInference
<1>1. ASSUME Inference PROVE Cardinality(threads) <= 1
  <2>1. threads = {} \/ \E t : threads = {t}
    BY <1>1 DEF Inference
  <2>2. CASE threads = {}
    BY <2>2, FS_EmptySet
  <2>3. ASSUME NEW t, threads = {t} PROVE Cardinality(threads) <= 1
    <3>1. Cardinality({t}) = 1
      BY FS_Singleton
    <3> QED BY <2>3, <3>1
  <2> QED BY <2>1, <2>2, <2>3
<1> QED BY <1>1 DEF Inference, OneInference

\* One connection of the pool client keeps its types.
THEOREM StratumTypes == Spec => []TypeOK
<1>1. NotesInv => TypeOK
  BY DEF NotesInv
<1> QED BY <1>1, NotesStart, NotesKeep, PTL DEF Spec

\* What the pool will answer is known when the answer comes, and one inference is
\* under way: handle_message finds the share, the response or the keepalive that
\* is answered, however answers, jobs, timers and the inference threads interleave.
THEOREM RequestsStayKept == Spec => []RequestsAreKept
<1>1. NotesInv => RequestsAreKept
  BY ExpectedAnswers, OneThread DEF NotesInv, RequestsAreKept
<1> QED BY <1>1, NotesStart, NotesKeep, PTL DEF Spec

\* A share carries the CID of the task of its own job: current_task_slot is compared
\* with the job of the share, and both were paired by the pool.
THEOREM CidStaysOfItsJob == Spec => []CidIsOfItsJob
<1>1. JobsInv => CidIsOfItsJob
  BY DEF JobsInv, CidIsOfItsJob, IsOfJob
<1>2. Init => NotesInv /\ JobsInv
  BY NotesStart, JobsStart
<1>3. NotesInv /\ JobsInv /\ [Next]_vars => (NotesInv /\ JobsInv)'
  BY NotesKeep, JobsKeep
<1> QED BY <1>1, <1>2, <1>3, PTL DEF Spec

=============================================================================
