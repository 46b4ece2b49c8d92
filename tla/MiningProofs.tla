----------------------------- MODULE MiningProofs -----------------------------
(***************************************************************************)
(* The channel of src/watch.rs keeps its promises for any receivers,       *)
(* values and number of replacements: no update hides behind a number that *)
(* was already noted, and no receiver sleeps past an update it will not be *)
(* notified of.  On top of it the workers of src/miner.rs, over any number *)
(* of connections, never grind a job that a newer one has replaced once    *)
(* they have noted the newer one's number.                                 *)
(***************************************************************************)
EXTENDS Mining, TLAPS

\* Nobody has noted a number before it was given.
NotedWasGiven == \A r \in Receiver : recv[r].last <= id

\* The inductive invariant: its parts are preserved together.
ChannelInv == ChannelTypeOK /\ NotedWasGiven /\ SeenIsCurrent /\ NoLostWakeUp

\* A new channel satisfies it: no receiver has noted the first number.
LEMMA ChannelStarts == ChannelInit => ChannelInv
  BY ChannelAssumption DEF ChannelInit, ChannelInv, ChannelTypeOK, NotedWasGiven,
     SeenIsCurrent, NoLostWakeUp, Changed, ReceiverState

\* Replacing the value gives a number nobody has noted, so nobody is taken to have
\* seen the new value; who waits is owed the notification.
LEMMA ReplaceKeeps ==
    ASSUME ChannelInv, NEW v \in Value, ReplaceValue(v) PROVE ChannelInv'
<1> USE DEF ChannelInv, ChannelTypeOK, NotedWasGiven, ReceiverState
<1>1. ChannelTypeOK' /\ NotedWasGiven'
  BY DEF ReplaceValue
<1>2. \A r \in Receiver : recv[r].last # id'
  BY DEF ReplaceValue
<1>3. SeenIsCurrent'
  BY <1>2 DEF ReplaceValue, SeenIsCurrent, Changed
<1>4. NoLostWakeUp'
  BY DEF ReplaceValue, NoLostWakeUp
<1> QED BY <1>1, <1>3, <1>4

\* The notification leaves nobody waiting.
LEMMA WakeUpKeeps ==
    ASSUME ChannelInv, WakeUpThreads PROVE ChannelInv'
<1> USE DEF ChannelInv, ChannelTypeOK, NotedWasGiven, ReceiverState, WakeUpThreads
<1>1. ChannelTypeOK' /\ NotedWasGiven'
  OBVIOUS
<1>2. SeenIsCurrent'
  BY DEF SeenIsCurrent, Changed
<1>3. NoLostWakeUp'
  BY DEF NoLostWakeUp
<1> QED BY <1>1, <1>2, <1>3

\* A receiver that notes the number is about to clone, and one that begins to wait
\* has just seen that nothing changed.
LEMMA ReceiverKeeps ==
    ASSUME ChannelInv, NEW s \in Receiver, ReceiverStep(s) PROVE ChannelInv'
<1> USE DEF ChannelInv, ChannelTypeOK, NotedWasGiven, ReceiverState
<1>1. ASSUME recv' = Observed(s), UNCHANGED <<value, id, sender>> PROVE ChannelInv'
  <2> DEFINE now == [recv[s] EXCEPT !.at = "clone", !.last = id]
  <2>0. now \in ReceiverState /\ now.last = id
    OBVIOUS
  <2> HIDE DEF now
  <2>1. recv' = [recv EXCEPT ![s] = now]
    BY <1>1 DEF Observed, now
  <2>3. ChannelTypeOK'
    BY <1>1, <2>0, <2>1
  <2>4. NotedWasGiven'
    BY <1>1, <2>0, <2>1
  <2>2. SeenIsCurrent' /\ NoLostWakeUp'
    BY <1>1 DEF Observed, SeenIsCurrent, NoLostWakeUp, Changed
  <2> QED BY <2>2, <2>3, <2>4
<1>2. ASSUME NEW at \in {"lock", "wait"}, recv[s].at \in {"out", "lock"}, ~Changed(s),
             recv' = [recv EXCEPT ![s].at = at], UNCHANGED <<value, id, sender>>
      PROVE  ChannelInv'
  <2>1. ChannelTypeOK' /\ NotedWasGiven'
    BY <1>2
  <2>2. SeenIsCurrent' /\ NoLostWakeUp'
    BY <1>2 DEF SeenIsCurrent, NoLostWakeUp, Changed
  <2> QED BY <2>1, <2>2
<1>3. CASE CloneValue(s)
  <2>1. ChannelTypeOK' /\ NotedWasGiven'
    BY <1>3 DEF CloneValue
  <2>2. SeenIsCurrent' /\ NoLostWakeUp'
    BY <1>3 DEF CloneValue, SeenIsCurrent, NoLostWakeUp, Changed
  <2> QED BY <2>1, <2>2
<1>4. CASE GetChanged(s)
  BY <1>1, <1>4 DEF GetChanged
<1>5. CASE WaitForChange(s)
  BY <1>1, <1>2, <1>5 DEF WaitForChange
<1>6. CASE Recheck(s)
  BY <1>1, <1>2, <1>6 DEF Recheck
<1>7. CASE Resume(s)
  BY <1>1, <1>7 DEF Resume
<1> QED BY <1>3, <1>4, <1>5, <1>6, <1>7 DEF ReceiverStep

\* The promises hold of the channel: what src/watch.rs says of replace_value ("a
\* reader can't observe a new value with an old ID") and of wake_up_threads.
THEOREM ChannelKeepsItsPromises == ChannelSpec => []ChannelInv
<1>1. ChannelInv /\ [ChannelNext]_channelVars => ChannelInv'
  <2>1. ASSUME ChannelInv, UNCHANGED channelVars PROVE ChannelInv'
    BY <2>1 DEF channelVars, ChannelInv, ChannelTypeOK, NotedWasGiven, SeenIsCurrent,
       NoLostWakeUp, Changed
  <2> QED BY <2>1, ReplaceKeeps, WakeUpKeeps, ReceiverKeeps DEF ChannelNext
<1> QED BY <1>1, ChannelStarts, PTL DEF ChannelSpec

\* A receiver that has noted the number of the present value has that value.
THEOREM SeenValueIsCurrent == ChannelSpec => []SeenIsCurrent
<1>1. ChannelInv => SeenIsCurrent
  BY DEF ChannelInv
<1> QED BY <1>1, ChannelKeepsItsPromises, PTL

-----------------------------------------------------------------------------
\* The workers.

\* Types.
Places == {"top", "receive", "poll", "submit", "hung", "blind", "ended"}

WorkersOK == thr \in [Worker -> [pc : Places, job : Value]]

\* A worker grinds what it was told last, or nothing once it has won it.
JobIsSeen ==
    \A w \in Worker : \/ thr[w].pc = "ended"
                      \/ thr[w].job = recv[w].seen
                      \/ rig.solo /\ thr[w].job = None

\* The rig bounds the jobs, so that a job's number is a value of the channel.
RigOK == rig \in Rig /\ jobs \in Nat

\* The inductive invariant.
MiningInv == ChannelInv /\ WorkersOK /\ JobIsSeen /\ RigOK

\* It holds of the first connection.
LEMMA MiningStarts == Init => MiningInv
<1> SUFFICES ASSUME Init PROVE MiningInv
  OBVIOUS
<1>1. ChannelInv
  BY ChannelStarts DEF Init
<1>2. None \in Value /\ FirstValue = None /\ Receiver = Worker
  BY MiningAssumption
<1>3. WorkersOK
  BY <1>2 DEF Init, WorkersOK, Fresh, Places
<1>4. JobIsSeen
  BY <1>2 DEF Init, JobIsSeen, Fresh, ChannelInit
<1>5. RigOK
  BY MiningAssumption DEF Init, RigOK
<1> QED BY <1>1, <1>3, <1>4, <1>5 DEF MiningInv

\* The channel does not change, or the sender moves: what a worker has seen stays.
LEMMA SenderKeeps ==
    ASSUME MiningInv, UNCHANGED <<rig, thr>>, jobs' \in Nat,
           \/ UNCHANGED channelVars
           \/ WakeUpThreads
           \/ \E v \in Value : ReplaceValue(v)
    PROVE  MiningInv'
<1>1. ChannelInv'
  <2>1. CASE UNCHANGED channelVars
    BY <2>1 DEF MiningInv, channelVars, ChannelInv, ChannelTypeOK, NotedWasGiven, SeenIsCurrent,
       NoLostWakeUp, Changed
  <2> QED BY <2>1, ReplaceKeeps, WakeUpKeeps DEF MiningInv
<1>2. \A w \in Worker : recv'[w].seen = recv[w].seen
  <2>1. recv \in [Worker -> ReceiverState]
    BY MiningAssumption DEF MiningInv, ChannelInv, ChannelTypeOK
  <2>2. CASE WakeUpThreads
    BY <2>1, <2>2, MiningAssumption DEF WakeUpThreads, ReceiverState
  <2>3. CASE recv' = recv
    BY <2>3
  <2> QED BY <2>2, <2>3 DEF channelVars, ReplaceValue
<1>3. WorkersOK' /\ JobIsSeen' /\ RigOK'
  BY <1>2 DEF MiningInv, WorkersOK, JobIsSeen, RigOK
<1> QED BY <1>1, <1>3 DEF MiningInv

\* A worker moves and looks for a new job, or does not; its job stays, or it has
\* won it.
LEMMA WorkerKeeps ==
    ASSUME MiningInv, NEW w \in Worker, UNCHANGED <<rig, jobs>>,
           NEW pc \in Places, NEW job \in Value, thr' = [thr EXCEPT ![w] = [pc |-> pc, job |-> job]],
           job = thr[w].job \/ (rig.solo /\ job = None),
           thr[w].pc # "ended",
           UNCHANGED channelVars \/ (ReceiverStep(w) /\ recv'[w].seen = recv[w].seen)
    PROVE  MiningInv'
<1>1. recv \in [Worker -> ReceiverState] /\ Receiver = Worker
  BY MiningAssumption DEF MiningInv, ChannelInv, ChannelTypeOK
<1>2. ChannelInv'
  <2>1. CASE UNCHANGED channelVars
    BY <2>1 DEF MiningInv, channelVars, ChannelInv, ChannelTypeOK, NotedWasGiven, SeenIsCurrent,
       NoLostWakeUp, Changed
  <2>2. CASE ReceiverStep(w)
    BY <1>1, <2>2, ReceiverKeeps DEF MiningInv
  <2> QED BY <2>1, <2>2
<1>3. \A r \in Worker : recv'[r].seen = recv[r].seen
  <2>1. CASE UNCHANGED channelVars
    BY <2>1 DEF channelVars
  <2>2. CASE ReceiverStep(w) /\ recv'[w].seen = recv[w].seen
    <3>1. \A r \in Worker \ {w} : recv'[r] = recv[r]
      BY <1>1, <2>2 DEF ReceiverStep, GetChanged, WaitForChange, Recheck, Resume, CloneValue, Observed
    <3> QED BY <2>2, <3>1
  <2> QED BY <2>1, <2>2
<1>4. WorkersOK'
  BY DEF MiningInv, WorkersOK
<1>5. JobIsSeen'
  BY <1>3 DEF MiningInv, WorkersOK, JobIsSeen
<1>6. RigOK'
  BY DEF MiningInv, RigOK
<1> QED BY <1>2, <1>4, <1>5, <1>6 DEF MiningInv

\* Told a new value, a worker takes it for its job, or ends.
LEMMA ReceiveKeeps ==
    ASSUME MiningInv, NEW w \in Worker, Receive(w) PROVE MiningInv'
<1>1. recv \in [Worker -> ReceiverState] /\ thr \in [Worker -> [pc : Places, job : Value]] /\ value \in Value
  BY MiningAssumption DEF MiningInv, ChannelInv, ChannelTypeOK, WorkersOK
<1>2. ReceiverStep(w) /\ recv' = [recv EXCEPT ![w].at = "out", ![w].seen = value] /\ UNCHANGED <<rig, jobs>>
  BY DEF Receive, CloneValue, ReceiverStep
<1>3. ChannelInv'
  BY <1>2, ReceiverKeeps, MiningAssumption DEF MiningInv
<1>4. \/ thr' = [thr EXCEPT ![w] = [@ EXCEPT !.pc = "ended"]]
      \/ thr' = [thr EXCEPT ![w] = [@ EXCEPT !.pc = "top", !.job = value]]
  BY DEF Receive
<1>5. WorkersOK'
  BY <1>1, <1>4 DEF WorkersOK, Places
<1>6. \A r \in Worker \ {w} : recv'[r] = recv[r] /\ thr'[r] = thr[r]
  BY <1>1, <1>2, <1>4
<1>7. thr'[w].pc = "ended" \/ thr'[w].job = recv'[w].seen
  <2>1. recv'[w].seen = value
    BY <1>1, <1>2 DEF ReceiverState
  <2>2. thr'[w].pc = "ended" \/ thr'[w].job = value
    BY <1>1, <1>4
  <2> QED BY <2>1, <2>2
<1>8. JobIsSeen'
  BY <1>2, <1>6, <1>7 DEF MiningInv, JobIsSeen
<1> QED BY <1>2, <1>3, <1>5, <1>8 DEF MiningInv, RigOK

\* A new connection begins with a channel nobody has read.
LEMMA ReconnectKeeps ==
    ASSUME MiningInv, Reconnect PROVE MiningInv'
<1>1. None \in Value /\ FirstValue = None /\ Receiver = Worker
  BY MiningAssumption
<1>2. ChannelInv'
  BY <1>1 DEF Reconnect, ChannelInv, ChannelTypeOK, NotedWasGiven, SeenIsCurrent, NoLostWakeUp,
     Changed, ReceiverState
<1>3. WorkersOK'
  BY <1>1 DEF Reconnect, WorkersOK, Fresh, Places
<1>4. JobIsSeen'
  BY <1>1 DEF Reconnect, JobIsSeen, Fresh
<1>5. RigOK'
  BY DEF Reconnect, MiningInv, RigOK
<1> QED BY <1>2, <1>3, <1>4, <1>5 DEF MiningInv

\* Whatever a worker does, in each era, and when it is stopped.
LEMMA WorkerStepKeeps ==
    ASSUME MiningInv, NEW w \in Worker, WorkerStep(w) \/ Recover(w) \/ Freeze(w) PROVE MiningInv'
<1> DEFINE job == thr[w].job
<1>0. /\ thr \in [Worker -> [pc : Places, job : Value]] /\ recv \in [Worker -> ReceiverState]
      /\ job \in Value /\ None \in Value
  BY MiningAssumption DEF MiningInv, WorkersOK, ChannelInv, ChannelTypeOK
<1>1. ASSUME NEW pc \in Places, Goto(w, pc)
      PROVE  thr' = [thr EXCEPT ![w] = [pc |-> pc, job |-> job]]
  <2>1. \A r \in [pc : Places, job : Value] : [r EXCEPT !.pc = pc] = [pc |-> pc, job |-> r.job]
    OBVIOUS
  <2>2. thr' = [thr EXCEPT ![w] = [thr[w] EXCEPT !.pc = pc]]
    BY <1>1 DEF Goto
  <2>3. thr[w] \in [pc : Places, job : Value]
    BY <1>0
  <2>4. [thr[w] EXCEPT !.pc = pc] = [pc |-> pc, job |-> job]
    BY <2>1, <2>3
  <2> QED BY <2>2, <2>4
<1>2. ASSUME recv' = Observed(w) \/ (\E at \in {"lock", "wait"} : recv' = [recv EXCEPT ![w].at = at])
      PROVE  recv'[w].seen = recv[w].seen
  <2>1. recv[w] \in ReceiverState
    BY <1>0
  <2>2. CASE recv' = Observed(w)
    <3> DEFINE now == [recv[w] EXCEPT !.at = "clone", !.last = id]
    <3>1. now.seen = recv[w].seen
      BY <2>1 DEF ReceiverState
    <3>2. recv' = [recv EXCEPT ![w] = now]
      BY <2>2 DEF Observed
    <3> HIDE DEF now
    <3> QED BY <1>0, <3>1, <3>2
  <2>3. CASE \E at \in {"lock", "wait"} : recv' = [recv EXCEPT ![w].at = at]
    BY <1>0, <2>1, <2>3 DEF ReceiverState
  <2> QED BY <1>2, <2>2, <2>3
<1>3. CASE AwaitJob(w)
  <2>1. Goto(w, "receive") /\ UNCHANGED <<rig, jobs>> /\ thr[w].pc # "ended" /\ ReceiverStep(w)
    BY <1>3 DEF AwaitJob, ReceiverStep, connVars
  <2>2. recv'[w].seen = recv[w].seen
    BY <1>2, <1>3 DEF AwaitJob, WaitForChange
  <2> HIDE DEF job
  <2> QED BY <1>0, <1>1, <2>1, <2>2, WorkerKeeps DEF Places, job
<1>4. CASE Waiting(w)
  <2>1. UNCHANGED <<rig, jobs, thr>> /\ ReceiverStep(w)
    BY <1>4 DEF Waiting, ReceiverStep
  <2>2. recv'[w].seen = recv[w].seen
    BY <1>2, <1>4 DEF Waiting, Recheck, Resume
  <2>3. ChannelInv'
    BY <2>1, ReceiverKeeps, MiningAssumption DEF MiningInv
  <2>4. \A r \in Worker \ {w} : recv'[r] = recv[r]
    BY <1>0, <2>1 DEF ReceiverStep, GetChanged, WaitForChange, Recheck, Resume, CloneValue, Observed
  <2>5. JobIsSeen'
    BY <2>1, <2>2, <2>4 DEF MiningInv, JobIsSeen
  <2>6. WorkersOK' /\ RigOK'
    BY <2>1 DEF MiningInv, WorkersOK, RigOK
  <2> QED BY <2>3, <2>5, <2>6 DEF MiningInv
<1>5. CASE Receive(w)
  BY <1>5, ReceiveKeeps
<1>6. CASE Poll(w)
  <2>1. thr[w].pc # "ended" /\ UNCHANGED <<rig, jobs>>
    BY <1>6 DEF Poll, connVars
  <2>2. CASE GetChanged(w) /\ Goto(w, "receive")
    <3>1. ReceiverStep(w) /\ recv'[w].seen = recv[w].seen
      BY <1>2, <2>2 DEF GetChanged, ReceiverStep
    <3> HIDE DEF job
    <3> QED BY <1>0, <1>1, <2>1, <2>2, <3>1, WorkerKeeps DEF Places, job
  <2>3. CASE Goto(w, "top") /\ UNCHANGED channelVars
    <3> HIDE DEF job
    <3> QED BY <1>0, <1>1, <2>1, <2>3, WorkerKeeps DEF Places, job
  <2> QED BY <1>6, <2>2, <2>3 DEF Poll
<1>7. ASSUME NEW pc \in Places, Goto(w, pc), UNCHANGED <<rig, jobs>>, UNCHANGED channelVars,
             thr[w].pc # "ended"
      PROVE  MiningInv'
  <2> HIDE DEF job
  <2> QED BY <1>0, <1>1, <1>7, WorkerKeeps DEF job
<1>8. CASE Launch(w) \/ FindShare(w) \/ Find(w) \/ Break(w) \/ Fault(w) \/ Hang(w) \/ Blink(w)
  BY <1>7, <1>8 DEF Launch, FindShare, Find, Break, Fault, Hang, Blink, Grinds, connVars, Places
<1>9. CASE Recover(w) \/ Freeze(w)
  BY <1>7, <1>9 DEF Recover, Freeze, connVars, Places
<1>10. CASE Submit(w)
  <2> DEFINE pc == IF w \in Gpu /\ rig.era # "pow" THEN "poll" ELSE "top"
             left == IF rig.solo THEN None ELSE job
  <2>1. UNCHANGED <<rig, jobs>> /\ UNCHANGED channelVars /\ thr[w].pc # "ended"
    BY <1>10 DEF Submit, connVars
  <2>2. thr' = [thr EXCEPT ![w] = [pc |-> pc, job |-> left]]
    <3> DEFINE new == [thr[w] EXCEPT !.pc = pc, !.job = left]
    <3>1. thr' = [thr EXCEPT ![w] = new]
      BY <1>0, <1>10 DEF Submit
    <3>2. thr[w] = [x \in {"pc", "job"} |-> thr[w][x]]
      BY <1>0
    <3>3. new = [x \in {"pc", "job"} |-> new[x]] /\ new.pc = pc /\ new.job = left
      <4> HIDE DEF pc, left
      <4> QED BY <3>2
    <3> HIDE DEF new, pc, left
    <3>4. new = [pc |-> pc, job |-> left]
      BY <3>3
    <3> QED BY <3>1, <3>4
  <2>3. pc \in Places /\ left \in Value /\ (left = thr[w].job \/ (rig.solo /\ left = None))
    BY <1>0 DEF Places
  <2> HIDE DEF pc, left, job
  <2> QED BY <2>1, <2>2, <2>3, WorkerKeeps
<1> QED BY <1>3, <1>4, <1>5, <1>6, <1>8, <1>9, <1>10 DEF WorkerStep

\* Every step of the client, the workers, proofs and shutdown keeps the invariant.
LEMMA MiningKept == ASSUME MiningInv, [Next]_vars PROVE MiningInv'
<1>1. rig \in Rig /\ jobs \in Nat /\ {None, Quit} \subseteq Value
  BY MiningAssumption DEF MiningInv, RigOK
<1>2. CASE NewJob
  <2>1. jobs + 1 \in Value
    BY <1>1, <1>2, MiningAssumption DEF NewJob, Rig, Job
  <2>2. UNCHANGED <<rig, thr>> /\ jobs' = jobs + 1 /\ ReplaceValue(jobs + 1)
    BY <1>2 DEF NewJob, Sends
  <2>3. jobs' \in Nat /\ \E v \in Value : ReplaceValue(v)
    BY <1>1, <2>1, <2>2
  <2> QED BY <2>2, <2>3, SenderKeeps
<1>3. CASE NotSynced
  <2>1. UNCHANGED <<rig, thr, jobs>> /\ ReplaceValue(None)
    BY <1>3 DEF NotSynced, Sends
  <2> QED BY <1>1, <2>1, SenderKeeps
<1>4. CASE Wake
  BY <1>1, <1>4, SenderKeeps DEF Wake
<1>5. ASSUME UNCHANGED <<rig, thr, jobs, channelVars>> PROVE MiningInv'
  BY <1>1, <1>5, SenderKeeps
<1>6. CASE Consume \/ Join \/ (\E p \in proofs : EndProof(p)) \/ \E reason \in {"error", "stop"} : End(reason)
  BY <1>5, <1>6 DEF Consume, Join, EndProof, End
<1>7. CASE Close
  <2>1. UNCHANGED <<rig, thr, jobs>> /\ (ReplaceValue(Quit) \/ UNCHANGED channelVars)
    BY <1>7 DEF Close
  <2> QED BY <1>1, <2>1, SenderKeeps
<1>8. CASE Reconnect
  BY <1>8, ReconnectKeeps
<1>9. CASE \E w \in rig.workers : WorkerStep(w) \/ Recover(w) \/ Freeze(w)
  <2>1. rig.workers \subseteq Worker
    BY <1>1 DEF Rig, Worker
  <2> QED BY <1>9, <2>1, WorkerStepKeeps
<1>10. CASE UNCHANGED vars
  BY <1>5, <1>10 DEF vars
<1> QED BY <1>2, <1>3, <1>4, <1>6, <1>7, <1>8, <1>9, <1>10 DEF Next

\* The promises of the channel hold of every connection, under all that the manager
\* and the workers do with it, and a worker's job is what it was told last.
THEOREM MiningInvariant == Spec => []MiningInv
BY MiningStarts, MiningKept, PTL DEF Spec

\* A worker that has noted the number of the present job grinds that job, or has won
\* it: get_changed, wait_for_change and the loops of src/miner.rs leave no worker on
\* a replaced job that it will not be told of.
THEOREM WorkersGrindTheLatest == Spec => []JobIsTheLatest
<1>1. MiningInv => JobIsTheLatest
  <2> SUFFICES ASSUME MiningInv PROVE JobIsTheLatest
    OBVIOUS
  <2>1. \A w \in Worker : recv[w].at # "clone" /\ ~Changed(w) => recv[w].seen = value
    BY MiningAssumption DEF MiningInv, ChannelInv, SeenIsCurrent
  <2> QED BY <2>1 DEF JobIsTheLatest, MiningInv, JobIsSeen
<1> QED BY <1>1, MiningInvariant, PTL
=============================================================================
