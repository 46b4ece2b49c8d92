------------------------------- MODULE Mining -------------------------------
(***************************************************************************)
(* The mining workers of src/miner.rs over one connection after another:   *)
(* the manager sends jobs through the watch channel, each worker grinds    *)
(* the job it has and looks for a new one, what is found goes through a    *)
(* channel of one place to the client's task, and proofs for a pool are    *)
(* built on threads of their own.  client_main of src/main.rs ends a       *)
(* connection, stops the workers and begins again.                         *)
(*                                                                         *)
(* What a card mines, and how it is paused, is GpuCards: here a GPU worker *)
(* may look for a job without launching, as it does while it is paused or  *)
(* its model is not installed; and it may go round without looking, as it  *)
(* does while it has no context pad.  Block tasks are not active.          *)
(***************************************************************************)
EXTENDS WatchChannel, Sequences, SequencesExt, FiniteSets

CONSTANTS
    Gpu,             \* GPU workers
    Cpu,             \* CPU workers
    None,            \* no job
    Quit,            \* WorkerCommand::Close
    MaxInflight,     \* MAX_INFLIGHT_PROOFS
    MaxJobs,         \* bound: jobs of a connection
    Rigs             \* bound: the rigs

Worker == Gpu \cup Cpu

\* A rig mines for a node or a pool, in one of three eras of the proof of work.
\* hangs: a driver call may never return.  blinks: the rounds of a card may end
\* before it looks for a job.  faults: a CUDA fault may happen.  conns and jobs
\* bound the connections and the jobs of each; workers are its cards and CPU threads.
Rig == [solo : BOOLEAN, era : {"pow", "pom", "v3"}, hangs : BOOLEAN, blinks : BOOLEAN,
        faults : BOOLEAN, conns : Nat, jobs : 0 .. MaxJobs, workers : SUBSET (Gpu \cup Cpu)]

Job == 1 .. MaxJobs

ASSUME MiningAssumption ==
    /\ Receiver = Worker /\ Gpu \cap Cpu = {} /\ IsFiniteSet(Worker)
    /\ Value = Job \cup {None, Quit} /\ FirstValue = None /\ {None, Quit} \cap Job = {} /\ None # Quit
    /\ MaxInflight \in Nat \ {0} /\ MaxJobs \in Nat
    /\ Rigs \subseteq Rig

VARIABLES
    rig,     \* the rig (rigid)
    conn,    \* the connection
    phase,   \* of the connection: listening, closing, joining, ended
    why,     \* why it ended: error, stop or fault
    thr,     \* the workers: each one's place and job
    handles, \* workers not yet joined
    synced,  \* MinerManager.is_synced
    jobs,    \* current_state_id
    queue,   \* the place of the channel of found blocks and shares is taken
    open,    \* the client's task takes from it
    proofs   \* proofs built on threads of their own

connVars == <<conn, phase, why, handles>>
vars == <<channelVars, rig, connVars, thr, synced, jobs, queue, open, proofs>>

Fresh == [pc |-> "top", job |-> None]

Init ==
    /\ ChannelInit
    /\ rig \in Rigs
    /\ conn = 1 /\ phase = "listening" /\ why = "error"
    /\ thr = [w \in Worker |-> Fresh]
    /\ handles = SetToSeq(rig.workers)
    /\ synced = TRUE /\ jobs = 0
    /\ queue = FALSE /\ open = TRUE
    /\ proofs = {}

Alive == {w \in rig.workers : thr[w].pc # "ended"}

-----------------------------------------------------------------------------
\* The client, through the manager.

\* process_block.  The channel refuses when every worker is gone.
Sends(v) == phase = "listening" /\ Alive # {} /\ ReplaceValue(v)

NewJob ==
    /\ jobs < rig.jobs
    /\ Sends(jobs + 1)
    /\ jobs' = jobs + 1 /\ synced' = TRUE
    /\ UNCHANGED <<rig, connVars, thr, queue, open, proofs>>

\* Not synced is told once.
NotSynced ==
    /\ synced
    /\ Sends(None)
    /\ synced' = FALSE
    /\ UNCHANGED <<rig, connVars, thr, jobs, queue, open, proofs>>

Wake ==
    /\ WakeUpThreads
    /\ UNCHANGED <<rig, connVars, thr, synced, jobs, queue, open, proofs>>

\* The client's task hands a found block or share to the node or the pool.
Consume ==
    /\ open /\ queue
    /\ queue' = FALSE
    /\ UNCHANGED <<channelVars, rig, connVars, thr, synced, jobs, open, proofs>>

-----------------------------------------------------------------------------
\* A worker's loop.

Goto(w, pc) == thr' = [thr EXCEPT ![w].pc = pc]

\* Without a job it waits for one.
AwaitJob(w) ==
    /\ thr[w].pc = "top" /\ thr[w].job = None
    /\ WaitForChange(w)
    /\ Goto(w, "receive")
    /\ UNCHANGED <<rig, connVars, synced, jobs, queue, open, proofs>>

Waiting(w) ==
    /\ Recheck(w) \/ Resume(w)
    /\ UNCHANGED <<rig, connVars, thr, synced, jobs, queue, open, proofs>>

\* What it is told replaces its job.
Receive(w) ==
    /\ CloneValue(w)
    /\ thr' = [thr EXCEPT ![w] =
         IF value = Quit THEN [@ EXCEPT !.pc = "ended"] ELSE [@ EXCEPT !.pc = "top", !.job = value]]
    /\ UNCHANGED <<rig, connVars, synced, jobs, queue, open, proofs>>

\* get_changed, after a launch, or instead of one on a GPU that is paused or
\* whose model has to be loaded first.
Poll(w) ==
    /\ thr[w].pc = "poll" \/ (thr[w].pc = "top" /\ thr[w].job # None /\ w \in Gpu /\ rig.era # "pow")
    /\ \/ /\ GetChanged(w)
          /\ Goto(w, "receive")
       \/ /\ ~Changed(w) /\ thr[w].pc = "poll"
          /\ Goto(w, "top") /\ UNCHANGED channelVars
    /\ UNCHANGED <<rig, connVars, synced, jobs, queue, open, proofs>>

Grinds(w) == thr[w].pc = "top" /\ thr[w].job # None

\* A launch, or 128 nonces, with nothing found; or a proof that the host's own
\* walk did not confirm.
Launch(w) ==
    /\ Grinds(w)
    /\ Goto(w, "poll")
    /\ UNCHANGED <<channelVars, rig, connVars, synced, jobs, queue, open, proofs>>

\* A CPU worker only grinds the walks before the matrix walk.
CanFind(w) == w \in Gpu \/ rig.era # "v3"

FreeSlots(w) ==
    {k \in 1 .. MaxInflight : \A p \in proofs : p.conn = conn /\ p.worker = w => p.slot # k}

\* A pool's proof is built off the thread while one of its places is free.
FindShare(w) ==
    /\ Grinds(w) /\ ~rig.solo /\ w \in Gpu /\ rig.era # "pow"
    /\ \E k \in FreeSlots(w) :
         /\ \A j \in FreeSlots(w) : k <= j
         /\ proofs' = proofs \cup {[worker |-> w, slot |-> k, conn |-> conn]}
    /\ Goto(w, "poll")
    /\ UNCHANGED <<channelVars, rig, connVars, synced, jobs, queue, open>>

\* Everything else is handed in by the worker itself.
Find(w) ==
    /\ Grinds(w) /\ CanFind(w)
    /\ ~rig.solo /\ w \in Gpu /\ rig.era # "pow" => FreeSlots(w) = {}
    /\ Goto(w, "submit")
    /\ UNCHANGED <<channelVars, rig, connVars, synced, jobs, queue, open, proofs>>

\* blocking_send: it waits for the place, or fails because the client is gone.
\* A block of its own ends the job.
Handed == IF open THEN ~queue /\ queue' = TRUE ELSE UNCHANGED queue

Submit(w) ==
    /\ thr[w].pc = "submit"
    /\ Handed
    /\ thr' = [thr EXCEPT ![w].pc = IF w \in Gpu /\ rig.era # "pow" THEN "poll" ELSE "top",
                         ![w].job = IF rig.solo THEN None ELSE @]
    /\ UNCHANGED <<channelVars, rig, connVars, synced, jobs, open, proofs>>

\* A proof is done, discarded or handed in; its place is free again.
EndProof(p) ==
    /\ \/ UNCHANGED queue
       \/ p.conn = conn /\ Handed /\ open
    /\ proofs' = proofs \ {p}
    /\ UNCHANGED <<channelVars, rig, connVars, thr, synced, jobs, open>>

\* The old path: a nonce that the host does not confirm, or results that cannot
\* be copied, end the worker.
Break(w) ==
    /\ Grinds(w) /\ w \in Gpu /\ rig.era = "pow" /\ rig.faults
    /\ Goto(w, "ended")
    /\ UNCHANGED <<channelVars, rig, connVars, synced, jobs, queue, open, proofs>>

\* A CUDA fault ends the worker and, through wait_for_fatal_gpu_fault, the process.
Fault(w) ==
    /\ Grinds(w) /\ w \in Gpu /\ rig.faults
    /\ Goto(w, "ended")
    /\ why' = "fault"
    /\ phase' = IF phase = "listening" THEN "closing" ELSE phase
    /\ open' = (open /\ phase # "listening")
    /\ queue' = (queue /\ phase # "listening")
    /\ UNCHANGED <<channelVars, rig, conn, handles, synced, jobs, proofs>>

Hang(w) ==
    /\ Grinds(w) /\ w \in Gpu /\ rig.hangs
    /\ Goto(w, "hung")
    /\ UNCHANGED <<channelVars, rig, connVars, synced, jobs, queue, open, proofs>>

\* The card has no context pad, or its CUDA run is ignored: it goes round again
\* before get_changed.
Blink(w) ==
    /\ Grinds(w) /\ w \in Gpu /\ rig.era # "pom" /\ rig.blinks
    /\ Goto(w, "blind")
    /\ UNCHANGED <<channelVars, rig, connVars, synced, jobs, queue, open, proofs>>

\* There is a pad again, or a run that succeeds; perhaps never.
Recover(w) ==
    /\ thr[w].pc = "blind"
    /\ Goto(w, "top")
    /\ UNCHANGED <<channelVars, rig, connVars, synced, jobs, queue, open, proofs>>

-----------------------------------------------------------------------------
\* client_main: the connection ends, the client goes first and its task with it,
\* then the manager tells the workers and joins them.

\* The node or the pool is lost, no worker is left to send to, or the user stops.
End(reason) ==
    /\ phase = "listening" /\ sender = "idle"
    /\ phase' = "closing" /\ why' = reason
    /\ open' = FALSE /\ queue' = FALSE
    /\ UNCHANGED <<channelVars, rig, conn, handles, thr, synced, jobs, proofs>>

Close ==
    /\ phase = "closing"
    /\ phase' = "joining"
    /\ IF Alive # {} THEN ReplaceValue(Quit) ELSE UNCHANGED channelVars
    /\ UNCHANGED <<rig, conn, why, handles, thr, synced, jobs, queue, open, proofs>>

\* Mutant: the last handle is never reached.
JoinAllButOne ==
    /\ phase = "joining" /\ sender = "idle" /\ Len(handles) > 1
    /\ thr[Last(handles)].pc = "ended"
    /\ handles' = Front(handles)
    /\ UNCHANGED <<channelVars, rig, conn, phase, why, thr, synced, jobs, queue, open, proofs>>

Join ==
    /\ phase = "joining" /\ sender = "idle"
    /\ \/ /\ handles # <<>> /\ thr[Last(handles)].pc = "ended"
          /\ handles' = Front(handles) /\ UNCHANGED phase
       \/ handles = <<>> /\ phase' = "ended" /\ UNCHANGED handles
    /\ UNCHANGED <<channelVars, rig, conn, why, thr, synced, jobs, queue, open, proofs>>

\* Mutant: nobody watches the join.
FreezeNobody(w) == FALSE /\ UNCHANGED vars

\* trigger_freeze_handler: a worker that is being joined for 30 s is made to panic.
Freeze(w) ==
    /\ phase = "joining" /\ handles # <<>> /\ Last(handles) = w
    /\ thr[w].pc \in {"hung", "blind"}
    /\ Goto(w, "ended")
    /\ UNCHANGED <<channelVars, rig, connVars, synced, jobs, queue, open, proofs>>

\* The next connection has a manager, a channel and workers of its own.
Reconnect ==
    /\ phase = "ended" /\ why = "error" /\ conn < rig.conns
    /\ conn' = conn + 1
    /\ value' = FirstValue /\ id' = 1 /\ sender' = "idle"
    /\ recv' = [w \in Worker |-> [at |-> "out", last |-> 0, seen |-> FirstValue]]
    /\ phase' = "listening" /\ why' = "error"
    /\ thr' = [w \in Worker |-> Fresh]
    /\ handles' = SetToSeq(rig.workers)
    /\ synced' = TRUE /\ jobs' = 0
    /\ queue' = FALSE /\ open' = TRUE
    /\ UNCHANGED <<rig, proofs>>

-----------------------------------------------------------------------------
WorkerStep(w) ==
    \/ AwaitJob(w) \/ Waiting(w) \/ Receive(w) \/ Poll(w)
    \/ Launch(w) \/ FindShare(w) \/ Find(w) \/ Submit(w)
    \/ Break(w) \/ Fault(w) \/ Hang(w) \/ Blink(w)

Next ==
    \/ NewJob \/ NotSynced \/ Wake \/ Consume
    \/ \E w \in rig.workers : WorkerStep(w) \/ Recover(w) \/ Freeze(w)
    \/ \E p \in proofs : EndProof(p)
    \/ \E reason \in {"error", "stop"} : End(reason)
    \/ Close \/ Join \/ Reconnect

Spec == Init /\ [][Next]_vars

\* Threads run; a driver call that does not hang returns; not every launch finds
\* something, and not every round is blind; the queue of the channel is first come,
\* first served.
FairSpec ==
    /\ Spec
    /\ \A w \in Worker : /\ WF_vars(w \in rig.workers /\ WorkerStep(w))
                         /\ SF_vars(Submit(w)) /\ SF_vars(Launch(w)) /\ WF_vars(Freeze(w))
    /\ WF_vars(Wake) /\ WF_vars(Consume) /\ WF_vars(Close) /\ WF_vars(Join)

-----------------------------------------------------------------------------
\* Properties.

\* A worker that has noted the number of the present job grinds that job, or has
\* won it and waits: however the lock-free number, the locked value, launches and
\* finds interleave, no replaced job hides behind a number that was noted.
JobIsTheLatest ==
    \A w \in Worker :
        recv[w].at # "clone" /\ ~Changed(w)
          => thr[w].pc = "ended" \/ thr[w].job = value \/ (rig.solo /\ thr[w].job = None)

\* Every job, every Not synced and every Close reaches every worker that runs, or
\* a later one does: no notification is lost and no worker grinds a job for ever,
\* unless its rounds stay blind.
LatestIsSeen ==
    \A n \in 2 .. MaxJobs + 1 : \A w \in Worker :
        id = n ~> \/ recv[w].last >= n \/ w \notin rig.workers
                  \/ thr[w].pc \in {"hung", "ended"} \/ [](thr[w].pc = "blind")
                  \/ phase = "ended"

\* A connection that ends is over some time: workers wake up, leave their launches
\* and the channel of finds, and who hangs or stays blind is stopped.
ShutdownEnds == phase = "closing" ~> phase = "ended"

\* "so the card stops grinding a template it already won": a worker that has found
\* the block of its job is not told the same job again.
WonIsLeft ==
    [][\A w \in Worker :
         thr[w].job = None /\ thr'[w].job \in Job => thr'[w].job # recv[w].seen]_vars

=============================================================================
