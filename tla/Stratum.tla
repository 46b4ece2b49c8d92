------------------------------- MODULE Stratum -------------------------------
(***************************************************************************)
(* One connection of the pool client, src/client/stratum.rs: the listen    *)
(* loop with its handlers and keepalive, the task that submits shares, the *)
(* inference threads of AI requests, challenges and tasks, the writer with *)
(* its channel, and the pool (external).                                   *)
(*                                                                         *)
(* A handler is one step up to the line it sends: it awaits nothing else   *)
(* but locks and the end of a probe.  Time is a choice: a request that was *)
(* not answered may be found late, and the line may be found idle, at any  *)
(* tick.  A new connection shares nothing with an old one but counters.    *)
(* Nonce ranges and targets are functions of what the pool sends.          *)
(***************************************************************************)
EXTENDS Integers, Sequences, FiniteSets

CONSTANTS
    Task,            \* the stable ids of AI tasks
    None,            \* nothing
    ChanSize,        \* lines the send channel holds
    WireSize,        \* bound: lines the sockets hold
    MaxKeepalives,   \* bound: keepalives while the pool answers
    Pools            \* bound: the pools

\* reads: the pool reads its socket also when it has fallen silent.
\* models: the miner has a model ready.  private, seeded: the first job of private
\* inference and the first one that needs a window seed.  jobs, shares and requests
\* bound its jobs, the shares found and its AI requests and challenges.
Pool == [reads : BOOLEAN, models : BOOLEAN, private : Nat, seeded : Nat,
         jobs : Nat, shares : Nat, requests : Nat]

ASSUME StratumAssumption ==
    /\ None \notin Task \cup Nat
    /\ {ChanSize, WireSize} \subseteq Nat \ {0}
    /\ MaxKeepalives \in Nat
    /\ Pools \subseteq Pool

VARIABLES
    pool,       \* the pool (rigid)
    up,         \* listen has not returned
    loop,       \* the line listen waits to send, if any
    chan,       \* the send channel
    wire,       \* lines sent to the pool and not answered
    inbox,      \* what the pool sent
    silent,     \* the pool has fallen silent
    lastId,     \* last_stratum_id
    pending,    \* shares_pending
    keepalive,  \* keepalive_pending
    ai,         \* ai_response
    busy,       \* challenge_in_flight
    slot,       \* current_task_slot
    results,    \* inference_cache.results
    running,    \* inference_cache.in_progress
    threads,    \* inference threads
    sharer,     \* the task of create_block_channel
    work,       \* jobs given to the miner
    sent        \* what the pool has sent: each job's task, and counters

poolVars == <<pool, wire, inbox, silent, sent>>
linkVars == <<up, loop, chan, lastId>>
noteVars == <<pending, keepalive, ai>>
inferVars == <<busy, slot, results, running, threads>>
vars == <<poolVars, linkVars, noteVars, inferVars, sharer, work>>

\* A line: what it asks for, the number its answer will carry, and of a share its
\* job and CID.  Challenge responses and the declaration of models carry none.
Line(kind, id) == [kind |-> kind, id |-> id, job |-> 0, cid |-> None]
ShareLine(id, j, cid) == [kind |-> "share", id |-> id, job |-> j, cid |-> cid]

Idle == [at |-> "idle", id |-> 0, job |-> 0, cid |-> None]
Nothing == [tasks |-> <<>>, shares |-> 0, requests |-> 0, keepalives |-> 0]

\* register has sent its two requests.
Init ==
    /\ pool \in Pools
    /\ up = TRUE /\ loop = None
    /\ chan = <<>> /\ wire = {Line("register", 0)}
    /\ inbox = <<>> /\ silent = FALSE
    /\ lastId = 1
    /\ pending = {} /\ keepalive = None /\ ai = None
    /\ busy = FALSE /\ slot = None /\ results = {} /\ running = {} /\ threads = {}
    /\ sharer = Idle
    /\ work = {}
    /\ sent = Nothing

-----------------------------------------------------------------------------
\* The pool.  It answers what it was in any order, and sends jobs, AI
\* requests and challenges, until it falls silent.

\* What needs no answer is read, and a silent pool may still read its socket.
PoolReads(line) ==
    /\ line.id = None \/ (silent /\ pool.reads)
    /\ silent => pool.reads
    /\ wire' = wire \ {line}
    /\ UNCHANGED <<pool, inbox, silent, sent, linkVars, noteVars, inferVars, sharer, work>>

PoolSays(m) == ~silent /\ Len(inbox) < WireSize /\ inbox' = Append(inbox, m)

\* denied: the pool refuses to serve the worker; a keepalive or a registration is
\* answered with true or not at all.
PoolAnswers(line) ==
    /\ line.id # None
    /\ \E verdict \in {"true", "rejected", "denied"} :
         /\ line.kind \in {"keepalive", "register"} => verdict = "true"
         /\ PoolSays([kind |-> "answer", to |-> line.kind, id |-> line.id, verdict |-> verdict])
    /\ wire' = wire \ {line}
    /\ UNCHANGED <<pool, silent, sent, linkVars, noteVars, inferVars, sharer, work>>

PoolNotifies(task, seed) ==
    /\ Len(sent.tasks) < pool.jobs
    /\ seed \/ Len(sent.tasks) + 1 >= pool.seeded
    /\ PoolSays([kind |-> "notify", job |-> Len(sent.tasks) + 1, task |-> task, seed |-> seed])
    /\ sent' = [sent EXCEPT !.tasks = Append(@, task)]
    /\ UNCHANGED <<pool, wire, silent, linkVars, noteVars, inferVars, sharer, work>>

PoolAsks(kind) ==
    /\ sent.requests < pool.requests
    /\ PoolSays([kind |-> kind])
    /\ sent' = [sent EXCEPT !.requests = @ + 1]
    /\ UNCHANGED <<pool, wire, silent, linkVars, noteVars, inferVars, sharer, work>>

FallSilent ==
    /\ ~silent
    /\ silent' = TRUE
    /\ UNCHANGED <<pool, wire, inbox, sent, linkVars, noteVars, inferVars, sharer, work>>

-----------------------------------------------------------------------------
\* The channel and its writer.

Room == Len(chan) < ChanSize
Push(line) == chan' = Append(chan, line)

Write ==
    /\ up /\ chan # <<>> /\ Cardinality(wire) < WireSize
    /\ wire' = wire \cup {Head(chan)}
    /\ chan' = Tail(chan)
    /\ UNCHANGED <<pool, inbox, silent, sent, up, loop, lastId, noteVars, inferVars, sharer, work>>

\* listen returns: the tasks are aborted with the handler, the sockets close and
\* what the connection kept goes with it, except for inference threads.
Down ==
    /\ up' = FALSE /\ loop' = None /\ chan' = <<>>
    /\ wire' = {} /\ inbox' = <<>> /\ silent' = TRUE
    /\ sharer' = Idle
    /\ lastId' = 0 /\ pending' = {} /\ keepalive' = None /\ ai' = None
    /\ slot' = None /\ results' = {} /\ running' = {} /\ work' = {}
    /\ sent' = Nothing
    /\ UNCHANGED <<pool, busy, threads>>

\* The stream ends or a write fails.
Lose == up /\ Down

-----------------------------------------------------------------------------
\* Shares.

\* Mutant: a share is not noted before it is sent.
TakeShareUnnoted(j) ==
    /\ up /\ sharer.at = "idle" /\ sent.shares < pool.shares
    /\ sharer' = [at |-> "look", id |-> lastId + 1, job |-> j, cid |-> None]
    /\ lastId' = lastId + 1
    /\ sent' = [sent EXCEPT !.shares = @ + 1]
    /\ UNCHANGED <<pool, wire, inbox, silent, up, loop, chan, noteVars, inferVars, work>>

\* A share of a job the miner was given, whichever is the latest.
TakeShare(j) ==
    /\ up /\ sharer.at = "idle" /\ sent.shares < pool.shares
    /\ sharer' = [at |-> "look", id |-> lastId + 1, job |-> j, cid |-> None]
    /\ lastId' = lastId + 1
    /\ pending' = pending \cup {lastId + 1}
    /\ sent' = [sent EXCEPT !.shares = @ + 1]
    /\ UNCHANGED <<pool, wire, inbox, silent, up, loop, chan, keepalive, ai, inferVars, work>>

\* Mutant: the task is taken for the share's whichever its job.
CidOfCurrent(j) == IF slot # None /\ slot.task \in results THEN slot.task ELSE None

\* The CID of the task of the current job, if the share is of that job.
Cid(j) == IF slot # None /\ slot.job = j /\ slot.task \in results THEN slot.task ELSE None

LookUp ==
    /\ up /\ sharer.at = "look"
    /\ sharer' = [sharer EXCEPT !.at = "send", !.cid = Cid(sharer.job)]
    /\ UNCHANGED <<poolVars, linkVars, noteVars, inferVars, work>>

SendShare ==
    /\ up /\ sharer.at = "send" /\ Room
    /\ Push(ShareLine(sharer.id, sharer.job, sharer.cid))
    /\ sharer' = Idle
    /\ UNCHANGED <<poolVars, up, loop, lastId, noteVars, inferVars, work>>

-----------------------------------------------------------------------------
\* listen: a message.  m is taken from the inbox.

Ready == up /\ loop = None
Take == inbox' = Tail(inbox) /\ UNCHANGED <<pool, wire, silent, sent>>

\* Answers: to the AI response, to the keepalive, to a share, to anything else.
HandleAnswer ==
    /\ Ready /\ inbox # <<>> /\ Head(inbox).kind = "answer"
    /\ LET m == Head(inbox) IN
       \/ /\ m.id = ai
          /\ Take /\ ai' = None
          /\ UNCHANGED <<linkVars, pending, keepalive, inferVars, sharer, work>>
       \/ /\ m.id # ai /\ m.id = keepalive
          /\ IF m.verdict = "true"
             THEN /\ Take /\ keepalive' = None
                  /\ UNCHANGED <<linkVars, pending, ai, inferVars, sharer, work>>
             ELSE Down
       \/ /\ m.id \notin {ai, keepalive}
          /\ IF m.verdict = "true" \/ (m.verdict = "rejected" /\ m.id \in pending)
             THEN /\ Take /\ pending' = pending \ {m.id}
                  /\ UNCHANGED <<linkVars, keepalive, ai, inferVars, sharer, work>>
             ELSE Down

\* Mutant: a second inference is begun beside the first.
StartBeside(kind, task) ==
    /\ busy' = TRUE
    /\ threads' = threads \cup {[kind |-> kind, task |-> task, at |-> "infer", id |-> 0]}

\* The swap of challenge_in_flight and the thread.
Start(kind, task) ==
    /\ ~busy /\ busy' = TRUE
    /\ threads' = threads \cup {[kind |-> kind, task |-> task, at |-> "infer", id |-> 0]}

\* handle_ai_task: the first notify of a task begins its inference and is not mined.
Launches(m) ==
    /\ m.task # None /\ m.job < pool.private
    /\ m.task \notin results \cup running /\ pool.models /\ ~busy

NoSeed(m) == m.job >= pool.seeded /\ ~m.seed

HandleNotify ==
    /\ Ready /\ inbox # <<>> /\ Head(inbox).kind = "notify"
    /\ Take
    /\ LET m == Head(inbox) IN
       IF ~pool.models
       THEN UNCHANGED <<slot, work, inferVars>>
       ELSE /\ slot' = IF m.task # None /\ m.job < pool.private
                       THEN [job |-> m.job, task |-> m.task] ELSE None
            /\ IF Launches(m)
               THEN /\ Start("task", m.task)
                    /\ running' = running \cup {m.task}
                    /\ UNCHANGED <<work, results>>
               ELSE /\ work' = IF NoSeed(m) THEN work ELSE work \cup {m.job}
                    /\ UNCHANGED <<busy, results, running, threads>>
    /\ UNCHANGED <<linkVars, noteVars, sharer>>

HandleAiRequest ==
    /\ Ready /\ inbox # <<>> /\ Head(inbox).kind = "ai_request"
    /\ Take
    /\ \/ pool.models /\ ai = None /\ Start("ai", None)
       \/ (~pool.models \/ ai # None \/ busy) /\ UNCHANGED <<busy, threads>>
    /\ UNCHANGED <<linkVars, noteVars, slot, results, running, sharer, work>>

\* A model that is not ready is answered at once, with nothing.
HandleChallenge ==
    /\ Ready /\ inbox # <<>> /\ Head(inbox).kind = "challenge"
    /\ Take
    /\ \/ /\ pool.models /\ Start("challenge", None) /\ UNCHANGED loop
       \/ /\ ~pool.models /\ ~busy
          /\ loop' = Line("challenge", None) /\ UNCHANGED <<busy, threads>>
       \/ busy /\ UNCHANGED <<loop, busy, threads>>
    /\ UNCHANGED <<up, chan, lastId, noteVars, slot, results, running, sharer, work>>

\* listen waits for room in the channel.
LoopSends ==
    /\ up /\ loop # None /\ Room
    /\ Push(loop) /\ loop' = None
    /\ keepalive' = IF loop.kind = "keepalive" THEN loop.id ELSE keepalive
    /\ UNCHANGED <<poolVars, up, lastId, pending, ai, inferVars, sharer, work>>

-----------------------------------------------------------------------------
\* listen: a tick.  maintain_keepalive.

Late == Ready /\ (ai # None \/ keepalive # None) /\ Down

\* Mutant: once there was a keepalive there is no other.
SendOneKeepalive ==
    /\ Ready /\ keepalive = None /\ sent.keepalives = 0
    /\ loop' = Line("keepalive", lastId + 1) /\ lastId' = lastId + 1
    /\ sent' = [sent EXCEPT !.keepalives = @ + 1]
    /\ UNCHANGED <<pool, wire, inbox, silent, up, chan, noteVars, inferVars, sharer, work>>

SendKeepalive ==
    /\ Ready /\ keepalive = None
    /\ silent \/ sent.keepalives < MaxKeepalives
    /\ loop' = Line("keepalive", lastId + 1) /\ lastId' = lastId + 1
    /\ sent' = [sent EXCEPT !.keepalives = IF silent THEN @ ELSE @ + 1]
    /\ UNCHANGED <<pool, wire, inbox, silent, up, chan, noteVars, inferVars, sharer, work>>

-----------------------------------------------------------------------------
\* Inference threads.  They outlive the connection.

Becomes(t, u) == threads' = (threads \ {t}) \cup u
Ends(t) == Becomes(t, {}) /\ busy' = FALSE

\* An answer is noted before it is sent; without one the thread ends.
AnswerReady(t) ==
    /\ t.kind = "ai" /\ t.at = "infer"
    /\ \/ /\ up /\ lastId' = lastId + 1 /\ ai' = lastId + 1
          /\ Becomes(t, {[t EXCEPT !.at = "send", !.id = lastId + 1]})
          /\ UNCHANGED busy
       \/ /\ lastId' = lastId + 1 /\ Ends(t) /\ UNCHANGED ai
    /\ UNCHANGED <<poolVars, up, loop, chan, pending, keepalive, slot, results, running, sharer, work>>

ChallengeReady(t) ==
    /\ t.kind = "challenge" /\ t.at = "infer"
    /\ Becomes(t, {[t EXCEPT !.at = "send", !.id = None]})
    /\ UNCHANGED <<poolVars, linkVars, noteVars, busy, slot, results, running, sharer, work>>

\* The CID is kept; at its limit the cache is emptied first, which here may happen
\* at any time.
TaskReady(t) ==
    /\ t.kind = "task"
    /\ running' = running \ {t.task}
    /\ results' \in {results, results \cup {t.task}, {t.task}}
    /\ Ends(t)
    /\ UNCHANGED <<poolVars, linkVars, noteVars, slot, sharer, work>>

ThreadSends(t) ==
    /\ t.at = "send"
    /\ \/ up /\ Room /\ Push(Line(t.kind, t.id)) /\ UNCHANGED ai
       \/ ~up /\ ai' = (IF t.kind = "ai" THEN None ELSE ai) /\ UNCHANGED chan
    /\ Ends(t)
    /\ UNCHANGED <<poolVars, up, loop, lastId, pending, keepalive, slot, results, running, sharer, work>>

-----------------------------------------------------------------------------
Listen ==
    \/ HandleAnswer \/ HandleNotify \/ HandleAiRequest \/ HandleChallenge
    \/ LoopSends \/ Late \/ SendKeepalive

Share == (\E j \in work : TakeShare(j)) \/ LookUp \/ SendShare

Infer == \E t \in threads : AnswerReady(t) \/ ChallengeReady(t) \/ TaskReady(t) \/ ThreadSends(t)

PoolStep ==
    \/ FallSilent \/ \E line \in wire : PoolReads(line) \/ PoolAnswers(line)
    \/ \E task \in Task \cup {None}, seed \in BOOLEAN : PoolNotifies(task, seed)
    \/ \E kind \in {"ai_request", "challenge"} : PoolAsks(kind)

Next == Listen \/ Share \/ Infer \/ Write \/ Lose \/ PoolStep

Spec == Init /\ [][Next]_vars

\* The runtime runs its tasks, timers fire, senders are served in order.
FairSpec ==
    /\ Spec
    /\ WF_vars(Listen) /\ SF_vars(LoopSends) /\ WF_vars(Late) /\ WF_vars(SendKeepalive)
    /\ WF_vars(Write) /\ WF_vars(\E line \in wire : PoolReads(line))

-----------------------------------------------------------------------------
\* Properties.

OnItsWay ==
    {chan[i] : i \in 1 .. Len(chan)} \cup wire

\* Whatever the pool will answer is known when the answer comes: the answer to a
\* share finds the share pending (an unknown one that is rejected would end the
\* connection, an unknown one that is accepted would not be counted), the answer
\* to an AI response and to a keepalive finds that request.
AnswersAreExpected ==
    LET expected(kind, id) == CASE kind = "share" -> id \in pending
                                [] kind = "ai" -> id = ai
                                [] kind = "keepalive" -> id = keepalive
                                [] OTHER -> TRUE IN
    /\ \A line \in OnItsWay : expected(line.kind, line.id)
    /\ \A i \in 1 .. Len(inbox) : inbox[i].kind = "answer" => expected(inbox[i].to, inbox[i].id)

\* AI requests, challenges and tasks compete for the GPU: one inference at a time
\* is under way for a connection, and the next one waits for the answer of the
\* last one to be on its way.
OneInference == Cardinality(threads) <= 1 /\ (threads # {} => busy)

\* One request of a kind is open at a time, and its answer finds it.
RequestsAreKept == AnswersAreExpected /\ OneInference

\* A share that carries a CID carries the one of the task that the pool sent with
\* the job of the share, whatever jobs came after it.
CidIsOfItsJob ==
    \A line \in OnItsWay : line.cid # None => line.cid = sent.tasks[line.job]

\* A pool that falls silent is left: the keepalive is sent and found unanswered.
SilenceIsNoticed == silent ~> ~up
=============================================================================
