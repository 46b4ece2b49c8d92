------------------------------ MODULE AiService ------------------------------
(***************************************************************************)
(* The AI service of src/client/grpc.rs: how a request found in a block or *)
(* a template is queued, inferred, published, answered and retried; the    *)
(* writer thread of src/trace_store.rs, which has to have a response's     *)
(* trace on disk before the response leaves; and what a lost connection    *)
(* hands to the next one (Drop, Parked, restore_parked).                   *)
(*                                                                         *)
(* The era is the present one: responses are signed, private answers       *)
(* travel inline and carry a trace.  A request is known by its stable id.  *)
(* A response is <<request, n>>, the n-th answer made for the request: each*)
(* has a txid of its own, for the end of its challenge window is part of   *)
(* it.  What happens to an accepted trace is the subject of ChainDraw.     *)
(*                                                                         *)
(* The reward of an answer is tracked by the escrow watcher, in memory and *)
(* later on disk: that a line of its journal once written is read again is *)
(* the subject of EscrowJournal.                                           *)
(***************************************************************************)
EXTENDS Integers, Sequences, FiniteSets

CONSTANTS
    Request,       \* AI requests on the network for models this miner serves
    Private,       \* those that are private and addressed to this miner
    OtherKinds,    \* what the others may turn out to be
    Rewarded,      \* requests that pay an inference reward
    None,          \* absence of a task
    QueueCap,      \* MAX_AI_QUEUE_SIZE
    SeenCap,       \* MAX_AI_SEEN_IDS
    MaxAttempts,   \* AI_RESPONSE_MAX_ATTEMPTS
    WritesFail,    \* whether the disk may refuse a trace or the watcher's last state
    MaxScans,      \* bound: times a request is met in a block or template
    MaxLosses      \* bound: lost connections and crashes

\* A private request may be addressed to this miner and still not open.
Kind == {"public", "private", "unreadable"}

Kindings == {k \in [Request -> Kind] :
    \A r \in Request : IF r \in Private THEN k[r] = "private" ELSE k[r] \in OtherKinds}

\* An inference or a publication: it runs, or has given a text or nothing.
Task == [req : Request, at : {"running", "text", "none"}]

ASSUME ServiceAssumption ==
    /\ Private \subseteq Request /\ OtherKinds \subseteq Kind
    /\ Rewarded \subseteq Request
    /\ None \notin Request \cup Task
    /\ {QueueCap, SeenCap, MaxAttempts} \subseteq Nat \ {0}
    /\ WritesFail \in BOOLEAN
    /\ MaxScans \in Nat /\ MaxLosses \in Nat

VARIABLES
    kindOf,     \* what each request is (rigid)
    h,          \* the handler of the connection, or what the last one parked
    connected,  \* whether listen is running
    jobs,       \* jobs queued for the trace store's writer thread
    written,    \* signals of the writer that a response's Flush was reached, unread
    disk,       \* responses with a trace file
    net,        \* responses on the stream to the node
    replies,    \* responses the node has an answer for, as it says on the stream
    known,      \* responses the node has admitted
    tracked,    \* requests whose reward the escrow watcher tracks
    ledger,     \* those of them that are on disk
    lapsed,     \* history: requests whose reward was tracked and is no longer
    forgotten,  \* history: requests a full id table was emptied over
    served,     \* history: requests whose own answer this connection has scanned
    scans,      \* bound counter
    losses      \* bound counter

storeVars == <<jobs, written, disk>>
nodeVars  == <<net, replies, known>>
rewardVars == <<tracked, ledger, lapsed>>
pastVars  == <<forgotten, served>>
vars == <<kindOf, h, connected, storeVars, nodeVars, rewardVars, pastVars, scans, losses>>

-----------------------------------------------------------------------------
\* The handler's state.

Response == Request \X (1 .. MaxScans)

Handler ==
    [queue      : Seq(Request),               \* ai_request_queue
     seen       : SUBSET Request,             \* ai_seen_prefixes
     answered   : SUBSET Request,             \* ai_answered_by_me
     txids      : SUBSET Request,             \* ai_request_txids
     inference  : Task \cup {None},           \* inference_rx
     publish    : Task \cup {None},           \* publish_rx
     persisting : SUBSET Response,            \* persisting
     inflight   : [Response -> 0 .. MaxAttempts],   \* ai_response_inflight, 0 when absent
     made       : [Request -> 0 .. MaxScans], \* answers built so far
     asked      : BOOLEAN]                    \* a block template has been asked for

Idle ==
    [queue |-> <<>>, seen |-> {}, answered |-> {}, txids |-> {}, inference |-> None,
     publish |-> None, persisting |-> {}, inflight |-> [a \in Response |-> 0],
     made |-> [r \in Request |-> 0], asked |-> TRUE]

Elements(q) == {q[i] : i \in 1 .. Len(q)}

Inflight(s) == {a \in Response : s.inflight[a] > 0}

Working(task) == IF task = None THEN {} ELSE {task.req}

\* The requests this miner owes work for, by place.
Places(s) ==
    <<Elements(s.queue), Working(s.inference), Working(s.publish),
      {a[1] : a \in s.persisting}, {a[1] : a \in Inflight(s)}>>

Owed(s) ==
    UNION {Elements(s.queue), Working(s.inference), Working(s.publish),
           {a[1] : a \in s.persisting \cup Inflight(s)}}

-----------------------------------------------------------------------------
\* Scanning: scan_txs_for_ai_requests on a transaction.

\* retain: the members of the queue other than r, in their order.
Without(q, r) ==
    LET keep == {i \in 1 .. Len(q) : q[i] /= r}
        nth(n) == CHOOSE i \in keep : Cardinality({j \in keep : j <= i}) = n
    IN  [n \in 1 .. Cardinality(keep) |-> q[nth(n)]]

\* Variant: a request answered already is only taken off the queue.
OnlyDequeued(s, r) == [s EXCEPT !.queue = Without(@, r)]

\* An answer of this miner to r: the request is not served again.
NoteAnswer(s, r) ==
    LET answered == s.answered \cup {r} IN
    [s EXCEPT !.answered = IF Cardinality(answered) > SeenCap THEN {} ELSE answered,
              !.queue = Without(@, r)]

\* Variant: no limit.
QueuedUncapped(s, r) == Append(s.queue, r)

Queued(s, r) == IF Len(s.queue) < QueueCap THEN Append(s.queue, r) ELSE s.queue

\* The ids kept when there are too many: those of the queue.
Trimmed(seen, queue) == IF Cardinality(seen) > SeenCap THEN Elements(queue) ELSE seen

Rewards(s, r) == (IF Cardinality(s.txids) >= SeenCap THEN {} ELSE s.txids) \cup {r}

NoteRequest(s, r, ready) ==
    IF ~ready \/ r \in s.answered THEN s
    ELSE LET fresh == r \notin s.seen
             queue == IF fresh THEN Queued(s, r) ELSE s.queue
         IN  [s EXCEPT !.queue = queue,
                       !.seen = IF fresh THEN Trimmed(@ \cup {r}, queue) ELSE @,
                       !.txids = IF r \in Rewarded THEN Rewards(s, r) ELSE @]

\* A transaction: <<"none">>, <<"request", r>> or <<"answer", r>>.
Scan(s, tx, ready) ==
    CASE tx[1] = "none"    -> s
      [] tx[1] = "request" -> NoteRequest(s, tx[2], ready)
      [] tx[1] = "answer"  -> NoteAnswer(s, tx[2])

\* Requests dropped from a table of ids because it was full.
Overflowed(s, t, tx) ==
    LET answered == s.answered \cup (IF tx[1] = "answer" THEN {tx[2]} ELSE {}) IN
    UNION {s.seen \ t.seen, s.txids \ t.txids,
           IF Cardinality(answered) > SeenCap THEN answered ELSE {}}

-----------------------------------------------------------------------------
\* Inference: try_start_inference.  held stands for a challenge, a replay
\* that runs or is urgent, or a probe of the model.

\* The queue past the requests at its front that are answered already.
Remaining(s) ==
    LET open == {i \in 1 .. Len(s.queue) : s.queue[i] \notin s.answered}
        first == CHOOSE i \in open : \A j \in open : i <= j
    IN  IF open = {} THEN <<>> ELSE SubSeq(s.queue, first, Len(s.queue))

TryStartInference(s, ready, held) ==
    IF s.inference /= None \/ held \/ s.queue = <<>> THEN s
    ELSE IF Remaining(s) = <<>> THEN [s EXCEPT !.queue = <<>>]
    ELSE LET r == Head(Remaining(s))
             rest == Tail(Remaining(s))
         IN  CASE kindOf[r] = "unreadable" ->
                    [s EXCEPT !.queue = rest, !.inference = [req |-> r, at |-> "text"]]
               [] kindOf[r] /= "unreadable" /\ ~ready -> [s EXCEPT !.queue = rest]
               [] kindOf[r] /= "unreadable" /\ ready ->
                    [s EXCEPT !.queue = rest, !.inference = [req |-> r, at |-> "running"]]

-----------------------------------------------------------------------------
\* Answers: poll_inference and submit_ai_response.

\* The answer poll_inference is about to submit: the published one first, and
\* that of a private request as soon as it is inferred.
Submits(s) ==
    IF s.publish /= None
    THEN IF s.publish.at = "text" THEN {s.publish.req} ELSE {}
    ELSE IF s.inference /= None /\ s.inference.at = "text"
               /\ kindOf[s.inference.req] /= "public"
         THEN {s.inference.req} ELSE {}

\* poll_inference returns true: a request has reached its end.
PollEnds(s) ==
    \/ Submits(s) /= {}
    \/ s.publish /= None /\ s.publish.at = "none"
    \/ s.publish = None /\ s.inference /= None /\ s.inference.at = "none"

AnswerOf(s, r) == <<r, s.made[r] + 1>>

\* Only the answer of an opened private request carries a trace.
Traced(r) == kindOf[r] = "private"

Submitted(s, r) ==
    LET a == AnswerOf(s, r)
        t == [s EXCEPT !.made[r] = @ + 1, !.txids = @ \ {r}]
    IN  IF Traced(r) THEN [t EXCEPT !.persisting = @ \cup {a}]
        ELSE [t EXCEPT !.inflight[a] = 1]

\* The tasks after a poll: what ended is taken, a public text goes to publication.
Polled(s) ==
    LET s1 == IF s.publish /= None /\ s.publish.at /= "running"
              THEN [s EXCEPT !.publish = None] ELSE s
        s2 == IF s.publish = None /\ s.inference /= None /\ s.inference.at /= "running"
              THEN [s EXCEPT !.inference = None,
                             !.publish = IF s.inference.at = "text"
                                              /\ kindOf[s.inference.req] = "public"
                                         THEN [req |-> s.inference.req, at |-> "running"]
                                         ELSE None]
              ELSE s1
    IN  s2

Poll(s) ==
    IF Submits(s) = {} THEN Polled(s)
    ELSE Submitted(Polled(s), CHOOSE r \in Submits(s) : TRUE)

\* What submit_ai_response queues for the writer, and sends.
PollJobs(s) ==
    IF \E r \in Submits(s) : Traced(r)
    THEN LET a == AnswerOf(s, CHOOSE r \in Submits(s) : TRUE)
         IN  jobs \o <<<<"save", a>>, <<"flush", a>>>>
    ELSE jobs

PollSends(s) == {AnswerOf(s, r) : r \in {q \in Submits(s) : ~Traced(q)}}

PollTracks(s) == Submits(s) \cap s.txids

\* maybe_flush: what is tracked reaches the disk, or waits: for 2 s to pass
\* since the last write, or for one that succeeds.
MaybeFlush(rewards) == ledger' \in {ledger, rewards}

\* track_inference_escrow, for a reward that is not tracked yet.
Track(rewards) ==
    /\ tracked' = tracked \cup rewards
    /\ lapsed' = lapsed \ rewards
    /\ IF rewards \subseteq tracked THEN ledger' = ledger ELSE MaybeFlush(tracked \cup rewards)

-----------------------------------------------------------------------------
\* The connection's handlers.

Transaction ==
    {<<"none">>} \cup ({"request"} \X Request)
    \cup ({"answer"} \X {a[1] : a \in known})

\* A block or template holds the transaction; the bound counts requests met.
Met(tx) ==
    /\ tx[1] = "request" => scans < MaxScans
    /\ scans' = IF tx[1] = "request" THEN scans + 1 ELSE scans

Remembered(s, t, tx) ==
    /\ forgotten' = forgotten \cup Overflowed(s, t, tx)
    /\ served' = IF tx[1] = "answer" THEN served \cup {tx[2]} ELSE served

\* BlockAdded with its transactions, or the answer to a GetBlock; handle_block
\* of the watcher ends with maybe_flush.
OnBlock(tx, ready, held) ==
    /\ connected
    /\ Met(tx)
    /\ LET s == Scan(h, tx, ready) IN
       /\ h' = TryStartInference(s, ready, held)
       /\ Remembered(h, s, tx)
    /\ MaybeFlush(tracked)
    /\ UNCHANGED <<kindOf, connected, storeVars, nodeVars, tracked, lapsed, losses>>

\* GetBlockTemplateResponse: a request that ended asks for another template.
OnTemplate(tx, ready, held) ==
    /\ connected /\ h.asked
    /\ LET s == [h EXCEPT !.asked = FALSE]
           u == Poll(s)
           v == Scan(u, tx, TRUE) IN
       IF PollEnds(s)
       THEN /\ h' = [u EXCEPT !.asked = TRUE]
            /\ tx = <<"none">> /\ scans' = scans
            /\ UNCHANGED pastVars
       ELSE /\ Met(tx)
            /\ ready \/ tx = <<"none">>
            /\ h' = IF ready THEN TryStartInference(v, TRUE, held) ELSE u
            /\ Remembered(u, v, tx)
    /\ jobs' = PollJobs(h)
    /\ net' = net \cup PollSends(h)
    /\ Track(PollTracks(h))
    /\ UNCHANGED <<kindOf, connected, written, disk, replies, known, losses>>

\* NewBlockTemplate, or the probe a silent connection sends.
AskTemplate ==
    /\ connected /\ ~h.asked
    /\ h' = [h EXCEPT !.asked = TRUE]
    /\ UNCHANGED <<kindOf, connected, storeVars, nodeVars, rewardVars, pastVars, scans, losses>>

\* Variant: a response is sent without waiting for its trace.
ReadyAtOnce(s) == s.persisting

\* release_persisted_responses: those whose Flush has been signalled.
Ready(s) == {a \in s.persisting : a \in written}

Released(s) ==
    [s EXCEPT !.persisting = @ \ Ready(s),
              !.inflight = [a \in Response |-> IF a \in Ready(s) THEN 1 ELSE @[a]]]

\* Variant: never gives up.
RetriedForEver(s, due) ==
    [s EXCEPT !.inflight = [a \in Response |->
        IF a \notin due \/ @[a] >= MaxAttempts THEN @[a] ELSE @[a] + 1]]

\* retry_pending_ai_responses, for those whose retry is due.
Retried(s, due) ==
    [s EXCEPT !.inflight = [a \in Response |->
        IF a \notin due THEN @[a] ELSE IF @[a] >= MaxAttempts THEN 0 ELSE @[a] + 1]]

Resent(s, due) == {a \in due : s.inflight[a] < MaxAttempts}

\* The 200 ms timer of listen.
Tick(due) ==
    /\ connected
    /\ LET s == IF PollEnds(h) THEN [Poll(h) EXCEPT !.asked = TRUE] ELSE Poll(h) IN
       /\ h' = Retried(Released(s), due)
       /\ jobs' = PollJobs(h)
       /\ net' = net \cup PollSends(h) \cup Ready(s) \cup Resent(s, due)
       /\ Track(PollTracks(h))
       /\ written' = written \ Ready(s)
    /\ UNCHANGED <<kindOf, connected, disk, replies, known, pastVars, scans, losses>>

\* SubmitTransactionResponse for a response: the words by which the handler
\* knows that the node has an answer.  Other words are only logged.
Done(verdict) == verdict \in {"accepted", "already", "same responder"}

OnSubmitResponse(reply) ==
    /\ connected /\ reply \in replies
    /\ replies' = replies \ {reply}
    /\ h' = [h EXCEPT !.inflight[reply] = 0]
    /\ UNCHANGED <<kindOf, connected, storeVars, net, known, rewardVars, pastVars, scans, losses>>

-----------------------------------------------------------------------------
\* Tasks on other threads.

\* load_and_run_inference: a text, or nothing (and a text too large to seal).
Inferred(result) ==
    /\ h.inference /= None /\ h.inference.at = "running"
    /\ h' = [h EXCEPT !.inference.at = result]
    /\ UNCHANGED <<kindOf, connected, storeVars, nodeVars, rewardVars, pastVars, scans, losses>>

\* upload_bytes_with_recovery: a CID, or a failure.
Published(result) ==
    /\ h.publish /= None /\ h.publish.at = "running"
    /\ h' = [h EXCEPT !.publish.at = result]
    /\ UNCHANGED <<kindOf, connected, storeVars, nodeVars, rewardVars, pastVars, scans, losses>>

\* A job done by the writer thread: a failed write is logged, and the Flush
\* that follows it is signalled all the same.
Saved(job, failed) == IF job[1] = "save" /\ ~failed THEN disk \cup {job[2]} ELSE disk

Signalled(job) == IF job[1] = "flush" THEN written \cup {job[2]} ELSE written

Write(failed) ==
    /\ jobs /= <<>>
    /\ failed => WritesFail /\ Head(jobs)[1] = "save"
    /\ disk' = Saved(Head(jobs), failed)
    /\ written' = Signalled(Head(jobs))
    /\ jobs' = Tail(jobs)
    /\ UNCHANGED <<kindOf, h, connected, nodeVars, rewardVars, pastVars, scans, losses>>

-----------------------------------------------------------------------------
\* The node: admits one response of this miner per request.

Verdicts(a) ==
    CASE a \in known -> {"already"}
      [] a \notin known /\ (\E b \in known : b[1] = a[1]) -> {"same responder"}
      [] OTHER -> {"accepted", "rejected"}

NodeAnswers(a, verdict) ==
    /\ connected /\ a \in net
    /\ verdict \in Verdicts(a)
    /\ net' = net \ {a}
    /\ known' = IF verdict = "accepted" THEN known \cup {a} ELSE known
    /\ replies' = IF Done(verdict) THEN replies \cup {a} ELSE replies
    /\ UNCHANGED <<kindOf, h, connected, storeVars, rewardVars, pastVars, scans, losses>>

-----------------------------------------------------------------------------
\* Lost connections, new ones and crashes.

\* Drop: waits for the writer when a response waits for it, and parks.  The
\* writes it waits for may fail.
Awaited(s) == IF s.persisting = {} THEN {} ELSE {jobs[i][2] : i \in 1 .. Len(jobs)}

Refusable(s) == IF WritesFail THEN Awaited(s) ELSE {}

\* Variant: the transactions that pay a reward are not parked.
ParkedWithoutTxids(s) ==
    [s EXCEPT !.seen = {}, !.answered = {}, !.persisting = {}, !.txids = {},
              !.inflight = [a \in Response |-> IF a \in s.persisting THEN 1 ELSE @[a]],
              !.asked = FALSE]

\* Variant: responses that wait for their trace are not parked.
ParkedWithoutPersisting(s) ==
    [s EXCEPT !.seen = {}, !.answered = {}, !.persisting = {}, !.asked = FALSE]

Parked(s) ==
    [s EXCEPT !.seen = {}, !.answered = {}, !.persisting = {},
              !.inflight = [a \in Response |-> IF a \in s.persisting THEN 1 ELSE @[a]],
              !.asked = FALSE]

\* The watcher is gone, and all that it tracked but what it kept on disk: the
\* next one starts from there.
WatcherEnds(kept) ==
    /\ tracked' = kept /\ ledger' = kept
    /\ lapsed' = lapsed \cup (tracked \ kept)

\* What the watcher's Drop (flush_state) leaves on disk.
Flushed == IF WritesFail THEN {ledger, tracked} ELSE {tracked}

Disconnect(failed) ==
    /\ connected /\ losses < MaxLosses
    /\ h' = Parked(h)
    /\ connected' = FALSE
    /\ disk' = disk \cup (Awaited(h) \ failed)
    /\ written' = {}
    /\ jobs' = IF h.persisting = {} THEN jobs ELSE <<>>
    /\ net' = {} /\ replies' = {}
    /\ \E kept \in Flushed : WatcherEnds(kept)
    /\ losses' = losses + 1
    /\ UNCHANGED <<kindOf, known, pastVars, scans>>

\* Variant: only the queue and the inference are remembered as seen.
RestoredUnanswered(s) ==
    [s EXCEPT !.seen = Elements(s.queue) \cup Working(s.inference), !.asked = TRUE]

\* restore_parked, in a handler whose sets are empty.
Restored(s) ==
    LET answered == Working(s.publish) \cup {a[1] : a \in Inflight(s)} IN
    [s EXCEPT !.seen = Elements(s.queue) \cup Working(s.inference) \cup answered,
              !.answered = answered,
              !.asked = TRUE]

\* connect; restore_traces has waited for the writer (load_all).
Connect ==
    /\ ~connected /\ jobs = <<>>
    /\ h' = Restored(h)
    /\ connected' = TRUE
    /\ served' = {}
    /\ UNCHANGED <<kindOf, storeVars, nodeVars, rewardVars, forgotten, scans, losses>>

\* The process stops: its memory and the jobs of its writer are gone, and the
\* rewards whose tracking had not reached the disk.
Crash ==
    /\ losses < MaxLosses
    /\ h' = [Idle EXCEPT !.made = h.made, !.asked = FALSE]
    /\ connected' = FALSE
    /\ jobs' = <<>> /\ written' = {}
    /\ net' = {} /\ replies' = {}
    /\ WatcherEnds(ledger)
    /\ losses' = losses + 1
    /\ UNCHANGED <<kindOf, disk, known, pastVars, scans>>

-----------------------------------------------------------------------------

Init ==
    /\ kindOf \in Kindings
    /\ h = Idle
    /\ connected = TRUE
    /\ jobs = <<>> /\ written = {} /\ disk = {}
    /\ net = {} /\ replies = {} /\ known = {}
    /\ tracked = {} /\ ledger = {} /\ lapsed = {}
    /\ forgotten = {} /\ served = {}
    /\ scans = 0 /\ losses = 0

Next ==
    \/ \E tx \in Transaction, ready, held \in BOOLEAN :
         \* without a model ready a request is passed over, as none, and a
         \* held engine starts nothing, as one that is ready
         /\ held \/ tx[1] = "request" => ready
         /\ OnBlock(tx, ready, held) \/ OnTemplate(tx, ready, held)
    \/ AskTemplate
    \/ \E due \in SUBSET Inflight(h) : Tick(due)
    \/ \E reply \in replies : OnSubmitResponse(reply)
    \/ \E result \in {"text", "none"} : Inferred(result) \/ Published(result)
    \/ \E failed \in BOOLEAN : Write(failed)
    \/ \E a \in net : \E verdict \in Verdicts(a) : NodeAnswers(a, verdict)
    \/ \E failed \in SUBSET Refusable(h) : Disconnect(failed)
    \/ Connect
    \/ Crash

Spec == Init /\ [][Next]_vars

\* Templates keep being asked for (the probe of a silent connection), and the
\* node answers; a model is ready and the card is free again and again; the
\* timer ticks past every retry; tasks and the writer thread end.
Fairness ==
    /\ WF_vars(AskTemplate)
    /\ SF_vars(OnTemplate(<<"none">>, TRUE, FALSE))
    /\ WF_vars(Tick(Inflight(h)))
    /\ WF_vars(\E result \in {"text", "none"} : Inferred(result))
    /\ WF_vars(\E result \in {"text", "none"} : Published(result))
    /\ WF_vars(\E failed \in BOOLEAN : Write(failed))
    /\ WF_vars(Connect)

FairSpec == Spec /\ Fairness

-----------------------------------------------------------------------------
\* Properties.

TypeOK ==
    /\ kindOf \in Kindings
    /\ h \in Handler
    /\ Len(h.queue) <= QueueCap
    /\ Cardinality(h.txids) <= SeenCap
    /\ connected \in BOOLEAN
    /\ jobs \in Seq({"save", "flush"} \X Response)
    /\ written \subseteq Response /\ disk \subseteq Response
    /\ net \subseteq Response /\ known \subseteq Response /\ replies \subseteq Response
    /\ ledger \subseteq tracked /\ tracked \cup lapsed \subseteq Rewarded
    /\ forgotten \subseteq Request /\ served \subseteq Request

\* A request is being worked on in one place: it is not queued again, inferred
\* again or answered again while an earlier answer is on its way, through lost
\* connections and whatever is scanned meanwhile; unless a full table of ids
\* was emptied over it.
OnePlace ==
    \A r \in Request \ forgotten :
        /\ Cardinality({i \in 1 .. 5 : r \in Places(h)[i]}) <= 1
        /\ Cardinality({i \in 1 .. Len(h.queue) : h.queue[i] = r}) <= 1
        /\ Cardinality({a \in h.persisting \cup Inflight(h) : a[1] = r}) <= 1

\* A traced response is on the wire or with the node only once its trace is on
\* disk: whenever the process stops, the audit can be opened.
WireIsOnDisk ==
    \A a \in net \cup known : Traced(a[1]) => a \in disk

\* Rewards that are tracked, or were until the watcher ended.
Accounted == tracked \cup lapsed

\* An answer to a request that pays is not on its way, nor with the node,
\* without its reward being tracked; unless a full table was emptied over it, or
\* the process stopped (or the disk refused) before the tracking was on disk and
\* the request was not answered again.
RewardIsTracked ==
    \A a \in h.persisting \cup Inflight(h) \cup known :
        a[1] \in Rewarded \ forgotten => a[1] \in Accounted

\* The books on a request agree, whichever step of the work it has reached: it
\* is in one of them, and its reward is in the tracker's before the answer goes.
BooksAgree == TypeOK /\ OnePlace /\ RewardIsTracked

\* Once this connection has scanned an answer of this miner, no inference is
\* started for that request.
AnsweredIsNotServed ==
    [][\A r \in served' \ forgotten' :
          r \in Working(h'.inference) => r \in Working(h.inference)]_vars

\* A request that is worked on leaves only for a reason: the node has an answer,
\* a task gave nothing, the model is gone, the attempts are used up, or the
\* process stops; unless a full table of ids was emptied over it.  Losing the
\* connection is no reason.
LeavesForAReason ==
    [][\A r \in (Owed(h) \ Owed(h')) \ forgotten :
          \/ \E a \in known : a[1] = r
          \/ h.inference = [req |-> r, at |-> "none"]
          \/ h.publish = [req |-> r, at |-> "none"]
          \/ connected /\ r \in Elements(h.queue) /\ h'.inference = None
          \/ \E a \in Inflight(h) : a[1] = r /\ h.inflight[a] = MaxAttempts
          \/ Crash]_vars

\* A request that is noted as seen is worked on, or is being answered; unless the
\* queue was full, and then it is dropped and not taken up by this connection.
NotedIsOwed ==
    [][\A r \in h'.seen \ h.seen : r \in Owed(h') \/ Len(h.queue) = QueueCap]_vars

\* The comment on MAX_AI_QUEUE_SIZE: the oldest request is dropped when the queue
\* is full, so the one just met is kept.  The code drops the one just met.
OldestIsDropped == [][h'.seen \ h.seen \subseteq Owed(h')]_vars

\* A request is not done twice, and not lost but over a full queue.
DoneOnce == AnsweredIsNotServed /\ LeavesForAReason /\ NotedIsOwed

\* The requests met being finitely many, work on all of them comes to an end.
WorkEnds == <>[](Owed(h) = {})
=============================================================================
