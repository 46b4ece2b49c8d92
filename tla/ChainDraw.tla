------------------------------ MODULE ChainDraw ------------------------------
(***************************************************************************)
(* The audit draw of src/client/grpc.rs.  A traced response is drawn from  *)
(* the first chain block that is TRACE_SEED_DELAY_DAA or more after the    *)
(* one that accepted it, and its opening has to be built for that very     *)
(* block.  The miner finds it in its own log of the selected chain, which  *)
(* it keeps from the node's notifications, whose scores arrive with later  *)
(* answers in any order, which reorganisations cut and extend, and which is*)
(* rebuilt page by page after every connection loss.                       *)
(*                                                                         *)
(* The node is a tree of blocks and a tip.  Its notifications and its      *)
(* answers about the chain come in the order it issues them; its answers   *)
(* about blocks come in any order.  The attention phases that follow the   *)
(* first opening, the node's list of awaited openings and the deadlines    *)
(* are left out; every response is audited, as the present rule has it.    *)
(***************************************************************************)
EXTENDS ChainTree, FiniteSets

CONSTANTS
    First,        \* the tip when the responses are sent
    Response,     \* traced responses this miner has submitted
    AcceptingOf,  \* blocks that accept a response unless an earlier one did
    Page,         \* CHAIN_RESTORE_PAGE_MIN, and the blocks of a full answer
    Window,       \* CHAIN_RESTORE_INFLIGHT
    LogTail,      \* CHAIN_LOG_TAIL
    MaxLosses,    \* bound: lost connections and crashes
    MaxErrors     \* bound: answers that are errors, and replays that fail

ASSUME DrawAssumption ==
    /\ First \in Block
    /\ AcceptingOf \in [Response -> SUBSET Block]
    /\ {Page, Window} \subseteq Nat \ {0}
    /\ {LogTail, MaxLosses, MaxErrors} \subseteq Nat

VARIABLES
    tip,        \* the node's virtual selected parent
    down,       \* messages of the node on the stream
    asking,     \* start of the chain request on its way, or NoBlock
    asked,      \* blocks requested on this connection, not answered yet
    connected,  \* whether listen is running
    c,          \* the handler's view of the chain and its pending traces
    replay,     \* replay_rx: <<response, seed block>>, or NoBlock
    disk,       \* the state files of the traces
    view,       \* history: the tip of the last message handled
    losses,     \* bound counter
    errors      \* bound counter

netVars == <<down, asking, asked>>
vars == <<tip, netVars, connected, c, replay, disk, view, losses, errors>>

-----------------------------------------------------------------------------
\* Chains in their order, as the node's messages give them.

Elements(q) == {q[i] : i \in 1 .. Len(q)}

ChainTo[b \in Block] ==
    IF Parent[b] = NoBlock THEN <<b>> ELSE Append(ChainTo[Parent[b]], b)

\* The chain of t after block b, which is on it.
After == [b \in Block, t \in Block |-> SelectSeq(ChainTo[t], LAMBDA x : Daa[x] > Daa[b])]

\* The last block of the chain of t on the chain of b.
Fork == [b \in Block, t \in Block |->
    CHOOSE x \in Block :
        /\ OnChain(x, b) /\ OnChain(x, t)
        /\ \A y \in Block : OnChain(y, b) /\ OnChain(y, t) => Daa[y] <= Daa[x]]

-----------------------------------------------------------------------------
\* The draw as the node's rule defines it.

AcceptedBy == [t \in Block, r \in Response |-> Earliest(Chain[t] \cap AcceptingOf[r])]

SeedOf == [t \in Block, r \in Response |->
    LET a == AcceptedBy[t, r] IN
    IF a = NoBlock THEN NoBlock
    ELSE FirstAfter(a, t)]

\* accepted_transaction_ids of the blocks in S, on the chain of t.
Acceptances(t, S) ==
    [r \in Response |-> IF AcceptedBy[t, r] \in S THEN AcceptedBy[t, r] ELSE NoBlock]

Message(type, from, t, added) ==
    [type |-> type, tip |-> t,
     removed |-> IF from = NoBlock THEN {} ELSE Chain[from] \ Chain[t],
     added |-> added, accepted |-> Acceptances(t, Elements(added))]

-----------------------------------------------------------------------------
\* The handler's state.

Entry == [b : Block, known : BOOLEAN]   \* ChainEntry; known when its score is

Handler ==
    [log      : Seq(Entry),                   \* chain_log
     acc      : [Response -> MaybeBlock],     \* accepted_hash
     seed     : [Response -> MaybeBlock],     \* seed_hash of the draw
     started  : [Response -> BOOLEAN],        \* opened of the draw
     opening  : [Response -> MaybeBlock],     \* seed block of the stored opening
     built    : [Response -> SUBSET Block],   \* seed blocks of the bodies kept
     starts   : Seq(Block),                   \* chain_restore_starts
     failed   : SUBSET Block,                 \* chain_restore_failures
     retry    : SUBSET Block,                 \* chain_restore_retry
     pages    : SUBSET Block,                 \* chain_restore_continuations
     queue    : Seq(Block),                   \* chain_restore_queue
     fetching : SUBSET Block,                 \* chain_restore_pending
     again    : SUBSET Block]                 \* chain_block_retry

None(S) == [r \in Response |-> S]

\* A new handler: restore_traces gives it the stored acceptances and openings.
Restored(stored) ==
    [log |-> <<>>, acc |-> [r \in Response |-> stored[r].acc], seed |-> None(NoBlock),
     started |-> None(FALSE), opening |-> [r \in Response |-> stored[r].opening],
     built |-> None({}),
     starts |-> <<>>, failed |-> {}, retry |-> {}, pages |-> {}, queue |-> <<>>,
     fetching |-> {}, again |-> {}]

\* What persist_trace writes; every change of it is followed by one.
Record(s) ==
    [r \in Response |-> [acc |-> s.acc[r], opening |-> s.opening[r], anchor |-> disk[r].anchor]]

Logged(s) == {s.log[i].b : i \in 1 .. Len(s.log)}

Known(s, b) == \E i \in 1 .. Len(s.log) : s.log[i] = [b |-> b, known |-> TRUE]

Position(log, b) == CHOOSE i \in 1 .. Len(log) : log[i].b = b

-----------------------------------------------------------------------------
\* Drawing: seed_block_after, rebuild_pending_after and resolve_traces.

\* Variant: a block whose score is unknown is passed over.
SeedBlockAfterKnown(log, a) ==
    LET far == {j \in Position(log, a) + 1 .. Len(log) : log[j].known /\ Daa[log[j].b] >= Daa[a] + Delay}
    IN  IF far = {} THEN NoBlock ELSE log[CHOOSE j \in far : \A k \in far : j <= k].b

SeedBlockAfter(log, a) ==
    LET i == Position(log, a)
        far == {j \in i + 1 .. Len(log) : log[j].known /\ Daa[log[j].b] >= Daa[a] + Delay}
        unknown == {j \in i .. Len(log) : ~log[j].known}
        first == CHOOSE j \in far : \A k \in far : j <= k
    IN  IF far = {} \/ (\E j \in unknown : j < first) THEN NoBlock ELSE log[first].b

RebuildPendingAfter(s, a) ==
    \E j \in Position(s.log, a) .. Len(s.log) : s.log[j].b \in s.failed \cup s.pages \cup s.retry

\* The seed block found for a response, NoBlock while there is none.
Found(s, r) ==
    LET a == s.acc[r] IN
    CASE a = NoBlock \/ a \notin Logged(s) -> NoBlock
      [] a \in Logged(s) /\ (a \in Elements(s.starts) \/ RebuildPendingAfter(s, a)) -> NoBlock
      [] OTHER -> IF s.opening[r] /= NoBlock /\ Known(s, s.opening[r]) /\ Known(s, a)
                  THEN s.opening[r] ELSE SeedBlockAfter(s.log, a)

Resolve(s) ==
    LET drawn == {r \in Response : s.seed[r] = NoBlock /\ Found(s, r) /= NoBlock} IN
    [s EXCEPT !.seed = [r \in Response |-> IF r \in drawn THEN Found(s, r) ELSE @[r]],
              !.started = [r \in Response |-> IF r \in drawn THEN s.opening[r] = Found(s, r)
                                              ELSE @[r]]]

-----------------------------------------------------------------------------
\* The chain log: on_chain_blocks_removed, place_chain_after, acceptances.

\* Variant: the log is cut and the traces keep what they hold.
RemovedFromLog(s, gone) == [s EXCEPT !.log = SelectSeq(@, LAMBDA e : e.b \notin gone)]

Removed(s, gone) ==
    LET lost  == {r \in Response : s.acc[r] \in gone}
        reset == lost \cup {r \in Response : s.seed[r] \in gone}
        Cut(f, S, v) == [r \in Response |-> IF r \in S THEN v ELSE f[r]]
    IN  [s EXCEPT !.log = SelectSeq(@, LAMBDA e : e.b \notin gone),
                  !.acc = Cut(@, lost, NoBlock), !.seed = Cut(@, reset, NoBlock),
                  !.started = Cut(@, reset, FALSE), !.opening = Cut(@, reset, NoBlock)]

Unscored(q) == [i \in 1 .. Len(q) |-> [b |-> q[i], known |-> FALSE]]

Appended(s, added) ==
    [s EXCEPT !.log = @ \o Unscored(SelectSeq(added, LAMBDA b : b \notin Logged(s)))]

Accepted(s, m) ==
    [s EXCEPT !.acc = [r \in Response |-> IF @[r] = NoBlock THEN m.accepted[r] ELSE @[r]]]

PlaceChainAfter(s, start, added) ==
    LET kept == SelectSeq(s.log, LAMBDA e : e.b \notin Elements(added))
        at == IF \E i \in 1 .. Len(kept) : kept[i].b = start
              THEN Position(kept, start) ELSE Len(kept)
        placed == [i \in 1 .. Len(added) |-> [b |-> added[i], known |-> Known(s, added[i])]]
    IN  [s EXCEPT !.log = SubSeq(kept, 1, at) \o placed \o SubSeq(kept, at + 1, Len(kept)),
                  !.queue = @ \o SelectSeq(added, LAMBDA b : ~Known(s, b))]

\* prune_traces: the log before the oldest accepting block, but for its tail.
Pruned(s) ==
    LET needed == {Position(s.log, s.acc[r]) : r \in {q \in Response : s.acc[q] \in Logged(s)}}
        first == IF needed = {} THEN Len(s.log) + 1 ELSE CHOOSE i \in needed : \A j \in needed : i <= j
        tail == IF Len(s.log) > LogTail THEN Len(s.log) - LogTail ELSE 0
        from == IF first - 1 < tail THEN first - 1 ELSE tail
    IN  [s EXCEPT !.log = SubSeq(@, from + 1, Len(@))]

-----------------------------------------------------------------------------
\* Rebuilding: start_chain_restore, chain_restore_pump, retries.

RestoreNeeded(s) == \E r \in Response : s.acc[r] /= NoBlock /\ s.seed[r] = NoBlock

\* Variant: the window is not respected.
PumpedAll(s) == Len(s.queue)

\* Blocks chain_restore_pump takes off its queue.
Pumped(s) ==
    LET full == {n \in 0 .. Len(s.queue) :
                    Cardinality(s.fetching \cup Elements(SubSeq(s.queue, 1, n))) >= Window}
    IN  IF full = {} THEN Len(s.queue) ELSE CHOOSE n \in full : \A k \in full : n <= k

Pump(s) ==
    IF ~RestoreNeeded(s) THEN [s EXCEPT !.queue = <<>>]
    ELSE [s EXCEPT !.fetching = @ \cup Elements(SubSeq(s.queue, 1, Pumped(s))),
                   !.queue = SubSeq(@, Pumped(s) + 1, Len(@))]

\* Blocks a pump asks the node for.
Asks(s) == Pump(s).fetching \ s.fetching

\* The blocks to rebuild from, in an order the map of traces decides.
RestoreFrom(s) ==
    {IF s.acc[r] /= NoBlock THEN s.acc[r] ELSE disk[r].anchor :
        r \in {q \in Response : s.seed[q] = NoBlock}} \ {NoBlock}

Orders(S) == {q \in [1 .. Cardinality(S) -> S] : Elements(q) = S}

Starting(s, order) ==
    LET fresh == SelectSeq(order, LAMBDA b : b \notin Logged(s)) IN
    [s EXCEPT !.log = @ \o Unscored(fresh), !.queue = @ \o fresh, !.starts = @ \o order]

Front(s) == IF s.starts = <<>> THEN NoBlock ELSE Head(s.starts)

\* A retry that is due: requeued while a trace needs it, forgotten otherwise.
Needed(s, b) ==
    \/ b \in s.pages /\ RestoreNeeded(s)
    \/ \E r \in Response : b = (IF s.acc[r] /= NoBlock THEN s.acc[r] ELSE disk[r].anchor)

-----------------------------------------------------------------------------
\* Messages of the node.

\* What follows each step of a rebuild: the pump, and the request for the next start.
RestoreGoesOn(s) ==
    /\ c' = Pump(s)
    /\ asked' = asked \cup Asks(s)
    /\ asking' = Front(s)

\* NotifyVirtualSelectedParentChainChangedResponse: start_chain_restore.
OnRegistered(m) ==
    \E order \in Orders(RestoreFrom(c)) :
    \E h \in {Starting(c, order)} : RestoreGoesOn(h)

\* VirtualSelectedParentChainChangedNotification.
OnChainChanged(m) ==
    /\ c' = Accepted(Appended(Removed(c, m.removed), m.added), m)
    /\ asked' = asked \cup Elements(m.added)
    /\ UNCHANGED asking

\* GetVirtualSelectedParentChainFromBlockResponse: a full page is followed by
\* another request from its last block.
Turned(s, m) ==
    LET start == Head(s.starts)
        last == IF Len(m.added) >= Page THEN {m.added[Len(m.added)]} ELSE {}
    IN  [s EXCEPT !.starts = (IF last = {} THEN <<>> ELSE <<m.added[Len(m.added)]>>) \o Tail(@),
                  !.failed = @ \ {start},
                  !.pages = (@ \ {start}) \cup last]

RestoreFailed(s) ==
    [s EXCEPT !.starts = Tail(@), !.failed = @ \cup {Head(s.starts)},
              !.retry = @ \cup {Head(s.starts)}]

OnChainAnswer(m) ==
    \E h1 \in {Removed(Turned(c, m), m.removed)} :
    \E h2 \in {PlaceChainAfter(h1, Head(c.starts), m.added)} :
    \E h3 \in {Accepted(h2, m)} :
    \E h4 \in {Resolve(h3)} : RestoreGoesOn(h4)

OnChainError ==
    \E h1 \in {RestoreFailed(c)} :
    \E h2 \in {Resolve(h1)} : RestoreGoesOn(h2)

OnMessage ==
    /\ connected /\ down /= <<>>
    /\ down' = Tail(down)
    /\ view' = Head(down).tip
    /\ LET m == Head(down) IN
       \/ m.type = "registered" /\ OnRegistered(m)
       \/ m.type = "changed" /\ OnChainChanged(m)
       \/ m.type = "chain" /\ OnChainAnswer(m)
       \/ m.type = "error" /\ OnChainError
    /\ UNCHANGED <<tip, connected, replay, disk, losses, errors>>

\* GetBlockResponse: note_chain_block, resolve_traces.
Scored(s, b) ==
    [s EXCEPT !.log = [i \in 1 .. Len(@) |-> IF @[i].b = b
                           THEN [b |-> b, known |-> TRUE] ELSE @[i]]]

\* chain_restore_pending gives way to the next of the queue.
Fetched(s, b) == IF b \in s.fetching THEN Pump([s EXCEPT !.fetching = @ \ {b}]) ELSE s

FetchAsks(s, b) == Fetched(s, b).fetching \ (s.fetching \ {b})

OnBlock(b) ==
    /\ connected /\ b \in asked
    /\ \E h \in {Scored(c, b)} :
       \E s \in {Resolve(h)} :
          /\ c' = Fetched(s, b)
          /\ asked' = (asked \ {b}) \cup FetchAsks(s, b)
    /\ UNCHANGED <<tip, down, asking, connected, replay, disk, view, losses, errors>>

\* The answer about a block that is not of the log, asked for the escrow or by
\* the backfill, or of a later chain block, resolves too.
OnOtherBlock ==
    /\ connected
    /\ c' = Resolve(c)
    /\ UNCHANGED <<tip, netVars, connected, replay, disk, view, losses, errors>>

\* Variant: an error is only logged.
RetriedNever(s, b) == s

\* The same, as an error: a block of the log is asked for again later.
Retried(s, b) ==
    [s EXCEPT !.again = IF b \in Logged(s) /\ ~Known(s, b) THEN @ \cup {b} ELSE @]

OnBlockError(b) ==
    /\ connected /\ b \in asked /\ errors < MaxErrors
    /\ c' = Fetched(Retried(c, b), b)
    /\ asked' = (asked \ {b}) \cup FetchAsks(Retried(c, b), b)
    /\ errors' = errors + 1
    /\ UNCHANGED <<tip, down, asking, connected, replay, disk, view, losses>>

-----------------------------------------------------------------------------
\* The timer of listen, one action per piece that waits for a time of its own.

RetryChainBlocks(b) ==
    /\ connected /\ b \in c.again
    /\ LET wanted == b \in Logged(c) /\ ~Known(c, b) IN
       /\ wanted => b \notin asked
       /\ c' = IF wanted THEN c ELSE [c EXCEPT !.again = @ \ {b}]
       /\ asked' = IF wanted THEN asked \cup {b} ELSE asked
    /\ UNCHANGED <<tip, down, asking, connected, replay, disk, view, losses, errors>>

RetryChainRestores(b) ==
    /\ connected /\ b \in c.retry
    /\ LET s == [c EXCEPT !.retry = @ \ {b}] IN
       /\ c' = IF Needed(c, b) THEN [s EXCEPT !.starts = Append(@, b)]
               ELSE [s EXCEPT !.failed = @ \ {b}, !.pages = @ \ {b}]
       /\ asking' = IF c.starts = <<>> /\ Needed(c, b) THEN b ELSE asking
    /\ UNCHANGED <<tip, down, asked, connected, replay, disk, view, losses, errors>>

PruneTraces ==
    /\ connected
    /\ c' = Pruned(c)
    /\ UNCHANGED <<tip, netVars, connected, replay, disk, view, losses, errors>>

\* try_start_replay and poll_replay.

Owing(s, r) == s.seed[r] /= NoBlock /\ ~s.started[r]

\* submit_opening for the seed of the current draw.
Submitted(s, r, b) ==
    [s EXCEPT !.started[r] = TRUE, !.opening[r] = b]

SubmitBuilt(r) ==
    /\ connected /\ Owing(c, r) /\ c.seed[r] \in c.built[r]
    /\ c' = Submitted(c, r, c.seed[r])
    /\ UNCHANGED <<tip, netVars, connected, replay, disk, view, losses, errors>>

StartReplay(r) ==
    /\ connected /\ replay = NoBlock
    /\ Owing(c, r) /\ c.seed[r] \notin c.built[r]
    /\ c' = [c EXCEPT !.started[r] = TRUE]
    /\ replay' = <<r, c.seed[r]>>
    /\ UNCHANGED <<tip, netVars, connected, disk, view, losses, errors>>

\* Variant: the draw may have changed while the replay ran.
ReplayEndsBlind(s, r, b) == Submitted([s EXCEPT !.built[r] = @ \cup {b}], r, b)

ReplayEnds(s, r, b) ==
    LET kept == [s EXCEPT !.built[r] = @ \cup {b}] IN
    IF s.seed[r] = b THEN Submitted(kept, r, b) ELSE kept

PollReplay ==
    /\ connected /\ replay /= NoBlock
    /\ c' = ReplayEnds(c, replay[1], replay[2])
    /\ replay' = NoBlock
    /\ UNCHANGED <<tip, netVars, connected, disk, view, losses, errors>>

PollReplayFailed ==
    /\ connected /\ replay /= NoBlock /\ errors < MaxErrors
    /\ c' = IF c.seed[replay[1]] = replay[2] THEN [c EXCEPT !.started[replay[1]] = FALSE] ELSE c
    /\ replay' = NoBlock
    /\ errors' = errors + 1
    /\ UNCHANGED <<tip, netVars, connected, disk, view, losses>>

-----------------------------------------------------------------------------
\* The node: its tip moves to a chain with more work, and it answers.

NodeMoves(t) ==
    /\ Daa[t] > Daa[tip]
    /\ tip' = t
    /\ down' = IF connected
               THEN Append(down, Message("changed", tip, t, After[Fork[tip, t], t]))
               ELSE down
    /\ UNCHANGED <<asking, asked, connected, c, replay, disk, view, losses, errors>>

NodeAnswers ==
    /\ connected /\ asking /= NoBlock
    /\ asking' = NoBlock
    /\ LET added == After[Fork[asking, tip], tip]
           n == IF Len(added) > Page THEN Page ELSE Len(added)
       IN  down' = Append(down, Message("chain", asking, tip, SubSeq(added, 1, n)))
    /\ UNCHANGED <<tip, asked, connected, c, replay, disk, view, losses, errors>>

NodeRefuses ==
    /\ connected /\ asking /= NoBlock /\ errors < MaxErrors
    /\ asking' = NoBlock
    /\ down' = Append(down, Message("error", NoBlock, tip, <<>>))
    /\ errors' = errors + 1
    /\ UNCHANGED <<tip, asked, connected, c, replay, disk, view, losses>>

-----------------------------------------------------------------------------
\* The store's writer, lost connections and crashes.

Write(r) ==
    /\ disk[r] /= Record(c)[r]
    /\ disk' = [disk EXCEPT ![r] = Record(c)[r]]
    /\ UNCHANGED <<tip, netVars, connected, c, replay, view, losses, errors>>

Disconnect ==
    /\ connected /\ losses < MaxLosses
    /\ connected' = FALSE
    /\ down' = <<>> /\ asked' = {} /\ asking' = NoBlock
    /\ losses' = losses + 1
    /\ UNCHANGED <<tip, c, replay, disk, view, errors>>

\* connect: load_all waits for the writer.  The answer to the registration is
\* the first message of the stream.
Connect ==
    /\ ~connected
    /\ disk' = Record(c)
    /\ c' = Restored(disk')
    /\ connected' = TRUE
    /\ down' = <<Message("registered", NoBlock, tip, <<>>)>>
    /\ UNCHANGED <<tip, asking, asked, replay, view, losses, errors>>

Crash ==
    /\ losses < MaxLosses
    /\ c' = Restored(disk)
    /\ replay' = NoBlock
    /\ connected' = FALSE
    /\ down' = <<>> /\ asked' = {} /\ asking' = NoBlock
    /\ losses' = losses + 1
    /\ UNCHANGED <<tip, disk, view, errors>>

-----------------------------------------------------------------------------

\* The responses have been sent, with the tip as their anchor; that block may
\* accept some of them.
Init ==
    /\ tip = First /\ view = First
    /\ disk = [r \in Response |-> [acc |-> AcceptedBy[First, r], opening |-> NoBlock, anchor |-> First]]
    /\ c = [Restored(disk) EXCEPT !.log = [i \in 1 .. Len(ChainTo[First]) |->
                                           [b |-> ChainTo[First][i], known |-> TRUE]]]
    /\ down = <<>> /\ asking = NoBlock /\ asked = {}
    /\ connected = TRUE
    /\ replay = NoBlock
    /\ losses = 0 /\ errors = 0

Next ==
    \/ OnMessage
    \/ \E b \in asked : OnBlock(b) \/ OnBlockError(b)
    \/ OnOtherBlock
    \/ \E b \in c.again : RetryChainBlocks(b)
    \/ \E b \in c.retry : RetryChainRestores(b)
    \/ PruneTraces
    \/ \E r \in Response : SubmitBuilt(r) \/ StartReplay(r)
    \/ PollReplay \/ PollReplayFailed
    \/ \E t \in Block : NodeMoves(t)
    \/ NodeAnswers \/ NodeRefuses
    \/ \E r \in Response : Write(r)
    \/ Disconnect \/ Connect \/ Crash

Spec == Init /\ [][Next]_vars

\* Messages are handled and requests answered; blocks keep coming; timers come
\* due; a replay ends.
\* The first two are weak fairness with the enabling condition written out.
\* The bound on errors stands for a node and a model that work in the end.
Fairness ==
    /\ []<>(~connected \/ down = <<>>) \/ []<><<OnMessage>>_vars
    /\ []<>(~connected \/ asked = {}) \/ []<><<\E b \in asked : OnBlock(b)>>_vars
    /\ []<>(~connected \/ Resolve(c) = c) \/ []<><<OnOtherBlock>>_vars
    /\ WF_vars(\E b \in c.again : RetryChainBlocks(b))
    /\ WF_vars(\E b \in c.retry : RetryChainRestores(b))
    /\ WF_vars(\E r \in Response : SubmitBuilt(r) \/ StartReplay(r))
    /\ WF_vars(PollReplay)
    /\ WF_vars(NodeAnswers)
    /\ WF_vars(Connect)

FairSpec == Spec /\ Fairness

-----------------------------------------------------------------------------
\* Properties.

\* Types, and the window of chain_restore_pump on the requests under way.
TypeOK ==
    /\ {tip, view} \subseteq Block
    /\ asking \in MaybeBlock /\ asked \subseteq Block
    /\ connected \in BOOLEAN
    /\ c \in Handler
    /\ replay \in (Response \X Block) \cup {NoBlock}
    /\ disk \in [Response -> [acc : MaybeBlock, opening : MaybeBlock, anchor : MaybeBlock]]
    /\ Cardinality(c.fetching) <= Window

\* A response is drawn from the block the node's rule names on the chain the
\* node has announced so far (resolve_traces): not from a block past a gap in
\* the log, nor from one a reorganisation has removed.  The exception is a
\* block a rebuild still starts at: it was the accepting block of another
\* response when the connection was lost, it stays in the log until the node's
\* answer removes it, and until then a stored opening may draw it again.
DrawIsReference ==
    \A r \in Response : c.seed[r] \in {NoBlock, SeedOf[view, r]} \cup Elements(c.starts) \cup c.retry

\* Whether the chain since the last connection is still being asked for.
Rebuilding ==
    c.starts /= <<>> \/ c.retry /= {} \/ (\E i \in 1 .. Len(down) : down[i].type = "registered")

\* With no rebuild outstanding, the accepting block the miner holds for a
\* response (accepted_hash) is the one on the announced chain, through
\* reorganisations, lost notifications and crashes.
AcceptanceIsCurrent ==
    connected /\ ~Rebuilding => \A r \in Response : c.acc[r] = AcceptedBy[view, r]

\* The chain log of the handler is as good as the node's chain: what is drawn
\* from it, and what it says of acceptances, is of the announced chain.
LogIsTheChain == TypeOK /\ DrawIsReference /\ AcceptanceIsCurrent

\* A running handler submits a new opening (poll_replay, submit_opening) only
\* for the seed block of the announced chain, though the replay it comes from
\* was started for an earlier draw.
OpeningIsCurrent ==
    [][connected /\ connected' =>
          \A r \in Response : c'.opening[r] \notin {c.opening[r], NoBlock} =>
              c'.opening[r] = SeedOf[view', r]]_vars

\* Once the chain and the connection hold, the miner submits the opening of
\* every response the node has drawn, for the node's seed block.
AuditsAreOpened ==
    <>[](\A r \in Response : SeedOf[tip, r] /= NoBlock =>
           c.opening[r] = SeedOf[tip, r] /\ c.seed[r] = SeedOf[tip, r] /\ c.started[r])
=============================================================================
