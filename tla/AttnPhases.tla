----------------------------- MODULE AttnPhases -----------------------------
(***************************************************************************)
(* The attention phases of an audited response in src/client/grpc.rs.  The *)
(* first opening commits to partial sums; the chain accepts it, a block    *)
(* Delay later draws one of its children, the miner opens that child in a  *)
(* further transaction, and so on down to a leaf.  The miner follows the   *)
(* descent from the node's notifications, undoes what a reorganisation     *)
(* undid, and takes from the node's list of awaited openings the seeds and *)
(* deadlines it may have estimated wrongly.                                *)
(*                                                                         *)
(* How the log of the chain is kept and rebuilt is the subject of          *)
(* ChainDraw; here the log is the chain of the last tip announced, and the *)
(* rebuild after a lost connection is one step.  The network is a tree of  *)
(* blocks.  A block accepts at most the opening its chain awaits, of those *)
(* the network has been sent, which it never forgets: a transaction of a   *)
(* removed block stays in the block graph and is merged again.             *)
(***************************************************************************)
EXTENDS ChainTree

CONSTANTS
    First,        \* the tip when the response is sent, its anchor
    Accepting,    \* blocks that accept the response unless an earlier one did
    ChildOf,      \* child each block draws
    Depth,        \* phases after the first opening, 0 for a tier without attention
    FirstWindow,  \* opening_window_daa and attn_first_prompt_daa
    PhaseWindow,  \* attn_phase_window_daa
    Slack,        \* what the node's backlog adds to the miner's deadlines
    BacklogCap,   \* OPENING_BACKLOG_CAP_DAA
    Unopened,     \* TRACE_UNDRAWN_LIMIT_DAA
    Listing,      \* node_awaited_openings: the node knows the request
    Past,         \* accepting block of a phase restored before the last, ""
    NoTx,         \* absence of a transaction
    Unmined,      \* a block that does not exist yet
    Gone,         \* a trace that prune_traces dropped
    None,         \* absence of a draw or of phases
    MaxLosses,    \* bound: lost connections
    MaxErrors     \* bound: replays that build nothing

Opening == [seed : Block, path : Seq(Nat)]

\* What a block accepts, and the descent on its chain.
Descent == [takes : Opening \cup {NoTx}, seed : MaybeBlock, path : Seq(Nat), acc : MaybeBlock]

TraceDraw == [seed : Block, deadline : Nat, started : BOOLEAN]

ASSUME PhasesAssumption ==
    /\ First \in Block /\ Accepting \subseteq Block
    /\ ChildOf \in [Block -> Nat]
    /\ {Depth, FirstWindow, PhaseWindow, Slack, BacklogCap, Unopened, MaxLosses, MaxErrors} \subseteq Nat
    /\ Listing \in BOOLEAN
    /\ Past \notin MaybeBlock
    /\ NoTx \notin Opening /\ Unmined \notin Descent /\ None \notin TraceDraw

VARIABLES
    tip,        \* the node's virtual selected parent
    mined,      \* the opening each block accepts, and the descent on its chain
    known,      \* openings the network has been sent
    connected,  \* whether listen is running
    view,       \* the tip the chain log ends with
    p,          \* the PendingTrace of the response
    inflight,   \* opening_inflight: deadline of each transaction
    job,        \* replay_rx: the opening being built, or NoTx
    missed,     \* history: blocks that left the chain while not connected
    forgot,     \* history: a new handler was given less than the old one knew
    losses, errors  \* bound counters

nodeVars == <<tip, mined, known>>
vars == <<nodeVars, connected, view, p, inflight, job, missed, forgot, losses, errors>>

-----------------------------------------------------------------------------
\* The node.  An opening is named by the seed block and the path it is for: a
\* phase built again for the same child is the same transaction.

Tx(seed, path) == [seed |-> seed, path |-> path]

AcceptedBy == [t \in Block |-> Earliest(Chain[t] \cap Accepting)]

SeedOf == [t \in Block |->
    IF AcceptedBy[t] = NoBlock THEN NoBlock ELSE FirstAfter(AcceptedBy[t], t)]

\* A block accepts at most one opening.  With it goes the descent on its chain:
\* the seed block, the children drawn, and the block that accepted the last
\* opening, while the next child is not drawn.
Mined(b, x) ==
    LET l == mined[Parent[b]] IN
    CASE l.seed = NoBlock -> [l EXCEPT !.takes = x, !.seed = SeedOf[b]]
      [] l.seed /= NoBlock /\ l.acc = NoBlock ->
            [l EXCEPT !.takes = x, !.acc = IF x = NoTx THEN NoBlock ELSE b]
      [] l.seed /= NoBlock /\ l.acc /= NoBlock ->
            IF Len(l.path) < Depth /\ Daa[b] >= Daa[l.acc] + Delay
            THEN [l EXCEPT !.takes = x, !.path = Append(@, ChildOf[b]), !.acc = NoBlock]
            ELSE [l EXCEPT !.takes = x]

Genesis == [takes |-> NoTx, seed |-> NoBlock, path |-> <<>>, acc |-> NoBlock]

Takes(b) == mined[b].takes

\* The opening the chain of t waits for, and whether the node lists the response.
Awaited(t) ==
    LET l == mined[t] IN
    IF l.seed /= NoBlock /\ l.acc = NoBlock THEN Tx(l.seed, l.path) ELSE NoTx

Listed(t) ==
    LET l == mined[t] IN l.seed /= NoBlock /\ (l.acc = NoBlock \/ Len(l.path) < Depth)

NodeDeadline(t) ==
    LET l == mined[t] IN
    Slack + Daa[l.seed] + FirstWindow + (IF l.path = <<>> THEN 0 ELSE PhaseWindow)

-----------------------------------------------------------------------------
\* AttnPhases: new, restored, awaiting_draw, next_phase_owed, on_removed.

New(tx, deadline) ==
    [txs |-> <<tx>>, accepted |-> <<NoBlock>>, path |-> <<>>, children |-> <<>>,
     deadline |-> deadline, opened |-> FALSE, dropped |-> {}, late |-> {}]

\* Of the phases before the last only the path is known; a child drawn for a
\* phase that was not built is drawn again.
RestoredPhases(a) ==
    LET n == Len(a.txs) IN
    [New(a.txs[n], a.deadline) EXCEPT
        !.txs = [i \in 1 .. n |-> IF i < n THEN NoTx ELSE a.txs[n]],
        !.accepted = [i \in 1 .. n |-> IF i < n THEN Past ELSE a.accepted[n]],
        !.path = SubSeq(a.path, 1, n - 1),
        !.children = [i \in 1 .. n - 1 |-> NoBlock]]

AwaitingDraw(a) ==
    /\ Len(a.path) + 1 = Len(a.txs) /\ Len(a.path) < Depth
    /\ a.accepted[Len(a.txs)] \in Block

NextPhaseOwed(a) == Len(a.path) = Len(a.txs)

\* Variant: only the acceptances are looked at.
UndoneAcceptance(a, gone) == {i \in 1 .. Len(a.accepted) : a.accepted[i] \in gone}

Undone(a, gone) ==
    {i \in 1 .. Len(a.accepted) : a.accepted[i] \in gone}
        \cup {i \in 1 .. Len(a.children) : a.children[i] \in gone}

OnRemoved(a, gone) ==
    LET cut == CHOOSE i \in Undone(a, gone) : \A j \in Undone(a, gone) : i <= j
        kept == SubSeq(a.accepted, 1, cut)
    IN  [a EXCEPT !.txs = SubSeq(@, 1, cut),
                  !.accepted = IF kept[cut] \in gone THEN [kept EXCEPT ![cut] = NoBlock] ELSE kept,
                  !.path = SubSeq(@, 1, cut - 1),
                  !.children = SubSeq(@, 1, cut - 1),
                  !.opened = FALSE,
                  !.dropped = @ \cup {a.txs[i] : i \in cut + 1 .. Len(a.txs)}]

\* note_phase_acceptances for the blocks of S, of one chain.
\* Variant: an acceptance of a phase a reorganisation dropped is not kept.
NotePhasesLast(a, S) ==
    LET n == Len(a.txs)
        last == {b \in S : Takes(b) = a.txs[n] /\ a.accepted[n] = NoBlock}
    IN  [a EXCEPT !.accepted[n] = IF last = {} THEN @ ELSE CHOOSE b \in last : TRUE]

NotePhases(a, S) ==
    LET n == Len(a.txs)
        last == {b \in S : Takes(b) = a.txs[n] /\ a.accepted[n] = NoBlock}
        late == {b \in S \ last : Takes(b) \in a.dropped}
    IN  [a EXCEPT !.accepted[n] = IF last = {} THEN @ ELSE CHOOSE b \in last : TRUE,
                  !.late = {e \in @ : \A b \in late : e[1] /= Takes(b)} \cup {<<Takes(b), b>> : b \in late}]

LateBlock(a, x) ==
    IF \E e \in a.late : e[1] = x THEN (CHOOSE e \in a.late : e[1] = x)[2] ELSE NoBlock

-----------------------------------------------------------------------------
\* The handler: s is its trace with its openings in flight.

State(q, f) == [p |-> q, f |-> f]

Trace == State(p, inflight)

\* What restore_traces gives a new handler.
Restored(s) ==
    LET q == s.p
        a == IF q.attn = None THEN None ELSE RestoredPhases(q.attn)
        first == IF q.opening = NoBlock THEN {} ELSE {Tx(q.opening, <<>>)}
        last == IF a = None THEN {} ELSE {a.txs[Len(a.txs)]}
    IN  State([q EXCEPT !.draw = None, !.built = {}, !.phase = NoTx, !.awaits = "unknown", !.attn = a],
              [x \in first \cup last |-> IF x \in last THEN a.deadline ELSE q.openingDeadline])

Without(f, S) == [x \in DOMAIN f \ S |-> f[x]]

Flying(f, x, deadline) == [y \in DOMAIN f \cup {x} |-> IF y = x THEN deadline ELSE f[y]]

\* on_chain_blocks_removed.
Removed(s, gone) ==
    LET q == s.p
        a == IF q.attn = None THEN None ELSE [q.attn EXCEPT !.late = {e \in @ : e[2] \notin gone}]
        cut == OnRemoved(a, gone)
        Reset(acc) == State([q EXCEPT !.acc = acc, !.draw = None, !.opening = NoBlock, !.attn = None], <<>>)
    IN  CASE q.acc \in gone -> Reset(NoBlock)
          [] q.acc \notin gone /\ q.draw /= None /\ q.draw.seed \in gone -> Reset(q.acc)
          [] q.acc \notin gone /\ (q.draw /= None => q.draw.seed \notin gone)
                /\ a /= None /\ Undone(a, gone) /= {} ->
                State([q EXCEPT !.attn =
                          [cut EXCEPT !.deadline = IF q.draw /= None /\ q.draw.deadline < @
                                                   THEN q.draw.deadline ELSE @]],
                      Without(s.f, cut.dropped \ a.dropped))
          [] OTHER -> [s EXCEPT !.p.attn = a]

\* The acceptances of the blocks S of the chain of t: the response, then
\* note_opening_acceptances and note_phase_acceptances.
Noted(s, S, t) ==
    State([s.p EXCEPT !.acc = IF @ = NoBlock /\ AcceptedBy[t] \in S THEN AcceptedBy[t] ELSE @,
                      !.attn = IF @ = None THEN None ELSE NotePhases(@, S)],
          Without(s.f, {Takes(b) : b \in S}))

\* resolve_traces: the draw of the response, then the child of the last phase,
\* for which the draw has to be there already.
Drawn(q) ==
    LET seed == IF q.opening /= NoBlock /\ OnChain(q.opening, view) THEN q.opening
                ELSE FirstAfter(q.acc, view)
    IN  IF q.draw /= None \/ q.acc = NoBlock \/ seed = NoBlock THEN q.draw
        ELSE [seed |-> seed, deadline |-> Daa[seed] + FirstWindow, started |-> q.opening = seed]

ChildDrawn(d, a) ==
    LET by == a.accepted[Len(a.txs)]
        b == FirstAfter(by, view)
        due == Daa[by] + Delay + PhaseWindow
    IN  IF ~OnChain(by, view) \/ b = NoBlock THEN a
        ELSE [a EXCEPT !.path = Append(@, ChildOf[b]), !.children = Append(@, b), !.opened = FALSE,
                       !.deadline = IF due > d.deadline THEN due ELSE d.deadline]

Resolve(q) ==
    [q EXCEPT !.draw = Drawn(q),
              !.attn = IF q.draw /= None /\ @ /= None /\ AwaitingDraw(@) THEN ChildDrawn(q.draw, @)
                       ELSE @]

\* submit_opening: nothing when the draw has changed.
Submitted(s, seed) ==
    LET q == s.p
        x == Tx(seed, <<>>)
    IN  IF q.draw = None \/ q.draw.seed /= seed THEN s
        ELSE State([q EXCEPT !.draw.started = TRUE, !.opening = seed, !.openingDeadline = q.draw.deadline,
                             !.attn = IF Depth > 0 THEN New(x, q.draw.deadline) ELSE @],
                   Flying(s.f, x, q.draw.deadline))

\* on_attention_phase_built: a phase for a path that is no longer drawn is kept.
Current(q, x) ==
    /\ q.draw /= None /\ q.draw.seed = x.seed
    /\ q.attn /= None /\ q.attn.path = x.path /\ Len(q.attn.txs) = Len(x.path)

PhaseBuilt(s, x) ==
    LET q == s.p
        a == q.attn
    IN  IF ~Current(q, x) THEN [s EXCEPT !.p.phase = x]
        ELSE State([q EXCEPT !.attn = [a EXCEPT !.txs = Append(@, x),
                                                !.accepted = Append(@, LateBlock(a, x)),
                                                !.late = {e \in @ : e[1] /= x}]],
                   Flying(s.f, x, a.deadline))

-----------------------------------------------------------------------------
\* Messages of the node.

Become(s) == p' = s.p /\ inflight' = s.f

\* VirtualSelectedParentChainChangedNotification.
ChainChanged(from, t) ==
    IF p = Gone THEN UNCHANGED <<p, inflight>>
    ELSE \E s \in {Removed(Trace, Chain[from] \ Chain[t])} :
            Become(Noted(s, Chain[t] \ Chain[from], t))

\* GetBlockResponse: every one is followed by resolve_traces.
OnBlock ==
    /\ connected /\ p /= Gone
    /\ p' = Resolve(p)
    /\ UNCHANGED <<nodeVars, connected, view, inflight, job, missed, forgot, losses, errors>>

\* Now is last_known_daa.
Now == Daa[view]

\* poll_awaited_openings, and apply_awaited_openings with the answer.
Polled(q) ==
    /\ q.acc /= NoBlock
    /\ q.draw /= None => \/ Now <= q.draw.deadline + BacklogCap
                         \/ q.attn /= None /\ (NextPhaseOwed(q.attn) \/ AwaitingDraw(q.attn))

SeededByNode(s, seed, deadline) ==
    LET q == s.p
        kept == q.opening = seed
        d == [seed |-> seed, deadline |-> deadline, started |-> kept]
    IN  IF kept THEN [s EXCEPT !.p.draw = d]
        ELSE State([q EXCEPT !.draw = d, !.attn = None, !.opening = NoBlock], <<>>)

\* An opening of one transaction that a block accepted and the chain lost.
SentAgain(s, deadline) ==
    LET q == s.p
        idle == s.f = <<>> /\ job = NoTx
    IN  CASE ~(q.draw.started /\ idle /\ q.attn = None) -> s
          [] q.draw.started /\ idle /\ q.attn = None /\ q.opening = q.draw.seed ->
                [s EXCEPT !.f = Flying(@, Tx(q.opening, <<>>), deadline)]
          [] OTHER -> [s EXCEPT !.p.draw.started = FALSE]

Applied(s, seed, deadline) ==
    LET q == s.p
        phases == q.attn /= None /\ q.attn.path /= <<>>
        due == IF q.draw = None \/ q.draw.seed /= seed THEN SeededByNode(s, seed, deadline)
               ELSE IF phases THEN [s EXCEPT !.p.attn.deadline = deadline]
               ELSE SentAgain([s EXCEPT !.p.draw.deadline = deadline], deadline)
    IN  [due EXCEPT !.f = [x \in DOMAIN @ |-> deadline]]

OnAwaited ==
    /\ connected /\ Listing /\ p /= Gone /\ Polled(p)
    /\ \E s \in {State([p EXCEPT !.awaits = IF Listed(view) THEN "yes" ELSE "no"], inflight)} :
          Become(IF Listed(view) THEN Applied(s, mined[view].seed, NodeDeadline(view)) ELSE s)
    /\ UNCHANGED <<nodeVars, connected, view, job, missed, forgot, losses, errors>>

-----------------------------------------------------------------------------
\* The timer of listen.

\* try_start_replay leaves what the node does not list past its deadline.
Released(q, deadline) == Listing /\ deadline <= Now /\ q.awaits /= "yes"

OwesFirst(q) == q.draw /= None /\ ~q.draw.started

OwesPhase(q) == q.draw /= None /\ q.attn /= None /\ NextPhaseOwed(q.attn) /\ ~q.attn.opened

SubmitBuilt ==
    /\ connected /\ p /= Gone
    /\ OwesFirst(p) /\ p.draw.seed \in p.built
    /\ Become(Submitted(Trace, p.draw.seed))
    /\ UNCHANGED <<nodeVars, connected, view, job, missed, forgot, losses, errors>>

StartReplay ==
    /\ connected /\ p /= Gone /\ job = NoTx
    /\ OwesFirst(p) /\ p.draw.seed \notin p.built /\ ~Released(p, p.draw.deadline)
    /\ p' = [p EXCEPT !.draw.started = TRUE]
    /\ job' = Tx(p.draw.seed, <<>>)
    /\ UNCHANGED <<nodeVars, connected, view, inflight, missed, forgot, losses, errors>>

StartAttentionPhase ==
    /\ connected /\ p /= Gone /\ job = NoTx
    /\ OwesPhase(p) /\ ~Released(p, p.attn.deadline)
    /\ LET x == Tx(p.draw.seed, p.attn.path)
           opened == [p EXCEPT !.attn.opened = TRUE]
       IN  \/ /\ p.phase = x
              /\ Become(PhaseBuilt(State([opened EXCEPT !.phase = NoTx], inflight), x))
              /\ UNCHANGED job
           \/ /\ p.phase /= x
              /\ p' = opened /\ job' = x
              /\ UNCHANGED inflight
    /\ UNCHANGED <<nodeVars, connected, view, missed, forgot, losses, errors>>

ReplayEnds(s, x) ==
    IF x.path /= <<>> THEN PhaseBuilt(s, x)
    ELSE Submitted([s EXCEPT !.p.built = @ \cup {x.seed}], x.seed)

PollReplay ==
    /\ connected /\ job /= NoTx
    /\ IF p = Gone THEN UNCHANGED <<p, inflight>> ELSE Become(ReplayEnds(Trace, job))
    /\ job' = NoTx
    /\ UNCHANGED <<nodeVars, connected, view, missed, forgot, losses, errors>>

PollReplayFailed ==
    /\ connected /\ job /= NoTx /\ errors < MaxErrors
    /\ p' = CASE p = Gone -> p
              [] p /= Gone /\ job.path = <<>> /\ p.draw /= None /\ p.draw.seed = job.seed ->
                    [p EXCEPT !.draw.started = FALSE]
              [] p /= Gone /\ job.path /= <<>> /\ Current(p, job) -> [p EXCEPT !.attn.opened = FALSE]
              [] OTHER -> p
    /\ job' = NoTx
    /\ errors' = errors + 1
    /\ UNCHANGED <<nodeVars, connected, view, inflight, missed, forgot, losses>>

\* The first send of an opening, or retry_pending_openings: the node refuses
\* what its chain does not await.
SendOpening(x) ==
    /\ connected
    /\ Now <= inflight[x] + BacklogCap
    /\ x = Awaited(tip)
    /\ x \notin known
    /\ known' = known \cup {x}
    /\ UNCHANGED <<tip, mined, connected, view, p, inflight, job, missed, forgot, losses, errors>>

\* retry_pending_openings drops what missed its window.
DropOpenings ==
    /\ connected
    /\ \E x \in DOMAIN inflight : Now > inflight[x] + BacklogCap
    /\ inflight' = Without(inflight, {x \in DOMAIN inflight : Now > inflight[x] + BacklogCap})
    /\ UNCHANGED <<nodeVars, connected, view, p, job, missed, forgot, losses, errors>>

Kept(q) ==
    LET d == q.draw
        a == q.attn
        due == IF a /= None /\ a.deadline > d.deadline THEN a.deadline ELSE d.deadline
        drawing == a /= None /\ AwaitingDraw(a)
        flying == DOMAIN inflight /= {}
        unfinished == ~d.started \/ flying \/ drawing \/ (a /= None /\ NextPhaseOwed(a))
    IN  IF d = None THEN Now < Daa[First] + Unopened
        ELSE /\ ~(q.awaits = "no" /\ Now > due /\ ~flying /\ ~drawing)
             /\ \/ Now <= due
                \/ unfinished /\ Now <= due + BacklogCap
                \/ drawing /\ Now <= a.deadline + 2 * Delay

PruneTraces ==
    /\ connected /\ p /= Gone /\ ~Kept(p)
    /\ p' = Gone
    /\ UNCHANGED <<nodeVars, connected, view, inflight, job, missed, forgot, losses, errors>>

-----------------------------------------------------------------------------
\* The network: blocks are mined and the tip moves to a chain with more work.

NodeMines(b) ==
    /\ mined[b] = Unmined /\ Parent[b] /= NoBlock /\ mined[Parent[b]] /= Unmined
    /\ \E x \in {NoTx} \cup (known \cap {Awaited(Parent[b])}) : mined' = [mined EXCEPT ![b] = Mined(b, x)]
    /\ UNCHANGED <<tip, known, connected, view, p, inflight, job, missed, forgot, losses, errors>>

NodeMoves(t) ==
    /\ mined[t] /= Unmined /\ Daa[t] > Daa[tip]
    /\ tip' = t
    /\ IF connected THEN view' = t /\ ChainChanged(view, t)
       ELSE UNCHANGED <<view, p, inflight>>
    /\ UNCHANGED <<mined, known, connected, job, missed, forgot, losses, errors>>

Disconnect ==
    /\ connected /\ losses < MaxLosses
    /\ connected' = FALSE
    /\ losses' = losses + 1
    /\ UNCHANGED <<nodeVars, view, p, inflight, job, missed, forgot, errors>>

\* The disk has neither the blocks that drew the children of the phases before
\* the last, so that their removal goes unseen, nor the phases a
\* reorganisation dropped.
Forgets ==
    p /= Gone /\ p.attn /= None /\ (Len(p.attn.txs) > 1 \/ p.attn.dropped /= {})

\* restore_traces, then start_chain_restore and the node's answer: the chain
\* from the accepting block, or from the anchor.
Connect ==
    /\ ~connected
    /\ connected' = TRUE
    /\ view' = tip
    /\ missed' = missed \cup (Chain[view] \ Chain[tip])
    /\ forgot' = (forgot \/ missed' /= {} \/ Forgets)
    /\ IF p = Gone THEN p' = Gone /\ inflight' = <<>>
       ELSE LET start == IF p.acc = NoBlock THEN First ELSE p.acc IN
            \E s \in {Removed(Restored(Trace), Chain[start] \ Chain[tip])} :
               Become(Noted(s, Chain[tip] \ Chain[start], tip))
    /\ UNCHANGED <<nodeVars, job, losses, errors>>

-----------------------------------------------------------------------------

\* The response has been sent.
Init ==
    /\ tip = First /\ view = First
    /\ mined = [b \in Block |-> IF OnChain(b, First) THEN Genesis ELSE Unmined]
    /\ known = {}
    /\ connected = TRUE
    /\ p = [acc |-> AcceptedBy[First], draw |-> None, opening |-> NoBlock, openingDeadline |-> 0,
            built |-> {}, phase |-> NoTx, attn |-> None, awaits |-> "unknown"]
    /\ inflight = <<>>
    /\ job = NoTx
    /\ missed = {} /\ forgot = FALSE
    /\ losses = 0 /\ errors = 0

Next ==
    \/ OnBlock \/ OnAwaited
    \/ SubmitBuilt \/ StartReplay \/ StartAttentionPhase
    \/ PollReplay \/ PollReplayFailed
    \/ \E x \in DOMAIN inflight : SendOpening(x)
    \/ DropOpenings \/ PruneTraces
    \/ \E b \in Block : NodeMines(b) \/ NodeMoves(b)
    \/ Disconnect \/ Connect

Spec == Init /\ [][Next]_vars

\* Blocks keep being reported, the node keeps answering the polls, and the
\* timer runs; a replay ends.  Nothing is assumed of the network.
Fairness ==
    /\ WF_vars(OnBlock) /\ WF_vars(OnAwaited)
    /\ WF_vars(SubmitBuilt \/ StartReplay \/ StartAttentionPhase)
    /\ WF_vars(PollReplay) /\ WF_vars(PruneTraces)
    /\ WF_vars(\E x \in DOMAIN inflight : SendOpening(x))
    /\ WF_vars(Connect)

FairSpec == Spec /\ Fairness

-----------------------------------------------------------------------------
\* Properties.

Phases == IF p = Gone THEN None ELSE p.attn

\* The phases the miner holds are those of the announced chain (on_removed,
\* note_phase_acceptances, resolve_traces): each accepting block is on it and
\* took that very transaction, each child was drawn by the block the rule
\* names, and each transaction is for the children before it, through
\* reorganisations that undo any suffix of them.  Excepted are the blocks
\* that left the chain unseen, while the connection was lost.
PhasesAreOfTheChain ==
    connected /\ Phases /= None => \A i \in 1 .. Len(Phases.txs) :
        /\ Phases.txs[i] \in {NoTx, Tx(p.opening, SubSeq(Phases.path, 1, i - 1))}
        /\ Phases.accepted[i] \in Block =>
              /\ OnChain(Phases.accepted[i], view) \/ Phases.accepted[i] \in missed
              /\ Takes(Phases.accepted[i]) = Phases.txs[i]
        /\ i <= Len(Phases.children) /\ Phases.children[i] /= NoBlock =>
              /\ Phases.children[i] = FirstAfter(Phases.accepted[i], view)
              /\ Phases.path[i] = ChildOf[Phases.children[i]]

\* What the chain waits for is what the miner has sent, in the end: no
\* reorganisation, failed replay or late answer leaves an audit half opened.
\* Excepted are a trace past its window, and one that forgot its past when the
\* connection was lost.
AwaitedIsSubmitted ==
    <>[](p /= Gone /\ ~forgot /\ Awaited(tip) /= NoTx => Awaited(tip) \in known)

\* note_phase_acceptances: "Notes the chain blocks accepting the last
\* submitted attention phases".
AcceptanceIsNoted ==
    connected /\ Phases /= None /\ missed = {} => LET n == Len(Phases.txs) IN
        Phases.accepted[n] = NoBlock =>
            \A b \in Chain[view] : Takes(b) /= Phases.txs[n]

\* start_chain_restore: "asks the node for the chain from the accepting block
\* of every restored trace, or of its last accepted attention phase, so its
\* draws can be resolved again".
RestoredPhaseIsOfTheChain ==
    connected /\ Phases /= None => LET n == Len(Phases.txs) IN
        Phases.accepted[n] \in Block => OnChain(Phases.accepted[n], view)

-----------------------------------------------------------------------------
\* A tree for TLC.  "g" has accepted the response and "s" is its seed block.
\* "a2" and "c2" follow "a1" and draw the same child, "d2" draws another one;
\* "r" replaces the seed block and "b1" replaces "a1".

Parents == [b \in Block |->
    CASE b = "g" -> NoBlock [] b \in {"s", "r"} -> "g" [] b \in {"a1", "b1"} -> "s"
      [] b \in {"a2", "c2", "d2"} -> "a1" [] b = "c3" -> "c2" [] b = "c4" -> "c3"]

Scores == [b \in Block |->
    CASE b = "g" -> 0 [] b = "s" -> 1 [] b \in {"a1", "r"} -> 2 [] b \in {"a2", "b1"} -> 3
      [] b \in {"c2", "d2"} -> 4 [] b = "c3" -> 5 [] b = "c4" -> 7]

Children == [b \in Block |-> IF b = "d2" THEN 1 ELSE 0]
=============================================================================
