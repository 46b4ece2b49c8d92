------------------------------ MODULE Backfill ------------------------------
(***************************************************************************)
(* The block backfill of KeryxdHandler (src/client/grpc.rs): after a start *)
(* or a reconnect the recent ancestors of the first block that is notified *)
(* are fetched, parent by parent, and scanned for AI requests and escrow   *)
(* outputs.  The progress of the walk is carried from a connection to the  *)
(* next one (BACKFILL_PROGRESS).                                           *)
(*                                                                         *)
(* Blocks are numbered in the order in which the node gets them, and the   *)
(* number of a block is its DAA score.                                     *)
(***************************************************************************)
EXTENDS Integers, FiniteSets, SequencesExt

CONSTANTS
    MaxBlock,       \* bound on blocks
    Parents,        \* level-0 parents of each block
    Start,          \* blocks that exist when the process starts
    Window,         \* AI_BACKFILL_WINDOW_DAA
    Margin,         \* AI_BACKFILL_GAP_MARGIN_DAA
    InFlight,       \* AI_BACKFILL_INFLIGHT
    MaxDrops,       \* bound on lost connections
    MaxErrors       \* bound on GetBlock errors

Blocks == 1..MaxBlock

\* Bound: a DAG of width two, every block has the two before it as its parents.
Ladder == [b \in Blocks |-> {p \in Blocks : p \in b - 2 .. b - 1}]

ASSUME BackfillAssumption ==
    /\ MaxBlock \in Nat /\ Start \in Blocks
    /\ Parents \in [Blocks -> SUBSET Blocks]
    /\ \A b \in Blocks : \A p \in Parents[b] : p < b
    /\ {Window, Margin, MaxDrops, MaxErrors} \subseteq Nat
    /\ InFlight \in Nat \ {0}

VARIABLES
    height,         \* blocks the node has
    up,             \* connected
    notes,          \* BlockAdded notifications on their way
    cutoff,         \* backfill_cutoff_daa, Unset before the first seed
    queue,          \* backfill_queue
    pending,        \* backfill_pending: requests the node has not answered
    visited,        \* backfill_visited
    done,           \* backfill_done
    seeded,         \* backfill_seeded
    bulk,           \* bulk_started
    live,           \* live_scanned_daa
    scanned,        \* blocks whose transactions were scanned
    fetched,        \* blocks the walk has got from the node
    drops, errors

walkVars == <<cutoff, queue, pending, visited, done, seeded, bulk, live>>
vars == <<height, up, notes, walkVars, scanned, fetched, drops, errors>>

Unset == -1

Larger(a, b) == IF a > b THEN a ELSE b

Init ==
    /\ height = Start /\ up = TRUE /\ notes = <<>>
    /\ cutoff = Unset /\ queue = <<>> /\ pending = {} /\ visited = {}
    /\ done = FALSE /\ seeded = FALSE /\ bulk = FALSE /\ live = 0
    /\ scanned = {} /\ fetched = {} /\ drops = 0 /\ errors = 0

-----------------------------------------------------------------------------
\* The node gets a block and announces it.
NewBlock ==
    /\ height < MaxBlock
    /\ height' = height + 1
    /\ notes' = IF up THEN Append(notes, height') ELSE notes
    /\ UNCHANGED <<up, walkVars, scanned, fetched, drops, errors>>

-----------------------------------------------------------------------------
\* The parents of b that are not visited yet join the queue.
Queued(q, seen, b) == q \o SetToSeq(Parents[b] \ seen)

\* Faulty: the walk may start before the first block template.
MayPumpEarly(b, c) == c /= Unset

MayPump(b, c) == b /\ c /= Unset

\* Faulty: every pump sends a full set of requests.
RoomAlways(pend) == InFlight

Room(pend) == InFlight - Cardinality(pend)

\* backfill_pump: as many requests as the limit leaves room for.
Pumped(q, pend, b, c) ==
    LET n == IF ~MayPump(b, c) THEN 0
             ELSE IF Len(q) < Room(pend) THEN Len(q) ELSE Room(pend)
    IN /\ queue' = SubSeq(q, n + 1, Len(q))
       /\ pending' = pend \cup ToSet(SubSeq(q, 1, n))

\* backfill_seed: live is the score after this notification was noted.
SeedCutoff(b, top) ==
    LET recent == Larger(b - Window, 0)
    IN IF done THEN Larger(recent, top - Margin)
       ELSE IF cutoff /= Unset THEN cutoff
       ELSE recent

\* Faulty: live blocks are not marked as visited.
SeenLiveNever(b) == visited

\* While a walk is unfinished, live blocks count as visited.
SeenLive(b) == IF done THEN visited ELSE visited \cup {b}

\* BlockAddedNotification, with the transactions of the block.
BlockAdded ==
    /\ notes /= <<>>
    /\ LET b    == Head(notes)
           top  == Larger(live, b)
           seen == SeenLive(b)
           c    == IF seeded THEN cutoff ELSE SeedCutoff(b, top)
       IN /\ live' = top
          /\ seeded' = TRUE
          /\ cutoff' = c
          /\ visited' = IF seeded THEN seen ELSE seen \cup Parents[b]
          /\ Pumped(IF seeded THEN queue ELSE Queued(queue, seen, b), pending, bulk, c)
          /\ scanned' = scanned \cup {b}
    /\ notes' = Tail(notes)
    /\ UNCHANGED <<height, up, done, bulk, fetched, drops, errors>>

\* start_bulk, with the first block template of the connection.
FirstTemplate ==
    /\ up /\ ~bulk
    /\ bulk' = TRUE
    /\ Pumped(queue, pending, TRUE, cutoff)
    /\ UNCHANGED <<height, up, notes, cutoff, visited, done, seeded, live, scanned, fetched,
                   drops, errors>>

\* Faulty: the block at hand still counts as pending.
OverTooLate(q, b) == q = <<>> /\ pending = {}

Over(q, b) == q = <<>> /\ pending = {b}

\* GetBlockResponse: the block is scanned and backfill_note_block walks on.
Fetched(b) ==
    /\ b \in pending
    /\ LET on   == b > cutoff
           q    == IF on THEN Queued(queue, visited, b) ELSE queue
           seen == IF on THEN visited \cup Parents[b] ELSE visited
           over == Over(q, b)
       IN /\ done' = (done \/ over)
          /\ visited' = IF over THEN {} ELSE seen
          /\ Pumped(q, pending \ {b}, bulk, cutoff)
    /\ scanned' = scanned \cup {b} /\ fetched' = fetched \cup {b}
    /\ UNCHANGED <<height, up, notes, cutoff, seeded, bulk, live, drops, errors>>

\* GetBlockResponse with an error: backfill_note_error.
FetchFailed(b) ==
    /\ b \in pending /\ errors < MaxErrors
    /\ errors' = errors + 1
    /\ Pumped(queue, pending \ {b}, bulk, cutoff)
    /\ UNCHANGED <<height, up, notes, cutoff, visited, done, seeded, bulk, live, scanned,
                   fetched, drops>>

-----------------------------------------------------------------------------
\* Faulty: requests that were not answered are forgotten with the connection.
UnansweredLost(p) == <<>>

\* Drop: unanswered requests go back to the front of the queue.
Unanswered(p) == SetToSeq(p)

\* The connection is lost: the handler is dropped.
Disconnect ==
    /\ up /\ drops < MaxDrops
    /\ up' = FALSE /\ drops' = drops + 1
    /\ notes' = <<>>
    /\ queue' = Unanswered(pending) \o queue /\ pending' = {}
    /\ UNCHANGED <<height, cutoff, visited, done, seeded, bulk, live, scanned, fetched, errors>>

\* connect takes over the saved progress.
Connect ==
    /\ ~up
    /\ up' = TRUE /\ seeded' = FALSE /\ bulk' = FALSE
    /\ UNCHANGED <<height, notes, cutoff, queue, pending, visited, done, live, scanned, fetched,
                   drops, errors>>

Next ==
    \/ NewBlock \/ BlockAdded \/ FirstTemplate
    \/ \E b \in Blocks : Fetched(b) \/ FetchFailed(b)
    \/ Disconnect \/ Connect

Spec == Init /\ [][Next]_vars

\* Blocks keep coming as far as the bound lets them, and the node answers.
Fairness ==
    /\ WF_vars(NewBlock) /\ WF_vars(BlockAdded) /\ WF_vars(FirstTemplate) /\ WF_vars(Connect)
    /\ \A b \in Blocks : WF_vars(Fetched(b))

FairSpec == Spec /\ Fairness

-----------------------------------------------------------------------------
TypeOK ==
    /\ height \in Blocks /\ up \in BOOLEAN
    /\ notes \in Seq(Blocks) /\ queue \in Seq(Blocks)
    /\ cutoff \in {Unset} \cup Nat /\ live \in Nat
    /\ pending \subseteq Blocks /\ Cardinality(pending) <= InFlight
    /\ visited \subseteq Blocks
    /\ done \in BOOLEAN /\ seeded \in BOOLEAN /\ bulk \in BOOLEAN
    /\ scanned \subseteq Blocks /\ fetched \subseteq Blocks
    /\ drops \in 0..MaxDrops /\ errors \in 0..MaxErrors

\* "Recent ancestors are walked parent-by-parent and scanned": when the first
\* walk is over, whatever connections it took, every ancestor above the cutoff
\* of a scanned block is scanned.
WalkIsComplete ==
    [][~done /\ done' /\ errors = 0
         => \A b \in scanned' : \A p \in Parents[b] : b > cutoff => p \in scanned']_vars

\* "Resumes the walk instead of restarting all of it": before the first walk
\* is over, a block that was scanned is not asked for again.
NoneIsAskedAgain ==
    [][~done => \A b \in pending' \ pending : b \notin scanned]_vars

\* Mining does not wait behind the walk: no request leaves before the first
\* block template of the connection has arrived.
MiningComesFirst == pending /= {} => bulk /\ up

\* The window of backfill_pump and its place behind mining hold through lost
\* connections and failed blocks.
WalkIsOrderly == TypeOK /\ MiningComesFirst

\* "So blocks arriving while the connection was down are not missed": once
\* nothing is left to walk, every ancestor of a scanned block that is newer than
\* the window of the first seed is scanned.
GapIsWalked ==
    done /\ up /\ seeded /\ bulk /\ queue = <<>> /\ pending = {} /\ errors = 0
        => \A b \in scanned : \A p \in Parents[b] : p > Start + 1 => p \in scanned

\* A walk whose blocks the node can all return ends, also when connections
\* are lost on the way.
WalkEnds == seeded ~> (done \/ errors > 0)
=============================================================================
