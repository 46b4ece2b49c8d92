---------------------------- MODULE EscrowWatcher ----------------------------
(***************************************************************************)
(* EscrowWatcher of src/escrow.rs: the escrow outputs a miner tracks from  *)
(* chain blocks, and the claim transactions it keeps in flight for them.   *)
(* One operator per public method; EscrowSystem calls them the way         *)
(* src/client/grpc.rs does.                                                *)
(*                                                                         *)
(* Which outputs a claim spends is select_claim_batch.  Candidates are     *)
(* tried in order of priority and the first one that may be released wins. *)
(* A candidate is filled by one scan over the entries: an entry joins if   *)
(* the batch, with it, respects the size cap of every member.  The scan is *)
(* written as the set it computes: the members are exactly the entries     *)
(* that could join the members scanned before them.                        *)
(*                                                                         *)
(* DAA scores are kept relative to the newest block, which has score 0, so *)
(* that time may go on for ever: a score that is Far in the past stays     *)
(* there.  An absent score is one Far in the past, for every use of one    *)
(* asks whether it has passed.                                             *)
(* The way the entries get to the disk (append_journal_line, maybe_flush,  *)
(* and the replay when they are loaded) is the subject of EscrowJournal.   *)
(***************************************************************************)
EXTENDS Integers, FiniteSets, SequencesExt

CONSTANTS
    Outpoint,          \* escrow outputs
    Inference,         \* the outputs of AI requests; the others are coinbase outputs
    WindowOf,          \* csv_window of each output, the +10 maturity margin included
    AmountOf,          \* amount_sompi of each output
    ClaimFee,          \* CLAIM_FEE_SOMPI
    MaxClaimBatch      \* MAX_CLAIM_BATCH = MIN_CLAIM_BATCH

ASSUME BatchAssumption ==
    /\ Inference \subseteq Outpoint
    /\ WindowOf \in [Outpoint -> Nat]
    /\ AmountOf \in [Outpoint -> Nat]
    /\ ClaimFee \in Nat
    /\ MaxClaimBatch \in Nat \ {0}

CONSTANTS
    Block,             \* blocks whose coinbase pays this miner
    NoBlock,           \* empty block_hash
    BlockOf,           \* block_hash of each output, NoBlock for inference outputs
    CurrentWindow,     \* csv_window_for_daa at the present score
    MaxInFlight,       \* MAX_IN_FLIGHT_CLAIMS
    ClaimTimeout,      \* CLAIM_RESPONSE_TIMEOUT_DAA
    CapExpiry,         \* CAP_EXPIRY_DAA
    OrphanCooldown,    \* ORPHAN_RETRY_COOLDOWN_BLOCKS
    SeqLockCooldown,   \* SEQ_LOCK_RETRY_COOLDOWN_BLOCKS
    RetryCooldown,     \* UNKNOWN_RETRY_BASE_COOLDOWN_DAA
    MaxRetryCooldown,  \* UNKNOWN_RETRY_MAX_COOLDOWN_DAA
    MaxOrphanRetries,  \* MAX_ORPHAN_RETRIES
    CompactEvery,      \* COMPACT_EVERY_BLOCKS
    Far,               \* bound: scores older than this are not told apart
    MaxSubmitRetries   \* bound: submit_retries saturates here

ASSUME WatcherAssumption ==
    /\ NoBlock \notin Block
    /\ BlockOf \in [Outpoint -> Block \cup {NoBlock}]
    /\ \A o \in Outpoint : o \in Inference <=> BlockOf[o] = NoBlock
    /\ \A b \in Block : IsFiniteSet({o \in Outpoint : BlockOf[o] = b})
    /\ {CurrentWindow, ClaimTimeout, CapExpiry, OrphanCooldown, SeqLockCooldown,
        RetryCooldown, MaxRetryCooldown, MaxSubmitRetries, Far} \subseteq Nat
    /\ {MaxInFlight, MaxOrphanRetries, CompactEvery} \subseteq Nat \ {0}
    /\ \A o \in Outpoint : WindowOf[o] <= Far
    /\ CapExpiry * 2 ^ (MaxOrphanRetries - 1) <= Far /\ ClaimTimeout <= Far

VARIABLES
    entries,             \* state.entries
    outpointSet,         \* outpoint_set
    blockIndex,          \* block_index
    inFlight,            \* in_flight: the outputs of each claim (they fix its txid), submit_daa
    inFlightOutpoints,   \* in_flight_outpoints
    lastDaa,             \* last_daa_score
    validationPending,   \* validation_pending
    blocksSinceCompact,  \* blocks_since_compact
    submitted            \* claims handed to the stream, not yet processed by the node

indexVars  == <<outpointSet, blockIndex>>
flightVars == <<inFlight, inFlightOutpoints, submitted>>
watcherVars == <<entries, indexVars, flightVars, lastDaa, validationPending,
                 blocksSinceCompact>>

-----------------------------------------------------------------------------
\* Scores and entries.

Time == Int

Older(t) == IF t > -Far THEN t - 1 ELSE t

\* A score a step sets; the bound keeps it in the range that is told apart.
At(t) == IF t > -Far THEN t ELSE -Far

Entry == [o : Outpoint, claimed : BOOLEAN, slashed : BOOLEAN, dead : BOOLEAN,
          oret : Nat, retry : Time, sret : Nat, cap : Nat, capAt : Time, conf : Time]

\* A freshly tracked output.
Fresh(o, conf) ==
    [o |-> o, claimed |-> FALSE, slashed |-> FALSE, dead |-> FALSE, oret |-> 0,
     retry |-> -Far, sret |-> 0, cap |-> 0, capAt |-> -Far, conf |-> conf]

Live(e) == ~e.claimed /\ ~e.slashed

AgedEntry(e) == [e EXCEPT !.retry = Older(@), !.capAt = Older(@), !.conf = Older(@)]

Aged(es) == [i \in DOMAIN es |-> AgedEntry(es[i])]

\* rebuild_indexes.
OutpointsIn(es) == {es[i].o : i \in DOMAIN es}

IndexOf(es) == [b \in Block |-> {i \in DOMAIN es : BlockOf[es[i].o] = b}]

Slashed(es, I) ==
    [i \in DOMAIN es |-> IF i \in I /\ Live(es[i])
                           THEN [es[i] EXCEPT !.slashed = TRUE] ELSE es[i]]

-----------------------------------------------------------------------------
\* select_claim_batch.

AnyWindow == -1

\* es is the vector of entries, now the DAA score of the block at hand, busy
\* the outpoints in flight, current the window coinbases are minted with.

\* Faulty: no drain pass.
InPassUndrained(e, pass, current) ==
    CASE pass \in {0, 2} -> e.cap = 0 /\ ~e.dead /\ pass = 0
      [] pass = 1 -> e.cap /= 0 /\ ~e.dead
      [] pass = 3 -> e.dead

InPass(e, pass, current) ==
    CASE pass = 0 -> e.cap = 0 /\ ~e.dead
      [] pass = 1 -> e.cap /= 0 /\ ~e.dead
      [] pass = 2 -> e.cap = 0 /\ ~e.dead /\ WindowOf[e.o] /= current
      [] pass = 3 -> e.dead

Eligible(e, now, busy) ==
    /\ ~e.claimed /\ ~e.slashed
    /\ now >= e.conf + WindowOf[e.o]
    /\ now >= e.retry
    /\ e.o \notin busy

Pool(es, c, now, busy, current) ==
    {i \in DOMAIN es : /\ InPass(es[i], c.pass, current)
                       /\ Eligible(es[i], now, busy)
                       /\ c.window \in {AnyWindow, WindowOf[es[i].o]}}

Cap(e) == IF e.cap = 0 \/ e.cap > MaxClaimBatch THEN MaxClaimBatch ELSE e.cap

\* Scan order: the nominal pass takes inference outputs first.
ScannedBefore(es, pass, i, j) ==
    IF pass = 0 /\ (es[i].o \in Inference) /= (es[j].o \in Inference)
      THEN es[i].o \in Inference
      ELSE i < j

\* Faulty: only the caps of the members already in count, not the newcomer's.
JoinsByMembersCap(es, S, i) ==
    /\ \A j \in S : WindowOf[es[j].o] = WindowOf[es[i].o]
    /\ Cardinality(S) < MaxClaimBatch
    /\ \A j \in S : Cardinality(S) + 1 <= Cap(es[j])

\* Entry i may join the batch S.
Joins(es, S, i) ==
    /\ \A j \in S : WindowOf[es[j].o] = WindowOf[es[i].o]
    /\ \A j \in S \cup {i} : Cardinality(S) + 1 <= Cap(es[j])

\* What the scan over a pool collects.
Filled(es, pass, pool) ==
    CHOOSE S \in SUBSET pool :
        \A i \in pool :
            i \in S <=> Joins(es, {j \in S : ScannedBefore(es, pass, j, i)}, i)

Batch(es, c, now, busy, current) ==
    Filled(es, c.pass, Pool(es, c, now, busy, current))

\* Faulty: a nominal batch that is not full ships.
ReleasableAtAnySize(pass, S) == S /= {}

\* Nominal batches ship full or not at all.
Releasable(pass, S) ==
    IF pass = 0 THEN Cardinality(S) >= MaxClaimBatch ELSE S /= {}

Candidates(es) ==
    {[pass |-> 0, window |-> WindowOf[es[i].o]] : i \in DOMAIN es}
        \cup {[pass |-> p, window |-> AnyWindow] : p \in 1..3}

\* The nominal candidates come first, the current window before the others.
TriedBefore(c, d, current) ==
    \/ c.pass < d.pass
    \/ /\ c.pass = d.pass
       /\ \/ c.window = current /\ d.window /= current
          \/ (c.window = current) = (d.window = current) /\ c.window < d.window

\* The members of a batch in the order in which the scan found them.
InScanOrder(es, pass, S) ==
    [n \in 1..Cardinality(S) |->
        CHOOSE i \in S : Cardinality({j \in S : j = i \/ ScannedBefore(es, pass, j, i)}) = n]

\* select_claim_batch: the indices of the batch in input order, <<>> for none.
SelectClaimBatch(es, now, busy, current) ==
    LET ready == {c \in Candidates(es) :
                    Releasable(c.pass, Batch(es, c, now, busy, current))}
    IN IF ready = {} THEN <<>>
       ELSE LET c == CHOOSE d \in ready :
                       \A x \in ready \ {d} : TriedBefore(d, x, current)
            IN InScanOrder(es, c.pass, Batch(es, c, now, busy, current))

-----------------------------------------------------------------------------
\* find_claim.

\* Repair verdicts that no rejection has confirmed for long enough expire
\* (cap_set_daa is not read without a cap).
Healed(e, now) ==
    LET capOver  == e.cap /= 0 /\ now >= e.capAt + CapExpiry
        deadOver == e.dead /\ now >= e.retry + CapExpiry * 2 ^ e.oret
    IN [e EXCEPT !.cap = IF capOver THEN 0 ELSE @, !.capAt = IF capOver THEN -Far ELSE @,
                 !.dead = @ /\ ~deadOver]

HealedAll(es, now) == [i \in DOMAIN es |-> Healed(es[i], now)]

\* build_claim_tx fails on a total that does not cover the fee.
Buildable(es, I) == MapThenSumSet(LAMBDA i : AmountOf[es[i].o], I) > ClaimFee

MayClaim(flight) ==
    Cardinality(flight) < MaxInFlight /\ validationPending = {}

\* The claims (none or one) that find_claim ships from entries es.
Claims(es, flight, busy, now) ==
    LET batch == SelectClaimBatch(es, now, busy, CurrentWindow)
    IN IF MayClaim(flight) /\ batch /= <<>> /\ Buildable(es, ToSet(batch))
         THEN {[i \in DOMAIN batch |-> es[batch[i]].o]} ELSE {}

\* Faulty: a claim that timed out stays among the outpoints in flight.
LateOutpointsKept(flight, busy, now) == busy

\* expire_in_flight.
Unexpired(flight, now) == {c \in flight : now < c.at + ClaimTimeout}

UnexpiredOutpoints(flight, busy, now) ==
    busy \ UNION {ToSet(c.outs) : c \in flight \ Unexpired(flight, now)}

\* Faulty: the period starts over only with the process.
CountKept(due) == blocksSinceCompact + 1

CountedBlocks(due) == IF due THEN 0 ELSE blocksSinceCompact + 1

\* Faulty: done entries stay.
NeverCompacted(es, due) == es

\* retain: the live entries, in their order.
Retained(es) ==
    LET keep == {i \in DOMAIN es : Live(es[i])}
        nth(n) == CHOOSE i \in keep : Cardinality({j \in keep : j <= i}) = n
    IN  [n \in 1..Cardinality(keep) |-> es[nth(n)]]

\* compact, in every CompactEvery-th block.
Compacted(es, due) == IF due THEN Retained(es) ELSE es

\* Faulty: entries are dropped and the ordinals in block_index are not.
StaleIndex(es, compacted) == blockIndex

\* compact rebuilds the index if it dropped anything.
CompactedIndex(es, compacted) ==
    IF compacted = es THEN blockIndex ELSE IndexOf(compacted)

CompactedOutpoints(es, compacted) ==
    IF compacted = es THEN outpointSet ELSE OutpointsIn(compacted)

\* Faulty: an output is tracked whenever its block is seen.
AllOutputs(chained, tracked) == {o \in Outpoint : BlockOf[o] \in chained}

\* track_block_escrows.
NewOutputs(chained, tracked) == {o \in Outpoint : BlockOf[o] \in chained /\ o \notin tracked}

\* handle_block on a block of score now whose merge set classifies reds as
\* red; chained is the set of the block itself if its coinbase is to be
\* tracked.  es and flight are the entries and the claims at that moment.
HandleBlock(es, flight, now, reds, chained) ==
    LET due       == blocksSinceCompact + 1 >= CompactEvery
        flight1   == Unexpired(flight, now)
        busy1     == UnexpiredOutpoints(flight, inFlightOutpoints, now)
        es1       == Compacted(es, due)
        index1    == CompactedIndex(es, es1)
        known1    == CompactedOutpoints(es, es1)
        es2       == Slashed(es1, UNION {index1[b] : b \in reds})
        fresh     == NewOutputs(chained, known1)
        es3       == es2 \o [i \in 1..Cardinality(fresh) |-> Fresh(SetToSeq(fresh)[i], now)]
        es4       == IF MayClaim(flight1) THEN HealedAll(es3, now) ELSE es3
        claims    == Claims(es4, flight1, busy1, now)
    IN /\ lastDaa' = now
       /\ blocksSinceCompact' = CountedBlocks(due)
       /\ entries' = es4
       /\ outpointSet' = known1 \cup fresh
       /\ blockIndex' = [b \in Block |-> index1[b] \cup
                            {i \in DOMAIN es3 : i > Len(es2) /\ BlockOf[es3[i].o] = b}]
       /\ inFlight' = flight1 \cup {[outs |-> tx, at |-> now] : tx \in claims}
       /\ inFlightOutpoints' = busy1 \cup UNION {ToSet(tx) : tx \in claims}
       /\ submitted' = submitted \cup claims
       /\ UNCHANGED validationPending

-----------------------------------------------------------------------------
\* Faulty: the outpoints of a removed block stay known.
ReleasedNone(B) == {}

\* The outpoints that on_chain_blocks_removed releases.
Released(B) == {entries[i].o : i \in {j \in UNION {blockIndex[b] : b \in B} : Live(entries[j])}}

\* on_chain_blocks_removed.
OnChainBlocksRemoved(B) ==
    /\ entries' = Slashed(entries, UNION {blockIndex[b] : b \in B})
    /\ blockIndex' = [b \in Block |-> IF b \in B THEN {} ELSE blockIndex[b]]
    /\ outpointSet' = outpointSet \ Released(B)
    /\ UNCHANGED <<flightVars, lastDaa, validationPending, blocksSinceCompact>>

\* Faulty: a block the node cannot return is taken for a ghost.
UnprovenIsGhost(verdict) == verdict /= "chain"

IsGhost(verdict) == verdict = "off"

\* consume_validation_ok / on_block_validated, on_block_validation_error for
\* a block the node cannot return.
OnBlockValidated(b, verdict) ==
    /\ b \in validationPending
    /\ validationPending' = validationPending \ {b}
    /\ entries' = IF IsGhost(verdict) THEN Slashed(entries, blockIndex[b]) ELSE entries
    /\ UNCHANGED <<indexVars, flightVars, lastDaa, blocksSinceCompact>>

-----------------------------------------------------------------------------
\* on_submit_response.

FirstOf(es, o) == CHOOSE i \in DOMAIN es :
    es[i].o = o /\ \A j \in DOMAIN es : es[j].o = o => i <= j

Halved(e, n) == [e EXCEPT !.cap = IF n \div 2 > 1 THEN n \div 2 ELSE 1, !.capAt = At(lastDaa)]

Backoff(retries) ==
    LET d == RetryCooldown * 2 ^ retries
    IN IF d < MaxRetryCooldown THEN d ELSE MaxRetryCooldown

\* Faulty: every member of an orphaned batch is blamed.
OrphanedAll(e, n) ==
    LET tries == e.oret + 1
    IN IF tries >= MaxOrphanRetries
         THEN [e EXCEPT !.oret = tries, !.dead = FALSE, !.slashed = TRUE]
         ELSE [e EXCEPT !.oret = tries, !.dead = TRUE, !.retry = At(lastDaa + OrphanCooldown)]

\* An orphaned batch is bisected; only a solo orphan counts against its entry.
Orphaned(e, n) ==
    LET tries == e.oret + 1
    IN IF n > 1 THEN Halved(e, n)
       ELSE IF tries >= MaxOrphanRetries
         THEN [e EXCEPT !.oret = tries, !.dead = FALSE, !.slashed = TRUE]
         ELSE [e EXCEPT !.oret = tries, !.dead = TRUE, !.retry = At(lastDaa + OrphanCooldown)]

\* Faulty: a batch with a burned output is slashed as a whole.
BurnedAll(e, n, list) == [e EXCEPT !.slashed = TRUE]

\* The node names the burned outputs; an older one does not, and the batch is
\* bisected.
Burned(e, n, list) ==
    IF list /= {} THEN [e EXCEPT !.slashed = @ \/ e.o \in list]
    ELSE IF n > 1 THEN Halved(e, n)
    ELSE [e EXCEPT !.slashed = TRUE]

Refused(e, n) ==
    LET h     == IF n > 1 THEN Halved(e, n) ELSE e
        tries == IF e.sret < MaxSubmitRetries THEN e.sret + 1 ELSE e.sret
    IN [h EXCEPT !.sret = tries, !.retry = At(lastDaa + Backoff(tries))]

\* Faulty: any rejection that says "already" counts as an acceptance.
AlreadyIsAccepted(kind) == kind \in {"ok", "duplicate", "other"}

Accepted(kind) == kind \in {"ok", "duplicate"}

Answered(e, n, kind, list) ==
    CASE Accepted(kind)   -> [e EXCEPT !.claimed = TRUE]
      [] kind = "orphan"  -> Orphaned(e, n)
      [] kind = "seqlock" -> [e EXCEPT !.retry = At(lastDaa + SeqLockCooldown)]
      [] kind = "burned"  -> Burned(e, n, list)
      [] kind = "other"   -> Refused(e, n)

\* The answer reaches the first entry of each output of tx.
AnsweredFirst(es, tx, kind, list) ==
    [i \in DOMAIN es |-> IF es[i].o \in ToSet(tx) /\ i = FirstOf(es, es[i].o)
                           THEN Answered(es[i], Len(tx), kind, list) ELSE es[i]]

\* A response that matches no claim in flight is NotOurs and changes nothing.
OnSubmitResponse(tx, kind, list) ==
    LET mine == {c \in inFlight : c.outs = tx}
    IN /\ IF mine = {}
            THEN UNCHANGED <<entries, inFlight, inFlightOutpoints>>
            ELSE /\ inFlight' = inFlight \ mine
                 /\ inFlightOutpoints' = inFlightOutpoints \ ToSet(tx)
                 /\ entries' = AnsweredFirst(entries, tx, kind, list)
       /\ UNCHANGED <<indexVars, submitted, lastDaa, validationPending, blocksSinceCompact>>

\* track_inference_escrow.
TrackInferenceEscrow(o, conf) ==
    /\ o \in Inference /\ o \notin outpointSet
    /\ entries' = Append(entries, Fresh(o, conf))
    /\ outpointSet' = outpointSet \cup {o}
    /\ UNCHANGED <<blockIndex, flightVars, lastDaa, validationPending, blocksSinceCompact>>

-----------------------------------------------------------------------------
\* start_state_validation: the blocks of the live entries.
ToValidate(es) == {BlockOf[es[i].o] : i \in {j \in DOMAIN es : Live(es[j])}} \ {NoBlock}

\* new and start_state_validation: a watcher on the entries that were loaded.
Loaded(es) ==
    /\ entries = es
    /\ outpointSet = OutpointsIn(es) /\ blockIndex = IndexOf(es)
    /\ inFlight = {} /\ inFlightOutpoints = {} /\ submitted = {}
    /\ lastDaa = -Far /\ blocksSinceCompact = 0
    /\ validationPending = ToValidate(es)

\* The same for the next connection: the watcher of the last one is dropped.
Reload(es) ==
    /\ entries' = es
    /\ outpointSet' = OutpointsIn(es) /\ blockIndex' = IndexOf(es)
    /\ inFlight' = {} /\ inFlightOutpoints' = {} /\ submitted' = {}
    /\ lastDaa' = -Far /\ blocksSinceCompact' = 0
    /\ validationPending' = ToValidate(es)
=============================================================================
