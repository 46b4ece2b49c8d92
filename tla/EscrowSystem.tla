---------------------------- MODULE EscrowSystem ----------------------------
(***************************************************************************)
(* An EscrowWatcher connected to a node, the way handle_message of         *)
(* src/client/grpc.rs connects them: block notifications, virtual-chain    *)
(* changes, GetBlock answers, claim submissions and their answers.         *)
(*                                                                         *)
(* The node is external.  It keeps the selected chain and the outputs      *)
(* spent; it answers truthfully and in any order, and a reorganisation     *)
(* only reaches blocks younger than FinalAge, which is less than a CSV     *)
(* window ("the chain verdict is final here", consume_validation_ok).      *)
(***************************************************************************)
EXTENDS EscrowWatcher

CONSTANTS
    FinalAge,       \* blocks this old do not enter or leave the chain
    GapMargin,      \* AI_BACKFILL_GAP_MARGIN_DAA
    Scenarios,      \* what a behaviour starts from and may meet
    MaxLate         \* bound on claims and answers that are late at a new block

\* "readd": a block that left the chain comes back; "reconnect": the connection
\* is lost; "unwalked": the startup backfill has not finished by then;
\* "sidered": merge sets of side blocks are reported too.
Trouble == {"readd", "reconnect", "unwalked", "sidered"}

\* A scenario has the entries of the state file at first start and the blocks
\* that are on the chain by then; what may go wrong together; the blocks that
\* may join the chain later; the AI requests that may be answered; and bounds
\* on chain changes, transient rejections and burned outputs.  The state file is
\* one this watcher wrote: an output has at most one live entry in it.
IsScenario(s) ==
    /\ s.stored \in Seq(Entry) /\ s.onChain \subseteq Block
    /\ \A i, j \in DOMAIN s.stored :
          Live(s.stored[i]) /\ Live(s.stored[j]) /\ s.stored[i].o = s.stored[j].o => i = j
    /\ s.trouble \subseteq Trouble /\ s.joining \subseteq Block /\ s.requests \subseteq Inference
    /\ {s.changes, s.refusals, s.burns} \subseteq Nat

VARIABLES
    scenario,       \* the scenario of this behaviour
    chain,          \* blocks on the selected chain
    born,           \* DAA score of each block, NotBorn before it exists
    notes,          \* VirtualSelectedParentChainChanged notifications on their way
    fetching,       \* GetBlock requests (with transactions) on their way
    answers,        \* their answers on their way: the block and whether it was on the chain
    validating,     \* validation GetBlock requests the node has not answered
    known,          \* claim transactions the node has accepted
    burned,         \* outputs burned by the service bond
    replies,        \* SubmitTransaction responses on their way
    changes,        \* chain changes so far
    refusals,       \* transient rejections so far
    served          \* AI requests answered so far

chainVars  == <<scenario, chain, born, notes, fetching, answers, validating, changes>>
mempoolVars == <<known, burned, replies, refusals>>
vars == <<watcherVars, chainVars, mempoolVars, served>>

NotBorn == 1

ASSUME SystemAssumption ==
    /\ {FinalAge, GapMargin, MaxLate} \subseteq Nat
    /\ \A s \in Scenarios : IsScenario(s)

Young(b)  == born[b] = NotBorn \/ born[b] > -FinalAge
Spent     == UNION {ToSet(tx) : tx \in known}
Exists(o) == o \in Inference \/ BlockOf[o] \in chain

\* Blocks of the stored entries, and those on the chain, are old.
Init ==
    /\ scenario \in Scenarios
    /\ Loaded(scenario.stored)
    /\ chain = scenario.onChain
    /\ born = [b \in Block |-> IF b \in scenario.onChain \cup ToValidate(scenario.stored)
                               THEN -Far ELSE NotBorn]
    /\ notes = <<>> /\ fetching = {} /\ answers = {}
    /\ validating = validationPending
    /\ known = {} /\ burned = {} /\ replies = {}
    /\ changes = 0 /\ refusals = 0 /\ served = {}

-----------------------------------------------------------------------------
\* The node: chain and mempool.

\* A block (re)joins the chain or leaves it; the change is announced.
ChainChange(removed, added) ==
    /\ changes < scenario.changes /\ added \subseteq scenario.joining
    /\ removed \subseteq chain /\ added \cap chain = {} /\ removed \cup added /= {}
    /\ \A b \in removed \cup added : Young(b)
    /\ "readd" \in scenario.trouble \/ \A b \in added : born[b] = NotBorn
    /\ chain' = (chain \ removed) \cup added
    /\ born' = [b \in Block |-> IF b \in added /\ born[b] = NotBorn THEN 0 ELSE born[b]]
    /\ notes' = Append(notes, [removed |-> removed, added |-> added])
    /\ changes' = changes + 1
    /\ UNCHANGED <<scenario, watcherVars, fetching, answers, validating, mempoolVars, served>>

\* A GetBlock answer carries the verdict of the moment it is made.
AnswerGetBlock(b) ==
    /\ b \in fetching
    /\ fetching' = fetching \ {b}
    /\ answers' = answers \cup {[b |-> b, onChain |-> b \in chain]}
    /\ UNCHANGED <<scenario, watcherVars, chain, born, notes, validating, changes, mempoolVars,
                   served>>

\* What the node answers to a claim transaction, with the burned outputs it
\* names (an older one names none).  A spent output is a double spend while
\* its spender is in the mempool, and missing later.
Verdicts(tx) ==
    LET outs == ToSet(tx)
        kinds == IF tx \in known THEN {"duplicate"}
                 ELSE IF \E o \in outs : ~Exists(o) THEN {"orphan"}
                 ELSE IF outs \cap Spent /= {} THEN {"orphan", "other"}
                 ELSE IF outs \cap burned /= {} THEN {"burned"}
                 ELSE {"ok"}
    IN {[tx |-> tx, kind |-> k, list |-> {}] : k \in kinds}
         \cup {[tx |-> tx, kind |-> k, list |-> outs \cap burned] : k \in kinds \cap {"burned"}}

\* The node processes a claim.
ProcessClaim(tx) ==
    /\ tx \in submitted
    /\ submitted' = submitted \ {tx}
    /\ \E r \in Verdicts(tx) :
         /\ replies' = replies \cup {r}
         /\ known' = IF r.kind = "ok" THEN known \cup {tx} ELSE known
    /\ UNCHANGED <<entries, indexVars, inFlight, inFlightOutpoints, lastDaa, validationPending,
                   blocksSinceCompact, chainVars, burned, refusals, served>>

\* A rejection that has nothing to do with the outputs: the sequence lock lags,
\* or the mempool is full.
RefuseClaim(tx, kind) ==
    /\ tx \in submitted /\ refusals < scenario.refusals
    /\ submitted' = submitted \ {tx}
    /\ replies' = replies \cup {[tx |-> tx, kind |-> kind, list |-> {}]}
    /\ refusals' = refusals + 1
    /\ UNCHANGED <<entries, indexVars, inFlight, inFlightOutpoints, lastDaa, validationPending,
                   blocksSinceCompact, chainVars, known, burned, served>>

Burn(o) ==
    /\ o \notin Inference /\ born[BlockOf[o]] /= NotBorn
    /\ o \notin burned \cup Spent /\ Cardinality(burned) < scenario.burns
    /\ burned' = burned \cup {o}
    /\ UNCHANGED <<watcherVars, chainVars, known, replies, refusals, served>>

-----------------------------------------------------------------------------
\* The miner: handle_message.

\* The blocks a merge set may report as red: blocks that are final off the
\* chain, or, in the merge set of a side block, any block.
Reds == {b \in Block : /\ born[b] /= NotBorn
                       /\ \/ "sidered" \in scenario.trouble
                          \/ b \notin chain /\ ~Young(b)}

\* What is still on its way to the miner about a block.
OnItsWay(b) ==
    \/ b \in fetching
    \/ \E a \in answers : a.b = b
    \/ \E i \in DOMAIN notes : b \in notes[i].removed \cup notes[i].added

\* Messages about a block arrive before it is final: they take seconds, and
\* FinalAge stands for a large part of an hour.
Prompt == \A b \in Block : OnItsWay(b) => Older(born[b]) > -FinalAge

BlockDue == Prompt /\ Cardinality(submitted) + Cardinality(replies) <= MaxLate

\* BlockAdded: one more block, and every score is one further back.
BlockAdded(reds) ==
    /\ BlockDue
    /\ reds \subseteq Reds
    /\ HandleBlock(Aged(entries), {[c EXCEPT !.at = Older(@)] : c \in inFlight},
                   0, reds, {})
    /\ born' = [b \in Block |-> IF born[b] = NotBorn THEN NotBorn ELSE Older(born[b])]
    /\ UNCHANGED <<scenario, chain, notes, fetching, answers, validating, changes, mempoolVars,
                   served>>

\* VirtualSelectedParentChainChanged: purge, then fetch every added block.
ChainChanged ==
    /\ notes /= <<>>
    /\ OnChainBlocksRemoved(Head(notes).removed)
    /\ fetching' = fetching \cup Head(notes).added
    /\ notes' = Tail(notes)
    /\ UNCHANGED <<scenario, chain, born, answers, validating, changes, mempoolVars, served>>

\* GetBlockResponse with transactions.
BlockFetched(a, reds) ==
    /\ a \in answers /\ reds \subseteq Reds \ {a.b}
    /\ answers' = answers \ {a}
    /\ HandleBlock(entries, inFlight, born[a.b], reds,
                   IF a.onChain THEN {a.b} ELSE {})
    /\ UNCHANGED <<scenario, chain, born, notes, fetching, validating, changes, mempoolVars, served>>

\* GetBlockResponse to a validation request: the verdict of the moment, or the
\* node has pruned the block.
BlockValidated(b, verdict) ==
    /\ b \in validating
    /\ validating' = validating \ {b}
    /\ verdict \in {IF b \in chain THEN "chain" ELSE "off", "unknown"}
    /\ OnBlockValidated(b, verdict)
    /\ UNCHANGED <<scenario, chain, born, notes, fetching, answers, changes, mempoolVars, served>>

SubmitResponse(r) ==
    /\ r \in replies
    /\ replies' = replies \ {r}
    /\ OnSubmitResponse(r.tx, r.kind, r.list)
    /\ UNCHANGED <<chainVars, known, burned, refusals, served>>

\* submit_ai_response has submitted the AiResponse that earns the output.
InferenceServed(o) ==
    /\ o \in scenario.requests \ served /\ served' = served \cup {o}
    /\ TrackInferenceEscrow(o, 0)
    /\ UNCHANGED <<chainVars, mempoolVars>>

\* backfill_seed after a reconnect: the gap and its margin are walked again,
\* but an unfinished walk stops at the blocks that were seen live.
Backfilled == {b \in Block : /\ "unwalked" \notin scenario.trouble
                             /\ born[b] /= NotBorn /\ born[b] > -GapMargin}

\* A new connection: what was on its way is lost; flush_state has written the
\* snapshot the new watcher is built from, and its blocks are validated.
Reconnect ==
    /\ "reconnect" \in scenario.trouble
    /\ Reload(entries)
    /\ validating' = validationPending'
    /\ notes' = <<>> /\ answers' = {} /\ replies' = {}
    /\ fetching' = Backfilled
    /\ UNCHANGED <<scenario, chain, born, changes, known, burned, refusals, served>>

Next ==
    \/ \E r \in SUBSET Reds : BlockAdded(r)
    \/ \E rem, add \in SUBSET Block : ChainChange(rem, add)
    \/ \E b \in Block : AnswerGetBlock(b)
    \/ \E a \in answers, r \in SUBSET Reds : BlockFetched(a, r)
    \/ \E b \in Block, v \in {"chain", "off", "unknown"} : BlockValidated(b, v)
    \/ \E tx \in submitted : ProcessClaim(tx)
    \/ \E tx \in submitted, k \in {"seqlock", "other"} : RefuseClaim(tx, k)
    \/ \E r \in replies : SubmitResponse(r)
    \/ \E o \in Outpoint : Burn(o) \/ InferenceServed(o)
    \/ ChainChanged \/ Reconnect

Spec == Init /\ [][Next]_vars

\* Blocks keep coming (weak fairness, with BlockDue for what enables one), the
\* node answers, and only finitely many claims wait ClaimTimeout for it.
SomeBlock == \E r \in SUBSET Reds : BlockAdded(r)

Answer(tx) == \E r \in replies : r.tx = tx /\ SubmitResponse(r)

NoneExpires == \A c \in inFlight : Older(c.at) + ClaimTimeout > 0

Transactions == UNION {[1..Cardinality(S) -> S] : S \in SUBSET Outpoint}

Fairness ==
    /\ []<>~BlockDue \/ []<><<SomeBlock>>_vars
    /\ <>[][SomeBlock => NoneExpires]_vars
    /\ \A b \in Block : WF_vars(\E v \in {"chain", "off", "unknown"} : BlockValidated(b, v))
    /\ \A tx \in Transactions : WF_vars(ProcessClaim(tx)) /\ WF_vars(Answer(tx))

FairSpec == Spec /\ Fairness

-----------------------------------------------------------------------------
TypeOK ==
    /\ entries \in Seq(Entry)
    /\ outpointSet \subseteq Outpoint
    /\ blockIndex \in [Block -> SUBSET Nat]
    /\ \A c \in inFlight : c.outs \in Seq(Outpoint) /\ c.at \in Time
    /\ inFlightOutpoints \subseteq Outpoint
    /\ submitted \subseteq Seq(Outpoint) /\ known \subseteq Seq(Outpoint)
    /\ lastDaa \in Time /\ blocksSinceCompact \in 0..CompactEvery - 1
    /\ validationPending \subseteq Block /\ validating \subseteq validationPending
    /\ scenario \in Scenarios /\ chain \subseteq Block /\ born \in [Block -> Time]
    /\ \A i \in DOMAIN notes : notes[i].removed \cup notes[i].added \subseteq Block
    /\ fetching \subseteq Block
    /\ answers \subseteq [b : Block, onChain : BOOLEAN]
    /\ burned \subseteq Outpoint /\ served \subseteq Inference
    /\ \A r \in replies : r.tx \in Seq(Outpoint)

\* block_index always names the ordinals of the vector, across compaction,
\* reorganisations and reloads, and misses no live entry: a red or removed
\* block purges its own entries and no others.
IndexIsSound ==
    /\ \A b \in Block : \A i \in blockIndex[b] :
          i \in DOMAIN entries /\ BlockOf[entries[i].o] = b
    /\ \A i \in DOMAIN entries :
          Live(entries[i]) /\ BlockOf[entries[i].o] /= NoBlock
            => i \in blockIndex[BlockOf[entries[i].o]]

\* An output has at most one live entry, however often its block is removed
\* and tracked again: it never enters a batch twice.
OneLiveEntry ==
    \A i, j \in DOMAIN entries :
        Live(entries[i]) /\ Live(entries[j]) /\ entries[i].o = entries[j].o => i = j

\* The claims in flight spend disjoint outputs, and in_flight_outpoints holds
\* exactly those, through timeouts, rejections and late answers.
ClaimsAreDisjoint ==
    /\ inFlightOutpoints = UNION {ToSet(c.outs) : c \in inFlight}
    /\ \A c, d \in inFlight : c /= d => ToSet(c.outs) \cap ToSet(d.outs) = {}
    /\ \A c \in inFlight : Cardinality(ToSet(c.outs)) = Len(c.outs)

\* The ledger of the watcher: the entries, the index of their blocks and the
\* outputs in flight agree with each other whatever happened before.
LedgerIsSound == IndexIsSound /\ OneLiveEntry /\ ClaimsAreDisjoint

\* The purpose of the tracker: once the miner has heard all there is to hear
\* about a chain block, each of its outputs that can still be spent has a
\* live entry.
ClaimableIsTracked ==
    \A o \in Outpoint \ (Inference \cup Spent \cup burned) :
        LET b == BlockOf[o]
        IN b \in chain /\ b \notin validationPending /\ ~OnItsWay(b)
             => \E i \in DOMAIN entries : entries[i].o = o /\ Live(entries[i])

\* The output of entry i cannot be spent any more, or its block comes back and
\* the miner is about to hear of it, or has tracked it anew.
Lost(i) ==
    LET o == entries[i].o
    IN \/ ~Exists(o) \/ o \in Spent \/ OnItsWay(BlockOf[o])
       \/ \E j \in DOMAIN entries \ {i} : entries[j].o = o /\ Live(entries[j])

\* "A valid entry repeatedly batched with a dead one can never be slashed by
\* association": only an output that is missing counts an orphan retry.
OnlyTheDeadAreBlamed == \A i \in DOMAIN entries : entries[i].oret > 0 => Lost(i)

\* "Deriving an irreversible state from an error string has lost real funds
\* before": whatever the rejections, an entry is given up only if its output
\* is gone: not on the chain, burned, or spent.
OnlyTheDeadAreSlashed ==
    \A i \in DOMAIN entries : entries[i].slashed => Lost(i) \/ entries[i].o \in burned

\* An entry is reported as claimed only if the node accepted a transaction
\* that spends it, however the answer came.
ClaimedIsSpent ==
    \A i \in DOMAIN entries : entries[i].claimed => entries[i].o \in Spent

\* What an answer says of a claim is never laid on an entry it is not true of.
AnswersAreEarned == OnlyTheDeadAreBlamed /\ OnlyTheDeadAreSlashed /\ ClaimedIsSpent

\* "Mark every entry matching the given outpoints as claimed": after an
\* acceptance no output of the claim is live any more.
AcceptedIsClaimed ==
    [][\A r \in replies :
          SubmitResponse(r) /\ Accepted(r.kind) /\ (\E c \in inFlight : c.outs = r.tx)
            => \A i \in DOMAIN entries' : entries'[i].o \in ToSet(r.tx) => ~Live(entries'[i])
      ]_vars

\* "Retrying one that actually went through is rejected as a duplicate and
\* resolves to claimed": a spent output is never given up as dead.
SpentIsNotSlashed ==
    \A i \in DOMAIN entries : entries[i].slashed => entries[i].o \notin Spent

\* "Still converges to the permanent slash": no mature output that drains at
\* any size stays in the queue for ever; it ends claimed, burned or slashed,
\* through bisection, cooldowns, forgiveness and late answers.
ClaimsSettle ==
    \A o \in Outpoint :
        (\E i \in DOMAIN entries : entries[i].o = o /\ Live(entries[i]))
            ~> ~(\E i \in DOMAIN entries : entries[i].o = o /\ Live(entries[i]))
=============================================================================
