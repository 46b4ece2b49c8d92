# keryx-miner in TLA+

TLA+ models of the parts of keryx-miner that are hard to test: the escrow store
and the claims made from it, the handling of blocks over lost connections, the
AI service and the audit of its answers, mining workers, the pool client, the
cards of a rig, the proof of model and the inference traces. TLC checks the
models on small instances; TLAPS proves the most important properties for every
instance. `PROJECT.json` lists components, runs, hazards, findings and theorems,
and maps each definition to the lines it models. Paths below are relative to the
repository.

    tlc -workers 2 -config MCEscrow.cfg MCEscrowSystem
    tlapm EscrowJournalProofs.tla

## The system

The miner is one process. `src/main.rs` connects to a node (gRPC) or a pool
(Stratum), runs `listen` until the connection breaks and connects again. One
`KeryxdHandler` lives as long as a connection; all of its handlers run on one
task, one message or timer tick at a time. What a handler owes is passed to the
next one through statics (`PARKED`, `BACKFILL_PROGRESS`) in its `Drop`, or
through files. Mining workers are threads of their own that share the cards with
inference.

| Component | State | Operations | Talks to |
|---|---|---|---|
| Escrow store (`escrow.rs`) | entries, snapshot file, journal file, sequence number, lines owed | change, flush, compact, load, `--recover-escrow` | watcher, disk |
| Escrow watcher (`escrow.rs`) | entries, `block_index`, `outpoint_set`, claims in flight, caps, cooldowns | `handle_block`, `on_chain_blocks_removed`, validation, `on_submit_response`, expiry, compaction | handler |
| Claim selection (`escrow.rs`) | none | `select_claim_batch` | watcher |
| Backfill (`client/grpc.rs`) | queue, visited set, pending requests, cutoff, progress of the last connection | seed, pump, note block, note error | node |
| AI service (`client/grpc.rs`) | request queue, seen and answered ids, tasks, responses waiting for the disk or for the node | scan, infer, publish, submit, retry, park, restore | node, model, IPFS, trace store |
| Trace store (`trace_store.rs`) | a writer thread and its job queue, one record per response | save, flush, remove, load | AI service, audit |
| Audit (`client/grpc.rs`) | `chain_log`, accepting and seed blocks, openings, attention phases, deadlines | chain notifications, rebuild pages, draws, replays, openings, awaited openings | node, model, trace store |
| Mining (`miner.rs`, `watch.rs`) | current job, worker threads, finds, proofs under way | process block, freeze, shut down | cards, handler |
| Cards (`pom_gpu.rs`, `llama_engine.rs`, `llm.rs`) | walkers, engines, pause counts, quarantine, locks | install, walk, pause, serve, probe, downgrade | mining, AI service, audit |
| Pool client (`client/stratum.rs`) | session, jobs, requests the pool owes an answer, inference threads | notify, submit, keepalive, requests, challenges, tasks | pool, model |
| Proof of model (`pom*.rs`, `pow.rs`) | model weights, tree file, memo | walk, proof, verification | mining |
| Traces (`trace*.rs`, `verifiable-inference/`) | a record of a run, its commitment, captured leaves | record, draw, open, verify | audit, pool client |
| Payloads (`opening.rs`, `inference/`) | none | encode, decode, seal, open | node, pool |
| IPFS (`ipfs.rs`) | daemon, recovery lock | upload with recovery | AI service |
| Interface, statistics, packaging | counters | display | all |

What is hard, and what makes the components correct:

- **Crashes and failed writes.** What the store reported as flushed must be
  there after any crash; a snapshot and a journal of different age must not mix;
  a private answer must not leave before its trace can be found again.
- **Answers that come late, twice or never.** A claim that timed out may have
  been accepted. Outputs must not be claimed twice at once, given up while they
  can be spent, or reported as claimed when they are not. An answer of the pool
  must meet what it answers.
- **Reorganisations.** Each output of a chain block is tracked exactly once; the
  draw of an audit and its phases are the node's, whatever order their parts
  arrived in.
- **Lost connections.** Work is handed over without being lost or done twice,
  and a walk over the block graph goes on where it stopped.
- **Threads that share a card.** No walk reads weights that were freed; mining
  resumes after everything that pauses it.
- **Bounds.** Queues and id tables are emptied or cut when they are full.
- **Two sides of one algorithm.** What the miner opens, encodes or seals is what
  the verifier checks, decodes or opens, at every shape of a model.
- **Progress.** Walks end, claims settle, requests end, audits are opened,
  connections that end are over.

## Modules

| Module | Models | Depends on |
|---|---|---|
| `DurableMap` | what a store promises: a map whose changes become durable in prefixes | |
| `EscrowJournal` | snapshot and journal, flush, compaction, start, recovery, crash | implements `DurableMap` |
| `EscrowWatcher` | one operator per method of `EscrowWatcher`; `select_claim_batch` as the set it computes | |
| `EscrowSystem` | the watcher connected to a node as `handle_message` does it | `EscrowWatcher` |
| `Backfill` | the ancestor walk, resumed by the next connection | |
| `AiService` | requests from the scan to the node's answer, with the trace store's writer thread | |
| `ChainTree` | blocks, selected chains, the block that a delay draws | |
| `ChainDraw` | the chain log, its rebuild, the draw, replays and first openings | `ChainTree` |
| `AttnPhases` | attention phases of one response, awaited openings, deadlines | `ChainTree` |
| `WatchChannel` | the channel of `watch.rs` | |
| `Mining` | manager, workers, finds, proof threads, freeze, end of a connection | `WatchChannel` |
| `GpuCards` | who may walk, install, serve and probe on a card; the locks between them | |
| `Stratum` | one connection of the pool client with its threads and the pool | |
| `Merkle` | the three hash trees, with hashes as terms | |
| `WeightTree` | the weight index: tree file with checkpoints, memo, dense form | `Merkle` |
| `ProofOfModel` | walks, proofs and checks of the five eras, from a nonce to what leaves | `WeightTree` |
| `TraceManifest` | manifest, leaves and draws, shared by prover and verifier | `Merkle` |
| `TraceRecord`, `SeqRecord` | the miner's side of an audit: record, captures, openings | `TraceManifest`, `RecurVerify` |
| `TraceVerify`, `AttnVerify`, `RecurVerify` | the verifier's side: products, links, prefixes; attention blocks; recurrent points | `TraceManifest` |
| `TraceAudit`, `SeqAudit` | one audit from run to verdict, with at most one deviating value | both sides |
| `OpeningWriter`, `OpeningReader`, `Payloads` | the codecs of openings, requests, responses, challenges and bundles | |
| `PrivateInference` | sealed prompts and answers, both key schedules | |
| `EscrowJournalProofs`, `EscrowProofs` (of `EscrowSystem`), `BackfillProofs`, `AiServiceProofs`, `StratumProofs`, `MiningProofs`, `GpuCardsProofs`, `AttnPhasesProofs` | theorems about the module each is named after | |

`MC*` modules and `.cfg` files hold the instances; the tree of blocks for `AttnPhases` is at
its end. Operators whose comment says
"Faulty" or "Variant" are plausible slips of the code; replacing the definition
that follows by one of them must make its property fail.

**EscrowJournal.** `entries` is the map in memory, `snapshot` and `snapshotSeq`
the installed file, `journal` its lines, `pending` the lines owed. Each I/O step
has the outcomes the code distinguishes (`SaveOutcome`: nothing, the snapshot
installed and the journal left, both). `FlushJournalCut` is an append cut short;
with `TornWrites` it may stop inside a line. A failed write followed by `Crash`
is a crash in the middle of the write.

**EscrowWatcher and EscrowSystem.** Entries are a sequence, as in the code, so
that ordinals move under compaction. DAA scores are relative to the newest
block, which lets time go on for ever. The node keeps the selected chain and
the spent outputs and answers truthfully, in any order. `Scenarios` says which
troubles may meet in one behaviour. Scripts, signatures and the bytes of a claim
are left out: a claim is the sequence of its inputs, which stands for its txid.

**Backfill.** Blocks are numbered by arrival. The walk is the code's: a queue, a
window of requests, parents added when a block is scanned, a cutoff.

**AiService.** `h` is the handler or, between connections, what it parked. A
response is a request and the number of the answer, since each answer has a txid
of its own. `jobs` is the writer's queue: a save followed by the flush whose
signal lets the response go. `kindOf` says whether a request is public, private
or addressed to this miner and unreadable. Texts, CIDs and seals are left out. The
watcher's tracking of rewards is in memory (`tracked`) and later on disk (`ledger`):
`maybe_flush` appends a line at most every 2 s, so each call of it writes what is
tracked or leaves it for later. A connection that ends drops the watcher, which
writes its last state; a crash leaves what is on disk, and `lapsed` names the rewards
that were tracked until then. That a line once written is read again is the subject of
`EscrowJournal`. A request met while the queue is full is noted as seen and dropped, as
`pop_back` does.

**ChainDraw and AttnPhases.** The node is a tree of blocks and a tip that moves to
a higher score; the chain of a tip is the least set that holds it and the parent of
each of its blocks. Chain messages arrive in the order they were issued, block
answers in any order. `ChainDraw` keeps the log as the handler does and follows
each response to its first opening. `AttnPhases` takes the log as the chain of the
last tip announced and follows one response through all of its phases: children
drawn, openings accepted, what a reorganisation undoes, the node's list of
awaited openings, windows and deadlines. The cap on bodies kept
(`BUILT_OPENINGS_KEPT`) is left out.

**WatchChannel and Mining.** A step of the channel is what one lock makes atomic.
Workers of three kinds (the PoM, the GPU and the CPU loop) look for a job, launch,
submit and are frozen or joined; `rig` says which faults a behaviour may meet. A
card without a context pad, or whose CUDA run is ignored, goes round without looking at
the channel (`Blink`), until there is one (`Recover`), which may be never: then the
freeze handler ends it. Hash rates and nonce ranges are left out.

**GpuCards.** A card's state is its walker, its engine, the pause count, the
quarantine and the holders of its locks; a step is what happens between two
acquisitions. A request and an opening take the engine's slot and then, if a launch
shrank the context, wait for its pad with the slot held (`FullContext`); the launch lets
go of the slot before it takes the pad. The kernels are left out.

**Stratum.** A handler is one step up to the line it sends. Time is a choice:
at any tick a request may be found late and the line idle. Difficulty and
extranonce change nothing but targets and nonces, and are left out.

**Algorithms.** `Merkle` to `PrivateInference` are pure operators with a small state
machine around them that goes through the inputs: a model, a run with one
deviating value, a body with one field changed. Hashes and keys are terms or
small injective functions; kernels are small integer functions with the code's
arguments, so rounding and tolerances are left out.

## Runs

| Run | Instance | Checks |
|---|---|---|
| `journal` | `EscrowJournal`: two outpoints, three changes | `StoreSpec`: the store implements `DurableMap`. `FlushedIsDurable`, `OwedIsRecoverable`, `InstalledIsWhole`. Three changes are enough for a line to be superseded by another and for a snapshot between them. |
| `journal_torn` | the same with `TornWrites` | `FlushedIsDurable` is violated when an append stops inside a line (finding). |
| `escrow` | `MCEscrow.cfg`: two blocks and four chain changes, blocks that come back or reconnects; stored outputs, one of a vanished block, one of an AI request, a burn, a transient refusal; all vectors of up to three entries | The ledger is sound, claimable outputs are tracked, only the dead are blamed or slashed, what is claimed is spent, an acceptance reaches every output. The selection equals the loop of the code written out as a fold, its batches can be signed, nothing that may ship is held back. |
| `escrow_settle` | two stored outputs, one lost for ever | Every mature output is claimed or given up in the end. |
| `backfill` | twelve blocks of width two, two lost connections, one error | The walk keeps to its window and behind the first template, misses no ancestor, asks for nothing twice, ends. |
| `ai_service` | two requests that pay, one of them private, a queue of one place, tables of two, three meetings of a request, one lost connection or crash | A request is in one place, its reward is tracked in time unless a crash loses the tracking, a traced answer follows its trace, no request is done twice and none is lost but over a full queue, work ends. |
| `chain_draw` | two responses, five blocks in two branches, pages of two blocks, a window of one request, one loss, one error | The log is the chain, the opening built is for the node's draw, audits are opened. |
| `attn_phases` | seven blocks in two branches, two phases, one loss, one failed replay | The phases are those of the chain; what the chain awaits is sent in the end. |
| `gpu_cards` | one card that serves with two failures; two cards that cross an era; two cards that serve | No walk over freed weights or the wrong model; everything served ends, withdrawn models are probed, mining resumes. |
| `mining` | a card for a node with a hanging driver and faults; one for a pool over two connections that may have no context pad; a card of the old plugins beside a CPU thread | No worker is left on a job that was replaced behind a number it noted, every job reaches every worker that does not stay without a pad, a connection that ends is over. |
| `stratum` | four pools: tasks, requests, private jobs, no model ready | Every answer finds what it answers, one inference at a time, a CID is of its own job, a silent pool is left. |
| `algorithms` | models of three to nine chunks, five eras; audits of small models with one deviating value; bytes of fourteen values; three miners | Paths are of the model, blocks are proved, honest audits pass, deviations are caught, bodies are read back, sealed messages are read by their reader alone. |

The bounds are the smallest at which each action fires and each variant is
caught. In `ai_service` the second request meets a full queue, the third answer a full
table of transactions; the tables of seen and answered ids do not fill up there, and
no request is unreadable: those cases are covered by the theorems, which hold for all
sizes and kinds.
Runs whose cfg says `CHECK_DEADLOCK FALSE` may stop: their graph of blocks, their
jobs or their input is finite. In `escrow` only the vectors of the selection stop.

Restrictions that matter:

- `escrow` takes readds and reconnects one at a time. With both
  (`{"readd", "reconnect"}`) an output is not tracked: `outpoint_set` is rebuilt
  from all entries at load, slashed ones included. With `{"sidered"}` (merge sets
  of side blocks reported) or `{"reconnect", "unwalked"}` (connection lost before
  the first walk has ended) it is not tracked either. Whether a node produces
  these is not decided in this repository.
- `InstalledIsWhole` is claimed for the watcher's own snapshots. The one of
  `--recover-escrow` restarts the numbering, and a stop before the journal is
  emptied replays old lines over it.
- `WalkIsComplete` is checked on a graph in which each block has the two before it
  as parents. It does not hold on every graph: the walk starts at the parents of
  the first block that is notified, and a side block the node had before, first
  merged by a later one, is nobody's to fetch. What holds on every graph is
  `FetchedIsWalked` of `BackfillProofs`: all that the walk came by is scanned.
- `DrawIsReference` of `ChainDraw` has an exception, found with two responses: a
  stored opening can draw a block that is in the log only as the start of another
  response's rebuild. It lasts until the node's answer about that block.
- `RewardIsTracked` and `OnePlace` of `AiService` leave out requests over which a
  full id table was emptied (`forgotten`). `RewardIsTracked` also leaves out those whose
  tracking a crash, or a last state that could not be written, lost (`lapsed`), until
  they are tracked again: the node may have such an answer, and nothing in the code
  tracks its reward again. Messages on their way are sets: the
  node may answer in any order, and two copies of one response are one. Rejections
  change nothing in the handler but a log line, and are not kept on their way.
- `LatestIsSeen` of `Mining` does not promise a job to a card that never has a pad
  again. Such a card does not look at the channel when the connection ends either;
  `ShutdownEnds` holds of it because the freeze handler ends it after 30 s.

### Fairness

- `EscrowSystem`: blocks keep coming, answers come, and from some point on no
  claim expires unanswered: a node that never answers settles nothing.
- `Backfill`: blocks arrive, the template comes, requests are answered,
  connections are made again (the loop of `main.rs`).
- `AiService`: the timer of `listen` ticks, the writer thread runs, tasks end,
  templates are asked for and one of them finds the model ready and the miner
  free (strong fairness, because other templates come between).
- `ChainDraw`: messages are handled, requests answered, timers come due, replays
  end, and answers about other blocks keep arriving; `resolve_traces` is called
  only from answers, so a draw that became possible by a retry that was dropped
  waits for the next block. Errors and losses are bounded.
- `AttnPhases`: the handler's timers and messages, replays, sending and
  reconnecting. Nothing is assumed of the network.
- `Mining`: the threads that run keep running; a submit and a launch are
  strongly fair, because the place in the channel and the card come and go; the
  watchdog, the consumer of finds and `close` act. A call that hangs is not fair.
- `GpuCards`: workers run, templates come; a lock that is free again and again is
  taken (strong fairness, as the mutexes give no order); the probe timer fires.
- `Stratum`: `listen` and the writer run, the timer ticks, and the pool reads its
  socket if it is one that reads.

## Findings

**journal_torn** (`src/escrow.rs`, `write_journal`): an append behind a torn line
is glued to it; a synced change is lost, where the README promises the last two
seconds at most.

The following disagreements between code and comments are stated in the modules
but are no runs; each is seen by adding the property to the cfg named.

| Property | How to see it |
|---|---|
| `SpentIsNotSlashed` (`EscrowSystem`) | invariant of `MCEscrow.cfg`: a retry after a timeout need not have the same inputs, so it is not recognised as a duplicate, and a claimed output ends as slashed |
| `GapIsWalked` (`Backfill`) | invariant of `Backfill.cfg` with `MaxErrors = 0`: the gap's cutoff is computed from the block just received |
| `OldestIsDropped` (`AiService`) | property of `AiService.cfg`: the comment on `MAX_AI_QUEUE_SIZE` (`src/client/grpc.rs:93`) says "drop oldest when full"; `pop_back` (1190–1192) drops the request just met, which stays in the set of seen ids and is not taken up by this connection |
| `WireIsOnDisk` (`AiService`) | with `WritesFail = TRUE`: a failed write is signalled as written |
| `DowngradeLasts` (`GpuCards`) | property, with a rig of two tiers and `MinerFaults = {"oom"}`: a card is moved back to the model that did not fit |
| `WonIsLeft` (`Mining`) | property of `MCMining.cfg`: a late notification wakes a worker with the job it has won |
| `SilenceIsNoticed` (`Stratum`) | with a pool whose `reads` is FALSE: the keepalive waits for the socket |
| `EveryProofIsChecked` (`ProofOfModel`) | invariant of the part `"pom"` of `MCAlgorithms`: proofs of the older eras leave unchecked from a damaged copy |
| `AcceptanceIsNoted`, `RestoredPhaseIsOfTheChain` (`AttnPhases`) | property and invariant of `AttnPhases.cfg`: acceptances are noted only for the newest phase; a rebuild starts at the last accepted phase without asking whether the chain still has it |

## Proofs

Each theorem holds for every value of the constants that satisfies the
module's `ASSUME`s; a bound such as `MaxSeq` or `MaxLosses` is any number. Invariants
are proved from an inductive one, which was first checked by TLC on the run's
instance; below each is what it says and why the property alone does not do.

**EscrowJournal** (`EscrowJournalProofs`): `StoreTypes`, `FlushedSurvives`,
`OwedSurvives`, `InstalledSurvives` and `StoreIsDurableMap` state all the properties
of the run `journal`. They assume `JournalAssumption` and `~TornWrites` (an append
stops at a line end); without the second, `journal_torn` refutes them.

`FlushedIsDurable` is not inductive: it speaks of the moments when nothing is
owed, and says nothing about how a state with lines owed becomes one. `IInv`
(`StoreInvariant`) says what always holds: replaying snapshot, journal and owed
lines gives the memory, but for done entries that compaction dropped and the due
snapshot will drop (`Current`); numbers identify lines (`Unique`); the journal holds
a prefix of what is owed (`Ordered`), so that appending the same lines again
changes nothing; numbers stay below the counter (`Bounded`); a stopped store owes
nothing and the file ends at a line end (`Quiet`); and each set of lines about some
keys up to some number has a newest one (`Topped`), which is what replay's choice
needs. There is one lemma per action.

`StoreIsDurableMap` is the refinement: every step maps to a step of `DurableMap` or
to none, under the mapping that reads the durable map as what a start would load
(`Recovered`). Two more facts are needed. Lines that are no longer owed are older
than those that are (`Aged`): otherwise an append could make durable a change
without one before it. And a snapshot that was installed but reported as failed
holds what the owed lines below its number say (`Covered`), so that appending them
again behind it changes nothing. With them an append cut short is a prefix of the
changes made durable, or nothing at all.

**EscrowSystem** (`EscrowProofs`): `LedgerStaysSound` and `ClaimedWasAccepted`, for any
blocks, outputs (finitely many to a block), windows, amounts and limits, from
`BatchAssumption`, `WatcherAssumption` and `SystemAssumption`. `LedgerInv` has three
parts. `Booked`
relates the vector of entries to `outpoint_set` and `block_index`: beyond the property
it says that every live entry's output is in `outpoint_set`, without which tracking a
block twice would make a second live entry. `Apart` is the property of the claims in
flight. `Messages` types what is on its way. `Follows` is what ageing, healing,
slashing and answers have in common (no output changes, nothing is revived), and
keeps `Booked` in one lemma; retaining and appending have their own. A new claim
keeps `Apart` because a batch lists different indices of eligible entries: that the
scan has a result is the least-counterexample argument of `FilledIs`, that its
members can be listed in scan order is `InScanOrderIs`, and one live entry per
output makes different indices different outputs. `ClaimedWasAccepted` is
`ClaimedIsSpent` for any state file: one may hold entries that an earlier program
claimed (`ClaimedBefore`), where the runs start from live entries only. `ClaimInv`
adds that an answer of acceptance is about a transaction the node has; every change
of the vector but an answer claims nothing (`ClaimsNone`), and a rejection claims
nothing either (`RejectedClaims`).

**Backfill** (`BackfillProofs`): `WalkStaysOrderly`, `NoBlockIsAskedAgain` and
`TheWalkMissesNothing`, for any graph of blocks. `WalkInv` adds to the types and to
`MiningComesFirst` that nothing is queued or pending without a connection
(`QuietWhileDown`), that notified blocks are above all that was scanned
(`NewsAreNew`), and that a block is in one place of queue, pending and scanned
(`AskedOnce`). For the third, `WalkedThrough` adds that without errors what was
visited is scanned, queued or pending.

**AiService** (`AiServiceProofs`): `BooksStayInAgreement`,
`TracesPrecedeAnswers` and `RequestsAreDoneOnce`. `BooksInv` counts each request
over the queue, the tasks, the responses and their retries, and says which
tables must know it; the property is a bound on those counts. Rewards are
accounted for when they are tracked or have lapsed (`Accounted`): no step makes
that set smaller, and a crash moves rewards within it. `WireInv` follows a
traced answer through the writer's queue: it may be released only when the flush
behind its save has been signalled. The second theorem assumes `~WritesFail`.
The third is of steps: `DoneInv` adds to `BooksInv` that every queued request is
noted as seen and none as answered (`QueueSeen`, `Open`), that what this
connection has scanned an answer for is noted, and that the node has an answer
for every request it gave its last word on; then each operation (scan, start,
poll, tick, answer, loss, reconnect) either keeps a request somewhere in the
handler or has one of the reasons `LeavesForAReason` lists, and what it newly
notes as seen is in the handler or met a full queue (`NewIsOwed`). The queue is
passed over only by requests that were forgotten: one that a full table of ids
lost, that was queued a second time while its answer was on its way, and whose
id came back with a reconnect, is skipped at the front of the queue, which is
why the property excepts the forgotten.

**Stratum** (`StratumProofs`): `RequestsStayKept`, `CidStaysOfItsJob` and
`StratumTypes`. `NotesInv` says of every line on its way to the pool, and of every
answer on its way back, that the table of requests has its number, that numbers
are given once, and that the flag of the inference under way agrees with the
threads. `JobsInv` says the same of the tasks of jobs and the shares found for them.

**Mining** (`MiningProofs`): `WorkersGrindTheLatest`, for any workers, jobs and number
of connections. `MiningInv` rests on `ChannelInv` of `WatchChannel`, for which
`SeenValueIsCurrent` and `ChannelKeepsItsPromises` are theorems of their own: no
receiver has noted a number before it was given, one that noted the present number
has the present value, and one that sleeps will be notified. It adds that a worker's
job is the one it cloned last, or none once it won it or ended (`JobIsSeen`):
`JobIsTheLatest` alone says nothing of a worker about to clone.

**GpuCards** (`GpuCardsProofs`): `WalksStayLive` states `WalksLiveWeights` for any
cards, models, servers, eras and rigs, from `CardsAssumption`. The property says
nothing of why an engine may be freed; `CardsInv` does. Who waits for a card's walk,
has drained it, loads an engine on it or builds its miner holds its lifecycle lock
(`LocksHeld`), so at most one thread does. Once past the barrier it finds no miner
installed and no handle (`ClearedFirst`), and its own worker has none while it
rebuilds (`Phases`). A walk that outlives its miner is waited for or quarantined
(`WalkersKnown`): without that, uninstalling a card that has no miner would not
wait. A server in the engine has its slot (`SlotsHeld`), so the engine stays. Steps
are sorted by what they do to locks and miners: nothing (`QuietStep`), a worker's
own card without its lock (`OwnCardStep`), a card under its lock (`HeldStep`); there
is one lemma per action.

**AttnPhases** (`AttnPhasesProofs`): `PhasesOfTheChain` states `PhasesAreOfTheChain` for any
tree of blocks, audit depth, windows and delays, from `TreeAssumption` (a parent has
the lower score) and `PhasesAssumption` (types, and that the markers of absence are
none of the values they stand beside). It rests on what a chain is as a set: a chain
holds the chains of its blocks (`ChainOfAncestor`), of two blocks of a chain one is
on the chain of the other (`ChainIsOrdered`), so the first block of a kind on a chain is
unique and stays it on every other chain that has it (`EarliestStays`). The property
is not inductive. `DescentInv` (`DescentHolds`) adds what connects it to the rest of the
trace (`Sound`): the block that accepted the response is the one the announced chain
names, the draw is for the block that the rule then gives, and the opening was the
right one on the chain it was made for, though not necessarily on this one; a phase
is owed only while draw and opening agree, otherwise the replay would open a child of
another opening. Of the phases (`Held`) it says that the sequences stay in step
(`Lengths`), that only a phase before the last of a restored trace has no transaction
(`Known`), and that acceptances noted for phases a reorganisation dropped are on the
chain too (`LateOn`), since a phase built again takes its acceptance from there. Of the
node (`NodeInv`) it says that a block that accepts an opening has the seed block on its
own chain: so a child cannot be drawn for an acceptance of a chain that does not have
the opening. A step is what it does to the trace: blocks that leave (`RemovedSound`),
blocks that join (`NotedSound`), draws (`ResolveSound`), openings (`SubmittedSound`,
`PhaseBuiltSound`), the node's answer (`AppliedSound`), a restart (`RestoredSound`).

Only model-checked:

- all liveness, which needs fairness and `ENABLED`, beyond the prover;
- what recursive definitions and folds compute (the loop of `select_claim_batch`,
  Merkle trees, codecs, kernels): it would take induction over data;
- `WalkIsComplete`, which depends on the graph;
- the invariants of `ChainDraw`: its log and messages are lists of blocks, made with
  `ChainTo`, a recursive function over the tree, and to unfold it takes induction;
- those of `EscrowSystem` that speak of the chain: `ClaimableIsTracked`, and the two
  parts of `AnswersAreEarned` about blame and slashing, which rest on how old a block
  is when its verdict counts, and do not hold in every scenario (a merge set of a side
  block may call a chain block red);
- `AcceptedIsClaimed`, which depends on `CompactEvery` and the windows, and does not
  hold for all their values.

## Not modelled

Hashes of the proof of work, targets and GPU kernels (numeric code), IPFS
publication (one child process behind one lock; a task with a result or none),
the interface and statistics (pure output), options and the start of plugins, the
plugins themselves (driver calls), scripts and packaging. `PROJECT.json` gives the
reason for each part, and says what is left out of the parts that are modelled.

## Plan

`LogIsTheChain` for every chain, with the log as a stretch of the chain: `Fork` and
`ChainTo` would have to be written, as `Chain` is, without recursion, and `Fork` needs
that the tree has one root. Then `DrawIsReference`, by the lemmas on `Earliest` of
`AttnPhasesProofs`, and `OnlyTheDeadAreBlamed`, from what is final and what is on its
way.
