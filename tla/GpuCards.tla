------------------------------- MODULE GpuCards -------------------------------
(***************************************************************************)
(* The cards of a rig, shared by the possession walk of src/pom_gpu.rs and *)
(* the llama.cpp engine of src/llama_engine.rs, as src/llm.rs and the PoM  *)
(* loop of src/miner.rs use them.                                          *)
(*                                                                         *)
(* A card's walk may gather straight over the weights of the engine on it  *)
(* ("zero-dup"), so nobody may free an engine under a walk.  A pause count,*)
(* a quarantine and four kinds of lock stand between them: the swap lock,  *)
(* one lifecycle lock and one engine slot for each card, and the lock of   *)
(* the native library, taken in that order.                                *)
(*                                                                         *)
(* A thread is the mining worker of a card or a server: the client's task  *)
(* that answers a request or opens a trace, or the task that probes a      *)
(* withdrawn model.  The era is the present one: block tasks are not       *)
(* active in it.  A fault that poisons the CUDA context ends the process   *)
(* and is not modelled.                                                    *)
(***************************************************************************)
EXTENDS Integers, Sequences, FiniteSetsExt

CONSTANTS
    Card,          \* CUDA devices, 0 among them
    Model,         \* models of the lineup
    Server,        \* threads that serve requests and open traces
    Prober,        \* the probe task
    None,          \* absence of a model, a miner, an engine or a holder
    Lineup,        \* the model each card's hardware tier mines, era by era
    TierIndex,     \* the tier of each model, era by era; 0 when it has none
    PadEra,        \* the first era whose walk needs a context pad
    MaxRecoveries, \* MAX_PROBE_RECOVERIES
    EngineFaults,  \* how loading an engine may fail
    MinerFaults,   \* how building a miner may fail
    Rigs           \* bound: the rigs

Era    == 1 .. Len(Lineup)
Thread == Card \cup Server \cup {Prober}

\* A rig starts in some era; bounds: how many loads fail, whether a walk may outlast
\* the wait of uninstall, and what is served.
Rig == [cards : SUBSET Card, start : Era, failures : Nat, stuck : BOOLEAN,
        serves : SUBSET {"request", "opening"}]

ASSUME CardsAssumption ==
    /\ 0 \in Card /\ Card \subseteq Nat
    /\ Server \cap Card = {} /\ Prober \notin Server \cup Card
    /\ None \notin Thread
    /\ Lineup \in Seq([Card -> Model]) /\ Lineup # <<>>
    /\ TierIndex \in [Era -> [Model -> Nat]]
    /\ PadEra \in Nat
    /\ EngineFaults \subseteq {"load", "library", "context", "generate"}
    /\ MinerFaults \subseteq {"index", "gates", "oom", "other"}
    /\ MaxRecoveries \in Nat
    /\ Rigs \subseteq Rig

VARIABLES
    rig,      \* the rig (rigid)
    card,     \* what the process knows of each card and holds on it
    life,     \* who holds each card's lifecycle lock
    slot,     \* who holds the lock of each card's engine slot
    swap,     \* who holds LLAMA_MODEL_SWAP
    native,   \* who holds the lock of the native library
    thr,      \* each thread's place, and what it works on
    job,      \* era of the template each worker has
    index,    \* models with a possession index
    banned,   \* OOM_BANLIST
    served,   \* SUPPORTED_SPECS
    away,     \* unavailable_models, and when each is to be probed
    healed,   \* probe_recoveries
    unusable, \* LIB_UNUSABLE
    failures  \* bound counter

lockVars  == <<life, slot, swap, native>>
modelVars == <<served, away, healed, unusable>>
vars == <<rig, card, lockVars, thr, job, index, banned, modelVars, failures>>

-----------------------------------------------------------------------------
\* State.

\* A device miner, and what it walks over: an upload of its own, the engine's
\* weights, or (after they were freed) nothing any more.
Miner == [model : Model, over : {"raw", "engine", "freed"}]

Engine == [model : Model, full : BOOLEAN]   \* full: the load-size context is up

CardState ==
    [tier      : Model,                 \* mining_tiers
     installed : Miner \cup {None},     \* miners()
     built     : Miner \cup {None},     \* a miner under construction
     walk      : Miner \cup {None},     \* the handle its worker cloned
     draining  : BOOLEAN,               \* a miner is quarantined
     engine    : Engine \cup {None},    \* the engine in the slot
     pauses    : Nat]                   \* inference_pause_counts

ThreadState ==
    [pc    : STRING,
     kind  : {"none", "request", "probe", "opening"},
     model : Model \cup {None},
     dev   : Card,
     held  : [Card -> Nat],    \* its InferencePause guards
     left  : SUBSET Card,      \* cards advance_mining_tier_if_due has still to look at
     swaps : BOOLEAN]          \* it has swapped a card

Resting == [pc |-> "top", kind |-> "none", model |-> None, dev |-> 0,
            held |-> [c \in Card |-> 0], left |-> {}, swaps |-> FALSE]

Init ==
    /\ rig \in Rigs
    /\ card = [c \in Card |->
                 [tier |-> Lineup[Len(Lineup)][c], installed |-> None, built |-> None,
                  walk |-> None, draining |-> FALSE, engine |-> None, pauses |-> 0]]
    /\ life = [c \in Card |-> None]
    /\ slot = [c \in Card |-> None]
    /\ swap = None /\ native = None
    /\ thr = [t \in Thread |-> Resting]
    /\ job = [c \in Card |-> rig.start]
    /\ index = {} /\ banned = {}
    /\ served = {Lineup[Len(Lineup)][c] : c \in rig.cards}
    /\ away = [m \in Model |-> "no"]
    /\ healed = [m \in Model |-> 0]
    /\ unusable = FALSE
    /\ failures = 0

-----------------------------------------------------------------------------
\* Small steps shared by the operations.

Paused(c) == card[c].pauses > 0

DeviceFor(m) ==
    LET mining == {c \in rig.cards : card[c].tier = m}
    IN  IF mining = {} THEN 0 ELSE Min(mining)

Hosts(c, m) == card[c].engine # None /\ card[c].engine.model = m

\* Another handle keeps a removed miner alive: its worker is walking.
Walking(c) == card[c].walk # None

\* The engine's weights go: who gathered over them reads freed memory.
Stale(h) == IF h # None /\ h.over = "engine" THEN [h EXCEPT !.over = "freed"] ELSE h
Unloaded(r) ==
    [r EXCEPT !.engine = None, !.installed = Stale(@), !.built = Stale(@), !.walk = Stale(@)]

Goto(t, pc) == thr' = [thr EXCEPT ![t].pc = pc]

Probeable == {"llama_load_failed", "llama_load_oom", "llama_engine_load_failed", "llama_engine_oom"}

Withdrawn(m, reason) ==
    IF away[m] # "no" THEN away
    ELSE [away EXCEPT ![m] =
            IF reason \in Probeable /\ healed[m] < MaxRecoveries THEN "waiting" ELSE "never"]

\* ensure_loaded, with the slot and the native lock.
LoadResults(c, m) ==
    IF Hosts(c, m) THEN {"ok"}
    ELSE {"ok"} \cup (IF failures < rig.failures THEN EngineFaults \cap {"load", "library"} ELSE {})

CanLoad(c, m) == slot[c] = None /\ (Hosts(c, m) \/ native = None)

Loaded(c, m, res) ==
    IF Hosts(c, m) THEN card[c]
    ELSE [Unloaded(card[c]) EXCEPT !.engine =
            IF res = "ok" THEN [model |-> m, full |-> TRUE] ELSE None]

EnsureLoaded(c, m, res) ==
    /\ CanLoad(c, m)
    /\ unusable' = IF Hosts(c, m) THEN unusable
                   ELSE res = "library" \/ (res # "ok" /\ unusable)
    /\ failures' = IF res = "ok" THEN failures ELSE failures + 1

-----------------------------------------------------------------------------
\* uninstall, under the card's lifecycle lock: refuse while an earlier walk
\* drains, remove the miner, wait for the last handle.

\* Mutant: the quarantine is never lifted.
StillDrainingForEver(c) == card[c].draining

\* still_draining: the quarantined miner is let go once its walk has ended.
StillDraining(c) == card[c].draining /\ Walking(c)

\* The lock is taken and the miner removed; who must wait for a walk waits at wait.
Removed(c) ==
    [card EXCEPT ![c].draining = StillDraining(c),
                 ![c].installed = IF StillDraining(c) THEN @ ELSE None]
\* Mutant: the miner stays in the map.
UninstallNothing(t, c, wait, drained) ==
    life[c] = None /\ life' = [life EXCEPT ![c] = t] /\ Goto(t, drained) /\ UNCHANGED card

Uninstall(t, c, wait, drained) ==
    /\ life[c] = None /\ ~StillDraining(c)
    /\ life' = [life EXCEPT ![c] = t]
    /\ card' = Removed(c)
    /\ Goto(t, IF card[c].installed # None THEN wait ELSE drained)

\* Mutant: the last handle is not waited for.
SoleOwnerOrNot(t, c, drained) == Goto(t, drained) /\ UNCHANGED <<card, life>>

\* wait_for_sole_owner: the walk lets go.  (Or 30 s pass: each caller's Quarantine.)
SoleOwner(t, c, drained) == ~Walking(c) /\ Goto(t, drained) /\ UNCHANGED <<card, life>>
Quarantined(c) == rig.stuck /\ Walking(c) /\ card' = [card EXCEPT ![c].draining = TRUE]

Release(c) == life' = [life EXCEPT ![c] = None]

-----------------------------------------------------------------------------
\* advance_mining_tier_if_due: every worker looks at every card, and moves it to
\* the model its hardware tier mines in the era of the worker's template.

Due(c, e) == card[c].tier # Lineup[e][c] /\ ~Paused(c)

\* On to the next card, or back to the loop with the lineup refreshed.
NextCard(w, swaps) ==
    thr' = [thr EXCEPT ![w] = [@ EXCEPT !.pc = "advance", !.dev = 0, !.swaps = swaps]]

\* The worker's loop starts over, or goes on to the next card.
Looping(w) == (thr[w].pc = "top" /\ ~Paused(w)) \/ thr[w].pc = "advance"

Advance(w) ==
    /\ Looping(w)
    /\ LET left == IF thr[w].pc = "top" THEN rig.cards ELSE thr[w].left IN
       \E c \in left :
         /\ Due(c, job[w])
         /\ thr' = [thr EXCEPT ![w] = [@ EXCEPT !.left = left \ {c}, !.dev = c, !.pc = "cross"]]
    /\ UNCHANGED <<rig, card, lockVars, job, index, banned, modelVars, failures>>

\* Under the lifecycle lock, checked again; the old walk is drained first.
Cross(w) ==
    LET c == thr[w].dev IN
    /\ thr[w].pc = "cross"
    /\ \/ Due(c, job[w]) /\ Uninstall(w, c, "cross_wait", "crossed")
       \/ /\ life[c] = None /\ (Due(c, job[w]) => StillDraining(c))
          /\ NextCard(w, thr[w].swaps) /\ UNCHANGED <<card, life>>
    /\ UNCHANGED <<rig, slot, swap, native, job, index, banned, modelVars, failures>>

CrossWait(w) ==
    LET c == thr[w].dev IN
    /\ thr[w].pc = "cross_wait"
    /\ \/ SoleOwner(w, c, "crossed")
       \/ Quarantined(c) /\ Release(c) /\ NextCard(w, thr[w].swaps)
    /\ UNCHANGED <<rig, slot, swap, native, job, index, banned, modelVars, failures>>

\* The card is drained: it gets its model, the old one's index goes, and an
\* engine that hosts another model is unloaded.
Crossed(w) ==
    LET c == thr[w].dev
        m == Lineup[job[w]][c]
    IN  /\ thr[w].pc = "crossed"
        /\ slot[c] = None /\ (Hosts(c, m) \/ card[c].engine = None \/ native = None)
        /\ card' = [card EXCEPT ![c] = [IF Hosts(c, m) THEN @ ELSE Unloaded(@) EXCEPT !.tier = m]]
        /\ index' = index \ {card[c].tier}
        /\ Release(c) /\ NextCard(w, TRUE)
        /\ UNCHANGED <<rig, slot, swap, native, job, banned, modelVars, failures>>

-----------------------------------------------------------------------------
\* ensure_installed and the launch, on the worker's own card, once no card is due.

Proceed(w, pc) ==
    /\ Looping(w)
    /\ \A c \in (IF thr[w].pc = "top" THEN rig.cards ELSE thr[w].left) : ~Due(c, job[w])
    /\ thr' = [thr EXCEPT ![w] = [Resting EXCEPT !.pc = pc]]
    /\ served' = IF thr[w].swaps THEN {Lineup[job[w]][c] : c \in rig.cards} ELSE served

\* The card is paused by now, its model is withdrawn, or it has no pad: sleep.
Padless(w) == job[w] >= PadEra /\ (card[w].tier \notin index \/ TierIndex[job[w]][card[w].tier] = 0)
Idle(w) ==
    /\ \/ Paused(w)
       \/ away[card[w].tier] # "no" /\ card[w].installed = None
       \/ away[card[w].tier] = "no" /\ card[w].installed # None /\ Padless(w)
    /\ thr[w].pc = "advance" /\ Proceed(w, "top")
    /\ UNCHANGED <<rig, card, lockVars, job, index, banned, away, healed, unusable, failures>>

\* park: a card whose model is withdrawn stops walking it.  The worker that parks
\* the card is the one that walks it, so the last handle is not waited for.
ToPark(w) ==
    /\ ~Paused(w) /\ away[card[w].tier] # "no" /\ card[w].installed # None
    /\ Proceed(w, "park")
    /\ UNCHANGED <<rig, card, lockVars, job, index, banned, away, healed, unusable, failures>>

Park(w) ==
    /\ thr[w].pc = "park"
    /\ life[w] = None
    /\ card' = Removed(w)
    /\ Goto(w, "top")
    /\ UNCHANGED <<rig, lockVars, job, index, banned, modelVars, failures>>

ToRebuild(w) ==
    /\ ~Paused(w) /\ away[card[w].tier] = "no" /\ card[w].installed = None
    /\ Proceed(w, "rebuild")
    /\ UNCHANGED <<rig, card, lockVars, job, index, banned, away, healed, unusable, failures>>

\* mine: the handle is cloned under the map's lock and used outside it.  Without
\* the index there is no pad, and no launch.
Mine(w) ==
    /\ ~Paused(w) /\ away[card[w].tier] = "no" /\ card[w].installed # None /\ ~Padless(w)
    /\ Proceed(w, IF job[w] >= PadEra THEN "shrink" ELSE "walk")
    /\ card' = [card EXCEPT ![w].walk = card[w].installed]
    /\ UNCHANGED <<rig, lockVars, job, index, banned, away, healed, unusable, failures>>

\* use_task_context
Shrink(w) ==
    /\ thr[w].pc = "shrink"
    /\ slot[w] = None
    /\ IF card[w].engine # None /\ card[w].engine.full
       THEN native = None /\ card' = [card EXCEPT ![w].engine.full = FALSE]
       ELSE UNCHANGED card
    /\ Goto(w, "walk")
    /\ UNCHANGED <<rig, lockVars, job, index, banned, modelVars, failures>>

\* The launch ends and its handle is dropped.
Walk(w) ==
    /\ thr[w].pc = "walk"
    /\ card' = [card EXCEPT ![w].walk = None]
    /\ Goto(w, "top")
    /\ UNCHANGED <<rig, lockVars, job, index, banned, modelVars, failures>>

NewTemplate(w) ==
    /\ thr[w].pc = "top"
    /\ job[w] < Len(Lineup)
    /\ job' = [job EXCEPT ![w] = @ + 1]
    /\ UNCHANGED <<rig, card, lockVars, thr, index, banned, modelVars, failures>>

-----------------------------------------------------------------------------
\* ensure_installed_inner.

\* Its checks, under the lifecycle lock, and the model's index.
Barred(w) ==
    LET m == card[w].tier
    IN  Paused(w) \/ StillDraining(w) \/ TierIndex[job[w]][m] = 0 \/ <<w, m>> \in banned

Rebuild(w) ==
    LET m == card[w].tier IN
    /\ thr[w].pc = "rebuild"
    /\ life[w] = None
    /\ card' = [card EXCEPT ![w].draining = IF Paused(w) THEN @ ELSE StillDraining(w)]
    /\ \/ /\ Barred(w)
          /\ Goto(w, "top") /\ UNCHANGED <<life, index, failures>>
       \/ /\ ~Barred(w)
          /\ life' = [life EXCEPT ![w] = w]
          /\ Goto(w, "engine") /\ index' = index \cup {m} /\ UNCHANGED failures
       \/ /\ ~Barred(w) /\ m \notin index
          /\ "index" \in MinerFaults /\ failures < rig.failures
          /\ failures' = failures + 1
          /\ Goto(w, "top") /\ UNCHANGED <<life, index>>
    /\ UNCHANGED <<rig, slot, swap, native, job, banned, modelVars>>

\* The engine comes up on the card that serves the model, or the model is withdrawn
\* and the walk copies the weights.
Built(w, over) == [model |-> card[w].tier, over |-> over]

HostEngine(w) ==
    LET m == card[w].tier IN
    /\ thr[w].pc = "engine"
    /\ Goto(w, "build")
    /\ \/ /\ DeviceFor(m) # w
          /\ card' = [card EXCEPT ![w].built = Built(w, "raw")]
          /\ UNCHANGED <<rig, away, unusable, failures>>
       \/ /\ DeviceFor(m) = w
          /\ \E res \in LoadResults(w, m) :
               /\ EnsureLoaded(w, m, res)
               /\ card' = [card EXCEPT ![w] = [Loaded(w, m, res) EXCEPT
                             !.built = Built(w, IF res = "ok" THEN "engine" ELSE "raw")]]
               /\ away' = IF res = "ok" THEN [away EXCEPT ![m] = "no"]
                          ELSE Withdrawn(m, "llama_engine_load_failed")
    /\ UNCHANGED <<rig, lockVars, job, index, banned, served, healed>>

\* The ownership and the layout gates unload an engine the walk cannot gather over.
Gate(w) ==
    LET m == card[w].tier IN
    /\ thr[w].pc = "build" /\ card[w].built.over = "engine"
    /\ "gates" \in MinerFaults /\ failures < rig.failures
    /\ slot[w] = None /\ native = None
    /\ card' = [card EXCEPT ![w] = [Unloaded(@) EXCEPT !.built = Built(w, "raw")]]
    /\ away' = Withdrawn(m, "llama_wrong_device")
    /\ failures' = failures + 1
    /\ UNCHANGED <<rig, lockVars, thr, job, index, banned, served, healed, unusable>>

\* The largest downloaded model below the one that did not fit, and not banned here.
Smaller(c, m, e) ==
    {n \in served : /\ TierIndex[e][n] # 0 /\ TierIndex[e][n] < TierIndex[e][m]
                    /\ <<c, n>> \notin banned}
Downgraded(c, m, e) ==
    IF TierIndex[e][m] = 0 \/ Smaller(c, m, e) = {} THEN m
    ELSE CHOOSE n \in Smaller(c, m, e) :
           \A o \in Smaller(c, m, e) : TierIndex[e][o] <= TierIndex[e][n]

\* The gather or the upload, the N-guard, and install.
Build(w) ==
    LET m == card[w].tier IN
    /\ thr[w].pc = "build"
    /\ Goto(w, "top") /\ Release(w)
    /\ \/ /\ card' = [card EXCEPT ![w] = [@ EXCEPT !.installed = card[w].built, !.built = None]]
          /\ UNCHANGED <<rig, banned, failures>>
       \/ /\ "other" \in MinerFaults /\ failures < rig.failures
          /\ failures' = failures + 1
          /\ card' = [card EXCEPT ![w].built = None]
          /\ UNCHANGED banned
       \/ /\ "oom" \in MinerFaults /\ failures < rig.failures
          /\ failures' = failures + 1
          /\ banned' = banned \cup {<<w, m>>}
          /\ card' = [card EXCEPT ![w] = [@ EXCEPT !.built = None, !.tier = Downgraded(w, m, job[w])]]
    /\ UNCHANGED <<rig, slot, swap, native, job, index, modelVars>>

-----------------------------------------------------------------------------
\* run_inference and the openings, on the card that mines the model.

Probing == thr[Prober].pc # "top"
Serving == \E t \in Server \cup {Prober} : thr[t].pc # "top"

Pause(t, c, changes) ==
    /\ card' = [card EXCEPT ![c].pauses = @ + 1]
    /\ thr' = [thr EXCEPT ![t] = [changes EXCEPT !.held[c] = @ + 1]]

\* The thread is done: its guards drop, and a card stays paused until the last
\* guard of all goes.
ResumedBy(t, cs) == [c \in Card |-> [cs[c] EXCEPT !.pauses = @ - thr[t].held[c]]]

\* Mutant: a probe that failed is not scheduled again.
ScheduledAtOnce(a, m) == a

\* schedule_next_probe
Scheduled(a, m) == IF a[m] = "due" THEN [a EXCEPT ![m] = "waiting"] ELSE a

\* A probe that did not serve is scheduled again.
Return(t, cs, a) ==
    /\ card' = ResumedBy(t, cs)
    /\ away' = IF t = Prober THEN Scheduled(a, thr[t].model) ELSE a
    /\ thr' = [thr EXCEPT ![t] = Resting]

Serve(s) ==
    /\ thr[s].pc = "top"
    /\ \E m \in served, kind \in rig.serves :
         /\ kind = "request" => away[m] = "no"
         /\ Pause(s, DeviceFor(m), [thr[s] EXCEPT !.pc = "resident", !.kind = kind, !.model = m])
    /\ UNCHANGED <<rig, lockVars, job, index, banned, modelVars, failures>>

\* The backoff of a withdrawn model runs out.  It is longer than the tick of the
\* probe task: what is due on a quiet rig is probed before the next one is due.
ProbeDue(m) ==
    /\ away[m] = "waiting"
    /\ Serving \/ \A n \in Model : away[n] # "due"
    /\ away' = [away EXCEPT ![m] = "due"]
    /\ UNCHANGED <<rig, card, lockVars, thr, job, index, banned, served, healed, unusable, failures>>

\* withdrawn_model_due_for_probe and probe_withdrawn_model.
Probe(m) ==
    /\ away[m] = "due" /\ ~Serving
    /\ IF m \in served
       THEN /\ Pause(Prober, DeviceFor(m),
                     [thr[Prober] EXCEPT !.pc = "resident", !.kind = "probe", !.model = m])
            /\ UNCHANGED away
       ELSE away' = Scheduled(away, m) /\ UNCHANGED <<card, thr>>
    /\ UNCHANGED <<rig, lockVars, job, index, banned, served, healed, unusable, failures>>

\* resident_engine looks the card up again; a library that cannot come up evicts nobody.
Resident(t) ==
    LET m == thr[t].model
        c == DeviceFor(m)
    IN  /\ thr[t].pc = "resident"
        /\ slot[c] = None
        /\ \/ /\ Hosts(c, m)
              /\ thr' = [thr EXCEPT ![t] = [@ EXCEPT !.pc = "generate", !.dev = c]]
              /\ UNCHANGED <<card, away>>
           \/ /\ ~Hosts(c, m) /\ unusable
              /\ Return(t, card, Withdrawn(m, "llama_library_unusable"))
           \/ /\ ~Hosts(c, m) /\ ~unusable
              /\ Pause(t, c, [thr[t] EXCEPT !.pc = "swap", !.dev = c])
              /\ UNCHANGED away
        /\ UNCHANGED <<rig, lockVars, job, index, banned, served, healed, unusable, failures>>

\* load_llama_for_inference: the swap lock, the lifecycle lock, the drain, the load.
Swap(t) ==
    /\ thr[t].pc = "swap"
    /\ swap = None
    /\ swap' = t
    /\ Goto(t, "evict")
    /\ UNCHANGED <<rig, card, life, slot, native, job, index, banned, modelVars, failures>>

\* LoadError::walk_still_running: nothing is freed, and the model is withdrawn.
Refused(t) == swap' = None /\ Return(t, card, Withdrawn(thr[t].model, "llama_load_failed"))

Evict(t) ==
    LET c == thr[t].dev IN
    /\ thr[t].pc = "evict"
    /\ \/ Uninstall(t, c, "evict_wait", "load") /\ UNCHANGED <<swap, away>>
       \/ life[c] = None /\ StillDraining(c) /\ Refused(t) /\ UNCHANGED life
    /\ UNCHANGED <<rig, slot, native, job, index, banned, served, healed, unusable, failures>>

EvictWait(t) ==
    LET c == thr[t].dev IN
    /\ thr[t].pc = "evict_wait"
    /\ \/ SoleOwner(t, c, "load") /\ UNCHANGED <<swap, away>>
       \/ /\ rig.stuck /\ Walking(c) /\ Release(c) /\ swap' = None
          /\ Return(t, [card EXCEPT ![c].draining = TRUE], Withdrawn(thr[t].model, "llama_load_failed"))
    /\ UNCHANGED <<rig, slot, native, job, index, banned, served, healed, unusable, failures>>

\* The load's own guard goes with its locks.
Load(t) ==
    LET m == thr[t].model
        c == thr[t].dev
    IN  /\ thr[t].pc = "load"
        /\ \E res \in LoadResults(c, m) :
             LET cs == [card EXCEPT ![c] = Loaded(c, m, res)] IN
             /\ EnsureLoaded(c, m, res)
             /\ \/ /\ res = "ok"
                   /\ card' = [cs EXCEPT ![c].pauses = @ - 1]
                   /\ thr' = [thr EXCEPT ![t].pc = "generate", ![t].held[c] = @ - 1]
                   /\ UNCHANGED away
                \/ res # "ok" /\ Return(t, cs, Withdrawn(m, "llama_load_failed"))
        /\ Release(c) /\ swap' = None
        /\ UNCHANGED <<rig, slot, native, job, index, banned, served, healed>>

\* generate and replay hold the slot for the whole call.
Generate(t) ==
    LET c == thr[t].dev IN
    /\ thr[t].pc = "generate"
    /\ slot[c] = None
    /\ \/ /\ Hosts(c, thr[t].model)
          /\ slot' = [slot EXCEPT ![c] = t] /\ Goto(t, "context")
          /\ UNCHANGED <<card, away>>
       \/ ~Hosts(c, thr[t].model) /\ UNCHANGED slot /\ Return(t, card, away)
    /\ UNCHANGED <<rig, life, swap, native, job, index, banned, served, healed, unusable, failures>>

\* Mutant: the launch takes the pad before it shrinks the context.
PadHeldEarly(c) == card[c].installed # None /\ thr[c].pc \in {"shrink", "walk"} /\ job[c] >= PadEra

\* release_pad waits for the launch that holds the pad.
PadHeld(c) == card[c].installed # None /\ thr[c].pc = "walk" /\ job[c] >= PadEra

\* ensure_full_context, with the slot held: generate and every step of an opening
\* (trace_configure, seq_configure, seq_replay, replay, replay_multi) begin with it.
FullContext(t) ==
    LET c == thr[t].dev IN
    /\ thr[t].pc = "context"
    /\ native = None
    /\ \/ /\ card[c].engine.full \/ ~PadHeld(c)
          /\ card' = [card EXCEPT ![c].engine.full = TRUE]
          /\ native' = t /\ Goto(t, "run")
          /\ UNCHANGED <<rig, slot, away, failures>>
       \/ /\ ~card[c].engine.full /\ ~PadHeld(c)
          /\ "context" \in EngineFaults /\ failures < rig.failures
          /\ failures' = failures + 1
          /\ slot' = [slot EXCEPT ![c] = None] /\ Return(t, card, away)
          /\ UNCHANGED native
    /\ UNCHANGED <<rig, life, swap, job, index, banned, served, healed, unusable>>

\* A text or a prompt that is too long shows that the model serves; while a probe
\* is in flight it counts as the probe's.
Run(t) ==
    LET m == thr[t].model
        c == thr[t].dev
    IN  /\ thr[t].pc = "run"
        /\ slot' = [slot EXCEPT ![c] = None]
        /\ native' = None
        /\ \/ /\ thr[t].kind # "opening"
              /\ healed' = [healed EXCEPT ![m] = IF Probing THEN Min({@ + 1, MaxRecoveries}) ELSE 0]
              /\ Return(t, card, [away EXCEPT ![m] = "no"])
              /\ UNCHANGED failures
           \/ /\ thr[t].kind # "opening"
              /\ "generate" \in EngineFaults /\ failures < rig.failures
              /\ failures' = failures + 1
              /\ Return(t, card, away) /\ UNCHANGED healed
           \/ /\ thr[t].kind = "opening"
              /\ Return(t, card, away) /\ UNCHANGED <<healed, failures>>
        /\ UNCHANGED <<rig, life, swap, job, index, banned, served, unusable>>

-----------------------------------------------------------------------------
WorkerStep(w) ==
    \/ Advance(w) \/ Cross(w) \/ CrossWait(w) \/ Crossed(w)
    \/ Idle(w) \/ ToPark(w) \/ Park(w) \/ ToRebuild(w)
    \/ Rebuild(w) \/ HostEngine(w) \/ Gate(w) \/ Build(w)
    \/ Mine(w) \/ Shrink(w) \/ Walk(w)

ServeStep(t) ==
    \/ Resident(t) \/ Swap(t) \/ Evict(t) \/ EvictWait(t) \/ Load(t)
    \/ Generate(t) \/ FullContext(t) \/ Run(t)

Next ==
    \/ \E w \in rig.cards : WorkerStep(w) \/ NewTemplate(w)
    \/ \E s \in Server : Serve(s)
    \/ \E t \in Server \cup {Prober} : ServeStep(t)
    \/ \E m \in Model : ProbeDue(m) \/ Probe(m)

Spec == Init /\ [][Next]_vars

-----------------------------------------------------------------------------
\* Properties.

\* No launch, no installed miner and no miner under construction gathers over
\* weights an engine has freed: uninstall's barrier, its quarantine and the
\* lifecycle lock together keep every free behind the last handle.
NoWalkOverFreedWeights ==
    \A c \in Card : \A h \in {card[c].installed, card[c].built, card[c].walk} :
        h # None => h.over # "freed"

\* A card walks the model it is assigned: the proof of a found nonce is built
\* over the index of mining_model_id, read while other workers may move the card.
WalksItsModel ==
    \A c \in Card : \A h \in {card[c].installed, card[c].built, card[c].walk} :
        h # None => h.model = card[c].tier

\* A card walks weights that are loaded and are those of its model.
WalksLiveWeights == NoWalkOverFreedWeights /\ WalksItsModel

\* "so a card whose VRAM estimate was optimistic ... mines a smaller tier instead of
\* idling": a card is not moved to a model that did not fit it.
DowngradeLasts ==
    [][\A c \in Card : card'[c].tier # card[c].tier => <<c, card'[c].tier>> \notin banned]_vars

\* Threads run, and a lock that keeps coming free is given to who waits for it.
LockStep(w) == Cross(w) \/ Crossed(w) \/ Park(w) \/ Rebuild(w) \/ HostEngine(w) \/ Shrink(w)

FairSpec ==
    /\ Spec
    /\ \A w \in Card : /\ WF_vars(w \in rig.cards /\ (WorkerStep(w) \/ NewTemplate(w)))
                       /\ SF_vars(LockStep(w))
    /\ \A t \in Server \cup {Prober} : SF_vars(ServeStep(t))
    /\ \A m \in Model : WF_vars(ProbeDue(m)) /\ WF_vars(Probe(m))

\* Everything that is served ends, whoever holds the locks: no cycle of waits runs
\* through the swap lock, the lifecycle locks, the slots, the native library, the
\* pad and the barrier.
ServingEnds ==
    \A t \in Server \cup {Prober} : thr[t].pc = "resident" ~> thr[t].pc = "top"

\* A model withdrawn for a reason that may pass is probed once the rig is quiet.
WithdrawnIsProbed ==
    \A m \in Model :
        <>[](\A s \in Server : thr[s].pc = "top") => [](away[m] = "due" ~> away[m] # "due")

\* Once the pauses end, a card whose model is served and fits mines again, in
\* the model of the era.
MiningResumes ==
    \A c \in Card :
        \/ c \notin rig.cards
        \/ []<>(card[c].walk # None /\ card[c].walk.model = Lineup[Len(Lineup)][c])
        \/ []<>Paused(c)
        \/ []<>(away[card[c].tier] # "no")
        \/ []<>(<<c, card[c].tier>> \in banned)
        \/ []<>(\E w \in rig.cards : job[w] # Len(Lineup))

=============================================================================
