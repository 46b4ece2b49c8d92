-------------------------- MODULE GpuCardsProofs --------------------------
(***************************************************************************)
(* Proofs about GpuCards, for any cards, models, servers, eras and rigs: a *)
(* card walks weights that are loaded and are those of its model.          *)
(***************************************************************************)
EXTENDS GpuCards, WellFoundedInduction, TLAPS

\* What is known of each variable the property depends on.
EngineRec == [model : Model \cup {None}, full : BOOLEAN]

CardRec ==
    [tier : Model, installed : Miner \cup {None}, built : Miner \cup {None}, walk : Miner \cup {None},
     draining : BOOLEAN, engine : EngineRec \cup {None}, pauses : Int]

Places ==
    {"top", "advance", "cross", "cross_wait", "crossed", "park", "rebuild", "engine", "build", "shrink", "walk",
     "resident", "swap", "evict", "evict_wait", "load", "generate", "context", "run"}

ThrRec ==
    [pc : Places, kind : {"none", "request", "probe", "opening"}, model : Model \cup {None}, dev : Card,
     held : [Card -> Int], left : SUBSET Card, swaps : BOOLEAN]

Cards   == card \in [Card -> CardRec]
Threads == thr \in [Thread -> ThrRec]

Types ==
    /\ rig \in Rigs
    /\ Cards /\ Threads
    /\ life \in [Card -> Thread \cup {None}]
    /\ slot \in [Card -> Thread \cup {None}]
    /\ job \in [Card -> Era]
    /\ served \subseteq Model

\* Who empties a card, who of them still waits for its walk, and who holds it.
Waits(t, c)  == thr[t].pc \in {"cross_wait", "evict_wait"} /\ thr[t].dev = c
Clears(t, c) == thr[t].pc \in {"cross_wait", "crossed", "evict_wait", "load"} /\ thr[t].dev = c
Holds(t, c)  == Clears(t, c) \/ (t = c /\ thr[t].pc \in {"engine", "build"})

\* Who empties a card or builds on it has its lifecycle lock.
LocksHeld == \A t \in Thread, c \in Card : Holds(t, c) => life[c] = t

\* It has removed the miner and, once past the barrier, there is no handle.
ClearedFirst ==
    \A t \in Thread, c \in Card : Clears(t, c) =>
        card[c].installed = None /\ (Waits(t, c) \/ card[c].walk = None)

\* What the place of a card's worker says of its card.
Phases ==
    \A c \in Card :
        /\ card[c].walk # None => thr[c].pc \in {"shrink", "walk"}
        /\ card[c].built # None => thr[c].pc = "build"
        /\ thr[c].pc \in {"rebuild", "engine", "build"} => card[c].installed = None

\* A walk whose miner was removed is waited for or quarantined.
WalkersKnown ==
    \A c \in Card : card[c].installed = None /\ card[c].walk # None =>
        card[c].draining \/ \E t \in Thread : Waits(t, c)

\* WalksLiveWeights, of one card.
Live(r) ==
    \A h \in {r.installed, r.built, r.walk} : h # None => h.over # "freed" /\ h.model = r.tier

\* Who is about to use an engine has its slot.
SlotsHeld ==
    \A t \in Thread :
        /\ thr[t].pc \in {"context", "run"} => slot[thr[t].dev] = t
        /\ thr[t].pc = "context" => card[thr[t].dev].engine \in EngineRec

MinerInv == LocksHeld /\ ClearedFirst /\ Phases /\ WalkersKnown /\ \A c \in Card : Live(card[c])

\* The inductive invariant.
CardsInv == Types /\ MinerInv /\ SlotsHeld

-----------------------------------------------------------------------------
\* Facts about the operators of the model.

\* A set of numbers has a least one.
LEMMA LeastIs ==
    ASSUME NEW S \in SUBSET Nat, S # {} PROVE \E x \in S : \A y \in S : x <= y
<1>1. PICK x \in S : \A y \in S : ~(<<y, x>> \in OpToRel(<, Nat))
  BY NatLessThanWellFounded, WFMin, Zenon
<1>2. \A y \in S : ~(y < x)
  BY <1>1 DEF OpToRel
<1>3. x \in Nat /\ \A y \in S : y \in Nat
  OBVIOUS
<1> QED BY <1>2, <1>3

\* What the assumptions say of a rig and the lineup.
LEMMA RigIs ==
    ASSUME Types
    PROVE  /\ rig.cards \subseteq Card /\ Card \subseteq Nat /\ 0 \in Card /\ Card \subseteq Thread
           /\ None \notin Thread
           /\ \A e \in Era, c \in Card : Lineup[e][c] \in Model
<1>1. rig \in Rig
  BY CardsAssumption DEF Types
<1>2. rig.cards \subseteq Card
  BY <1>1 DEF Rig
<1>3. \A e \in Era, c \in Card : Lineup[e][c] \in Model
  BY CardsAssumption DEF Era
<1> QED BY <1>2, <1>3, CardsAssumption DEF Thread

\* DeviceFor names a card.
LEMMA DeviceIs == ASSUME Types, NEW m PROVE DeviceFor(m) \in Card
<1> DEFINE mining == {c \in rig.cards : card[c].tier = m}
<1>1. mining \in SUBSET Nat /\ mining \subseteq Card /\ 0 \in Card
  BY RigIs
<1>2. CASE mining = {}
  BY <1>1, <1>2 DEF DeviceFor
<1>3. CASE mining # {}
  <2>1. DeviceFor(m) = Min(mining)
    BY <1>3 DEF DeviceFor
  <2> HIDE DEF mining
  <2>2. Min(mining) \in mining
    BY <1>1, <1>3, LeastIs DEF Min
  <2> QED BY <1>1, <2>1, <2>2
<1> QED BY <1>2, <1>3

\* A card that is moved to a smaller model is moved to a model.
LEMMA DowngradedIs ==
    ASSUME Types, NEW c \in Card, NEW m \in Model, NEW e \in Era PROVE Downgraded(c, m, e) \in Model
<1> DEFINE S == Smaller(c, m, e)
           X == {TierIndex[e][m] - TierIndex[e][n] : n \in S}
<1>1. \A n \in Model : TierIndex[e][n] \in Nat
  BY CardsAssumption
<1>2. \A n \in S : n \in Model /\ TierIndex[e][n] < TierIndex[e][m]
  BY DEF Smaller, Types
<1> HIDE DEF S
<1>3. CASE S = {}
  BY <1>3 DEF Downgraded, S
<1>4. CASE S # {}
  <2>1. X \in SUBSET Nat /\ X # {}
    BY <1>1, <1>2, <1>4
  <2>2. PICK x \in X : \A y \in X : x <= y
    BY <2>1, LeastIs
  <2>3. PICK n \in S : x = TierIndex[e][m] - TierIndex[e][n]
    BY <2>2
  <2>4. \A o \in S : TierIndex[e][o] <= TierIndex[e][n]
    <3> SUFFICES ASSUME NEW o \in S PROVE TierIndex[e][o] <= TierIndex[e][n]
      OBVIOUS
    <3>1. TierIndex[e][m] - TierIndex[e][n] <= TierIndex[e][m] - TierIndex[e][o]
      BY <2>2, <2>3
    <3> QED BY <1>1, <1>2, <3>1
  <2>5. (CHOOSE k \in S : \A o \in S : TierIndex[e][o] <= TierIndex[e][k]) \in S
    BY <2>3, <2>4
  <2> QED BY <1>2, <2>5 DEF Downgraded, S
<1> QED BY <1>3, <1>4

\* One thread moves on, the others stay.
Moves(t, pc, dev) ==
    /\ Threads' /\ thr'[t].pc = pc /\ thr'[t].dev = dev
    /\ \A u \in Thread : u # t => thr'[u] = thr[u]

\* What the property looks at stays as it is, on one card, on all, on all but one.
SameMiners(r, s) ==
    /\ s.tier = r.tier /\ s.installed = r.installed /\ s.built = r.built /\ s.walk = r.walk
    /\ s.draining = r.draining
KeepMiners == Cards' /\ \A d \in Card : SameMiners(card[d], card'[d])
OthersKeep(c) == Cards' /\ \A d \in Card : d # c => SameMiners(card[d], card'[d])

\* One lock is taken or released.
LockGoes(c, t) == life' \in [Card -> Thread \cup {None}] /\ life'[c] = t /\ \A d \in Card : d # c => life'[d] = life[d]

\* A thread that goes to another place keeps its card.
LEMMA GotoIs ==
    ASSUME Types, NEW t \in Thread, NEW pc \in Places, Goto(t, pc)
    PROVE  Moves(t, pc, thr[t].dev)
<1>1. thr \in [Thread -> ThrRec] /\ thr' = [thr EXCEPT ![t].pc = pc]
  BY DEF Types, Threads, Goto
<1>2. thr[t] \in ThrRec
  BY <1>1
<1> DEFINE e == [thr[t] EXCEPT !.pc = pc]
<1>3. e \in ThrRec /\ e.pc = pc /\ e.dev = thr[t].dev
  BY <1>2 DEF ThrRec
<1>4. thr' = [thr EXCEPT ![t] = e]
  BY <1>1
<1> HIDE DEF e
<1>5. thr' \in [Thread -> ThrRec] /\ thr'[t] = e /\ \A u \in Thread : u # t => thr'[u] = thr[u]
  BY <1>1, <1>3, <1>4
<1> QED BY <1>3, <1>5 DEF Moves, Threads

\* A thread's record is replaced.
LEMMA ReplacedIs ==
    ASSUME Types, NEW t \in Thread, NEW e \in ThrRec, thr' = [thr EXCEPT ![t] = e]
    PROVE  Moves(t, e.pc, e.dev)
<1>1. thr' \in [Thread -> ThrRec] /\ thr'[t] = e /\ \A u \in Thread : u # t => thr'[u] = thr[u]
  BY DEF Types, Threads
<1> QED BY <1>1 DEF Moves, Threads

\* A thread at rest has a thread's record.
LEMMA RestingIs == ASSUME Types PROVE Resting \in ThrRec /\ Resting.pc = "top" /\ Resting.dev = 0
BY RigIs DEF Resting, ThrRec, Places

\* The worker is back in its loop.
LEMMA NextCardIs ==
    ASSUME Types, NEW t \in Thread, NEW swaps \in BOOLEAN, NextCard(t, swaps)
    PROVE  Moves(t, "advance", 0)
<1> DEFINE e == [thr[t] EXCEPT !.pc = "advance", !.dev = 0, !.swaps = swaps]
<1>1. thr[t] \in ThrRec /\ 0 \in Card
  BY RigIs DEF Types, Threads
<1>2. e \in ThrRec /\ e.pc = "advance" /\ e.dev = 0
  BY <1>1 DEF ThrRec, Places
<1>3. thr' = [thr EXCEPT ![t] = e]
  BY DEF NextCard
<1> HIDE DEF e
<1> QED BY <1>2, <1>3, ReplacedIs

\* A card's record is replaced.
LEMMA CardIs ==
    ASSUME Types, NEW c \in Card, NEW r \in CardRec, card' = [card EXCEPT ![c] = r]
    PROVE  /\ OthersKeep(c) /\ card'[c] = r
           /\ \A d \in Card : d # c => card'[d] = card[d]
BY DEF Types, Cards, OthersKeep, SameMiners

\* The type of each field of a card.
LEMMA RecordIs ==
    ASSUME Types, NEW c \in Card
    PROVE  /\ card[c] \in CardRec
           /\ card[c].tier \in Model /\ card[c].installed \in Miner \cup {None}
           /\ card[c].built \in Miner \cup {None} /\ card[c].walk \in Miner \cup {None}
           /\ card[c].draining \in BOOLEAN /\ card[c].pauses \in Int
           /\ card[c].engine \in EngineRec \cup {None}
<1>1. card[c] \in CardRec
  BY DEF Types, Cards
<1> QED BY <1>1 DEF CardRec

\* The type of each field of a thread.
LEMMA ThreadIs ==
    ASSUME Types, NEW t \in Thread
    PROVE  /\ thr[t] \in ThrRec /\ thr[t].pc \in Places /\ thr[t].dev \in Card
           /\ thr[t].model \in Model \cup {None} /\ thr[t].held \in [Card -> Int]
           /\ thr[t].left \in SUBSET Card /\ thr[t].swaps \in BOOLEAN
<1>1. thr[t] \in ThrRec
  BY DEF Types, Threads
<1> QED BY <1>1 DEF ThrRec

\* A pause touches no miner and no engine.
LEMMA PauseIs ==
    ASSUME Types, NEW t \in Thread, NEW c \in Card, NEW e \in ThrRec, Pause(t, c, e)
    PROVE  KeepMiners /\ (\A d \in Card : card'[d].engine = card[d].engine) /\ Moves(t, e.pc, e.dev)
<1>1. /\ card' = [card EXCEPT ![c].pauses = @ + 1]
      /\ thr' = [thr EXCEPT ![t] = [e EXCEPT !.held[c] = @ + 1]]
  BY DEF Pause
<1> DEFINE r == [card[c] EXCEPT !.pauses = card[c].pauses + 1]
           f == [e EXCEPT !.held = [e.held EXCEPT ![c] = e.held[c] + 1]]
<1>2. r \in CardRec /\ SameMiners(card[c], r) /\ r.engine = card[c].engine
  BY RecordIs DEF CardRec, SameMiners
<1>3. card' = [card EXCEPT ![c] = r]
  BY <1>1
<1>4. f \in ThrRec /\ f.pc = e.pc /\ f.dev = e.dev
  <2>1. e.held \in [Card -> Int]
    BY DEF ThrRec
  <2> DEFINE g == [e.held EXCEPT ![c] = e.held[c] + 1]
  <2>2. g \in [Card -> Int]
    BY <2>1
  <2> HIDE DEF g
  <2>3. [e EXCEPT !.held = g] \in ThrRec /\ [e EXCEPT !.held = g].pc = e.pc /\ [e EXCEPT !.held = g].dev = e.dev
    BY <2>2 DEF ThrRec
  <2> QED BY <2>3 DEF g
<1>5. thr' = [thr EXCEPT ![t] = f]
  BY <1>1
<1> HIDE DEF r, f
<1>6. Moves(t, f.pc, f.dev)
  BY <1>4, <1>5, ReplacedIs
<1>7. OthersKeep(c) /\ card'[c] = r /\ \A d \in Card : d # c => card'[d] = card[d]
  BY <1>2, <1>3, CardIs
<1> QED BY <1>2, <1>4, <1>6, <1>7 DEF KeepMiners, OthersKeep, SameMiners

\* The thread's guards drop: card' is cs but for the counts.
LEMMA ReturnIs ==
    ASSUME Types, NEW t \in Thread, NEW cs \in [Card -> CardRec], NEW a, Return(t, cs, a)
    PROVE  /\ Cards' /\ \A d \in Card : SameMiners(cs[d], card'[d]) /\ card'[d].engine = cs[d].engine
           /\ Moves(t, "top", 0)
<1>1. card' = [c \in Card |-> [cs[c] EXCEPT !.pauses = @ - thr[t].held[c]]] /\ thr' = [thr EXCEPT ![t] = Resting]
  BY DEF Return, ResumedBy
<1>2. Moves(t, "top", 0)
  BY <1>1, RestingIs, ReplacedIs
<1>3. ASSUME NEW d \in Card
      PROVE  card'[d] \in CardRec /\ SameMiners(cs[d], card'[d]) /\ card'[d].engine = cs[d].engine
  <2>1. cs[d] \in CardRec /\ thr[t].held[d] \in Int
    BY ThreadIs
  <2> DEFINE n == cs[d].pauses - thr[t].held[d]
             r == [cs[d] EXCEPT !.pauses = n]
  <2>2. n \in Int
    BY <2>1 DEF CardRec
  <2> HIDE DEF n
  <2>3. r \in CardRec /\ SameMiners(cs[d], r) /\ r.engine = cs[d].engine
    BY <2>1, <2>2 DEF CardRec, SameMiners
  <2>4. card'[d] = r
    BY <1>1 DEF n
  <2> HIDE DEF r
  <2> QED BY <2>3, <2>4
<1>4. DOMAIN card' = Card /\ card' = [d \in Card |-> card'[d]]
  BY <1>1
<1>5. Cards'
  BY <1>3, <1>4 DEF Cards
<1> QED BY <1>2, <1>3, <1>5

-----------------------------------------------------------------------------
\* Steps, by what they do to the locks and to the miners of a card.

Locking == {"cross_wait", "crossed", "evict_wait", "load", "engine", "build"}

\* Who is not at one of these places holds no card.
LEMMA NoHold == ASSUME NEW t, NEW c, thr[t].pc \notin Locking PROVE ~Holds(t, c) /\ ~Clears(t, c) /\ ~Waits(t, c)
BY DEF Holds, Clears, Waits, Locking

\* Of one who stays nothing changes; who waits, clears; who clears, holds.
LEMMA StayIs ==
    ASSUME NEW u, NEW c, thr'[u] = thr[u]
    PROVE  Holds(u, c)' = Holds(u, c) /\ Clears(u, c)' = Clears(u, c) /\ Waits(u, c)' = Waits(u, c)
BY DEF Holds, Clears, Waits

\* No lock and no miner changes hands: what the moving thread t may do is to go to
\* a place where it holds nothing.
Idles(t, pc) ==
    /\ thr[t].pc \notin Locking /\ pc \notin Locking
    /\ t \in Card => /\ (card[t].walk # None => pc \in {"shrink", "walk"})
                     /\ (pc = "rebuild" => card[t].installed = None)

\* Such a step keeps the invariant of the miners.
LEMMA QuietStep ==
    ASSUME Types, MinerInv, NEW t \in Thread, NEW pc, NEW dev,
           Moves(t, pc, dev), KeepMiners, life' = life, Idles(t, pc)
    PROVE  MinerInv'
<1>1. \A u \in Thread : u # t => thr'[u] = thr[u]
  BY DEF Moves
<1>2. thr'[t].pc = pc /\ thr[t].pc \notin Locking /\ pc \notin Locking
  BY DEF Moves, Idles
<1>3. \A c \in Card : SameMiners(card[c], card'[c])
  BY DEF KeepMiners
<1>4. \A c \in Card : ~Holds(t, c) /\ ~Clears(t, c) /\ ~Waits(t, c) /\ ~Holds(t, c)' /\ ~Clears(t, c)' /\ ~Waits(t, c)'
  BY <1>2 DEF Holds, Clears, Waits, Locking
<1>5. \A u \in Thread, c \in Card :
         (Holds(u, c)' => Holds(u, c)) /\ (Clears(u, c)' => Clears(u, c)) /\ (Waits(u, c)' <=> Waits(u, c))
  BY <1>1, <1>4, StayIs
<1>6. LocksHeld'
  BY <1>5 DEF MinerInv, LocksHeld
<1>7. ClearedFirst'
  BY <1>3, <1>5 DEF MinerInv, ClearedFirst, SameMiners
<1>8. Phases'
  <2> SUFFICES ASSUME NEW c \in Card
               PROVE  /\ card'[c].walk # None => thr'[c].pc \in {"shrink", "walk"}
                      /\ card'[c].built # None => thr'[c].pc = "build"
                      /\ thr'[c].pc \in {"rebuild", "engine", "build"} => card'[c].installed = None
    BY DEF Phases
  <2>1. /\ card[c].walk # None => thr[c].pc \in {"shrink", "walk"}
        /\ card[c].built # None => thr[c].pc = "build"
        /\ thr[c].pc \in {"rebuild", "engine", "build"} => card[c].installed = None
    BY DEF MinerInv, Phases
  <2>2. c \in Thread
    BY RigIs
  <2>3. SameMiners(card[c], card'[c])
    BY <1>3
  <2>4. CASE c # t
    BY <1>1, <2>1, <2>2, <2>3, <2>4 DEF SameMiners
  <2>5. CASE c = t
    BY <1>2, <2>1, <2>3, <2>5 DEF SameMiners, Idles, Locking
  <2> QED BY <2>4, <2>5
<1>9. WalkersKnown'
  BY <1>3, <1>5 DEF MinerInv, WalkersKnown, SameMiners
<1>10. \A c \in Card : Live(card'[c])
  BY <1>3 DEF MinerInv, Live, SameMiners
<1> QED BY <1>6, <1>7, <1>8, <1>9, <1>10 DEF MinerInv

\* A worker does something to its own card, without its lock.
OwnStep(w, pc, r) ==
    /\ thr[w].pc \notin Locking /\ pc \notin Locking \cup {"rebuild"}
    /\ Live(r) /\ r.built = None
    /\ r.walk # None => (pc \in {"shrink", "walk"} /\ r.installed # None)
    /\ card[w].installed = None =>
          r.installed = None /\ (card[w].walk = None => r.walk = None)

\* Nobody else is concerned: who holds the card at that time found no miner on it.
LEMMA OwnCardStep ==
    ASSUME Types, MinerInv, NEW w \in Card, NEW pc, NEW dev,
           Moves(w, pc, dev), OthersKeep(w), life' = life, OwnStep(w, pc, card'[w])
    PROVE  MinerInv'
<1>0. w \in Thread /\ Card \subseteq Thread
  BY RigIs
<1>1. \A u \in Thread : u # w => thr'[u] = thr[u]
  BY DEF Moves
<1>2. thr'[w].pc = pc /\ thr[w].pc \notin Locking /\ pc \notin Locking \cup {"rebuild"}
  BY DEF Moves, OwnStep
<1>3. \A c \in Card : c # w => SameMiners(card[c], card'[c])
  BY DEF OthersKeep
<1>4. \A c \in Card : ~Holds(w, c) /\ ~Clears(w, c) /\ ~Waits(w, c) /\ ~Holds(w, c)' /\ ~Clears(w, c)' /\ ~Waits(w, c)'
  BY <1>2 DEF Holds, Clears, Waits, Locking
<1>5. \A u \in Thread, c \in Card :
         (Holds(u, c)' => Holds(u, c)) /\ (Clears(u, c)' => Clears(u, c)) /\ (Waits(u, c)' <=> Waits(u, c))
  BY <1>1, <1>4, StayIs
<1>6. LocksHeld'
  BY <1>5 DEF MinerInv, LocksHeld
<1>7. ClearedFirst'
  BY <1>3, <1>5 DEF MinerInv, ClearedFirst, OwnStep, SameMiners
<1>8. Phases'
  <2> SUFFICES ASSUME NEW c \in Card
               PROVE  /\ card'[c].walk # None => thr'[c].pc \in {"shrink", "walk"}
                      /\ card'[c].built # None => thr'[c].pc = "build"
                      /\ thr'[c].pc \in {"rebuild", "engine", "build"} => card'[c].installed = None
    BY DEF Phases
  <2>1. CASE c # w
    BY <1>0, <1>1, <1>3, <2>1 DEF MinerInv, Phases, SameMiners
  <2>2. CASE c = w
    BY <1>2, <2>2 DEF OwnStep, Locking
  <2> QED BY <2>1, <2>2
<1>9. WalkersKnown'
  BY <1>3, <1>5 DEF MinerInv, WalkersKnown, OwnStep, SameMiners
<1>10. \A c \in Card : Live(card'[c])
  BY <1>3 DEF MinerInv, OwnStep, SameMiners, Live
<1> QED BY <1>6, <1>7, <1>8, <1>9, <1>10 DEF MinerInv

\* A step on card c of t, which holds it before or after: no other thread does.
LEMMA OnlyHolder ==
    ASSUME Types, MinerInv, NEW t \in Thread, NEW c \in Card, life[c] \in {None, t}
    PROVE  \A u \in Thread : u # t => ~Holds(u, c) /\ ~Clears(u, c) /\ ~Waits(u, c)
<1>1. \A u \in Thread : Holds(u, c) => u = t
  BY RigIs DEF MinerInv, LocksHeld
<1> QED BY <1>1 DEF Holds, Clears, Waits

\* t holds card c, and nothing else, before or after the step.
HoldsOnly(t, c) ==
    /\ \A d \in Card : d # c => ~Holds(t, d)
    /\ \A d \in Card : d # c => ~Holds(t, d)'

\* A step on a card under its lifecycle lock: what it must leave behind on the card.
LEMMA HeldStep ==
    ASSUME Types, MinerInv, NEW t \in Thread, NEW c \in Card, NEW pc, NEW dev, NEW holder,
           Moves(t, pc, dev), OthersKeep(c), LockGoes(c, holder), life[c] \in {None, t},
           HoldsOnly(t, c), Holds(t, c)' => holder = t,
           \* of t and its card
           t # c /\ t \in Card => card[t].walk = None /\ pc \notin {"rebuild", "engine", "build"},
           \* of the card
           Live(card'[c]),
           Clears(t, c)' => card'[c].installed = None /\ (Waits(t, c)' \/ card'[c].walk = None),
           card'[c].walk # None => thr'[c].pc \in {"shrink", "walk"},
           card'[c].built # None => thr'[c].pc = "build",
           thr'[c].pc \in {"rebuild", "engine", "build"} => card'[c].installed = None,
           card'[c].installed = None /\ card'[c].walk # None => card'[c].draining \/ Waits(t, c)'
    PROVE  MinerInv'
<1>0. Card \subseteq Thread
  BY RigIs
<1>1. \A u \in Thread : u # t => thr'[u] = thr[u]
  BY DEF Moves
<1>2. \A d \in Card : d # c => SameMiners(card[d], card'[d]) /\ life'[d] = life[d]
  BY DEF OthersKeep, LockGoes
<1>3. \A u \in Thread : u # t => ~Holds(u, c) /\ ~Clears(u, c) /\ ~Waits(u, c)
  BY OnlyHolder
<1>4. \A d \in Card : d # c => /\ ~Holds(t, d) /\ ~Clears(t, d) /\ ~Waits(t, d)
                               /\ ~Holds(t, d)' /\ ~Clears(t, d)' /\ ~Waits(t, d)'
  BY DEF HoldsOnly, Holds, Clears, Waits
<1>5. \A u \in Thread, d \in Card : u # t =>
         (Holds(u, d)' <=> Holds(u, d)) /\ (Clears(u, d)' <=> Clears(u, d)) /\ (Waits(u, d)' <=> Waits(u, d))
  BY <1>1, StayIs
<1>6. LocksHeld'
  <2> SUFFICES ASSUME NEW u \in Thread, NEW d \in Card, Holds(u, d)' PROVE life'[d] = u
    BY DEF LocksHeld
  <2>1. CASE u = t
    BY <1>4, <2>1 DEF LockGoes
  <2>2. CASE u # t
    BY <1>2, <1>3, <1>5, <2>2 DEF MinerInv, LocksHeld
  <2> QED BY <2>1, <2>2
<1>7. ClearedFirst'
  <2> SUFFICES ASSUME NEW u \in Thread, NEW d \in Card, Clears(u, d)'
               PROVE  card'[d].installed = None /\ (Waits(u, d)' \/ card'[d].walk = None)
    BY DEF ClearedFirst
  <2>1. CASE u = t
    BY <1>4, <2>1
  <2>2. CASE u # t
    BY <1>2, <1>3, <1>5, <2>2 DEF MinerInv, ClearedFirst, SameMiners
  <2> QED BY <2>1, <2>2
<1>8. Phases'
  <2> SUFFICES ASSUME NEW d \in Card
               PROVE  /\ card'[d].walk # None => thr'[d].pc \in {"shrink", "walk"}
                      /\ card'[d].built # None => thr'[d].pc = "build"
                      /\ thr'[d].pc \in {"rebuild", "engine", "build"} => card'[d].installed = None
    BY DEF Phases
  <2>1. CASE d = c
    BY <2>1
  <2>2. CASE d # c /\ d # t
    BY <1>0, <1>1, <1>2, <2>2 DEF MinerInv, Phases, SameMiners
  <2>3. CASE d # c /\ d = t
    <3>1. SameMiners(card[d], card'[d]) /\ thr'[d].pc = pc /\ card[d].walk = None /\ pc \notin {"rebuild", "engine", "build"}
      BY <1>2, <2>3 DEF Moves
    <3>2. card[d].built = None
      BY <1>4, <2>3 DEF MinerInv, Phases, Holds
    <3> QED BY <3>1, <3>2 DEF SameMiners
  <2> QED BY <2>1, <2>2, <2>3
<1>9. WalkersKnown'
  <2> SUFFICES ASSUME NEW d \in Card, card'[d].installed = None, card'[d].walk # None
               PROVE  card'[d].draining \/ \E u \in Thread : Waits(u, d)'
    BY DEF WalkersKnown
  <2>1. CASE d = c
    BY <2>1
  <2>2. CASE d # c
    BY <1>2, <1>4, <1>5, <2>2 DEF MinerInv, WalkersKnown, SameMiners
  <2> QED BY <2>1, <2>2
<1>10. \A d \in Card : Live(card'[d])
  BY <1>2 DEF MinerInv, SameMiners, Live
<1> QED BY <1>6, <1>7, <1>8, <1>9, <1>10 DEF MinerInv

\* The slots, when the thread that moves does not take or leave one.
LEMMA SlotStep ==
    ASSUME Types, SlotsHeld, NEW t \in Thread, NEW pc, NEW dev, Moves(t, pc, dev), slot' = slot,
           pc \notin {"context", "run"},
           \A d \in Card : slot[d] # None => card'[d].engine = card[d].engine
    PROVE  SlotsHeld'
<1> SUFFICES ASSUME NEW u \in Thread
             PROVE  /\ thr'[u].pc \in {"context", "run"} => slot[thr'[u].dev] = u
                    /\ thr'[u].pc = "context" => card'[thr'[u].dev].engine \in EngineRec
  BY DEF SlotsHeld
<1>1. CASE u = t
  BY <1>1 DEF Moves
<1>2. CASE u # t
  <2>1. thr'[u] = thr[u] /\ thr[u].dev \in Card /\ u # None
    BY <1>2, ThreadIs, RigIs DEF Moves
  <2> QED BY <2>1 DEF SlotsHeld
<1> QED BY <1>1, <1>2

\* The types hold after a step if they hold of what it changes.
LEMMA TypesKept ==
    ASSUME Types, rig' = rig, Cards', Threads', life' \in [Card -> Thread \cup {None}],
           slot' \in [Card -> Thread \cup {None}], job' \in [Card -> Era], served' \subseteq Model
    PROVE  Types'
BY DEF Types, Cards, Threads

\* What no step of a worker or a server but a few changes.
Apart == rig' = rig /\ slot' = slot /\ job' = job /\ served' \subseteq Model

\* The engine of a card changes while its slot is free.
EnginesKept == \A d \in Card : slot[d] # None => card'[d].engine = card[d].engine

\* A step that changes no lock, miner, slot or engine in use keeps the inductive invariant.
LEMMA QuietInv ==
    ASSUME CardsInv, NEW t \in Thread, NEW pc, NEW dev, Moves(t, pc, dev), pc \notin {"context", "run"},
           KeepMiners, EnginesKept, life' = life, Apart, Idles(t, pc)
    PROVE  CardsInv'
<1>1. Types /\ MinerInv /\ SlotsHeld
  BY DEF CardsInv
<1>2. MinerInv'
  BY <1>1, QuietStep
<1>3. SlotsHeld'
  BY <1>1, SlotStep DEF EnginesKept, Apart
<1>4. Types'
  <2>1. life' \in [Card -> Thread \cup {None}] /\ slot' \in [Card -> Thread \cup {None}] /\ job' \in [Card -> Era]
    BY <1>1 DEF Types, Apart
  <2> QED BY <1>1, <2>1, TypesKept DEF Moves, KeepMiners, Apart
<1> QED BY <1>2, <1>3, <1>4 DEF CardsInv

\* A worker that is not at its card, or a server, goes where it holds nothing.
LEMMA IdlesIs ==
    ASSUME Types, MinerInv, NEW t \in Thread, NEW pc,
           thr[t].pc \notin Locking \cup {"shrink", "walk"}, pc \notin Locking \cup {"rebuild"}
    PROVE  Idles(t, pc)
BY DEF MinerInv, Phases, Idles

\* A step that leaves the cards alone keeps their miners and engines.
LEMMA NothingKept ==
    ASSUME Types, card' = card PROVE KeepMiners /\ EnginesKept
BY DEF Types, Cards, KeepMiners, EnginesKept, SameMiners

\* advance_mining_tier_if_due finds a card that is due.
LEMMA AdvanceKeeps == ASSUME CardsInv, NEW w \in rig.cards, Advance(w) PROVE CardsInv'
<1>1. Types /\ MinerInv /\ w \in Thread
  BY RigIs DEF CardsInv
<1>2. /\ thr[w].pc \in {"top", "advance"} /\ card' = card /\ life' = life /\ Apart
  BY <1>1 DEF Advance, Looping, lockVars, modelVars, Apart, Types
<1> DEFINE left == IF thr[w].pc = "top" THEN rig.cards ELSE thr[w].left
<1>3. PICK c \in left : thr' = [thr EXCEPT ![w] = [@ EXCEPT !.left = left \ {c}, !.dev = c, !.pc = "cross"]]
  BY DEF Advance
<1>4. left \in SUBSET Card
  BY <1>1, RigIs, ThreadIs
<1> HIDE DEF left
<1> DEFINE e == [thr[w] EXCEPT !.left = left \ {c}, !.dev = c, !.pc = "cross"]
<1>5. e \in ThrRec /\ e.pc = "cross" /\ e.dev = c
  <2>1. thr[w] \in ThrRec /\ left \ {c} \in SUBSET Card /\ c \in Card
    BY <1>1, <1>4, ThreadIs
  <2> QED BY <2>1 DEF ThrRec, Places
<1>6. thr' = [thr EXCEPT ![w] = e]
  BY <1>3
<1> HIDE DEF e
<1>7. Moves(w, "cross", c)
  BY <1>1, <1>5, <1>6, ReplacedIs
<1>8. Idles(w, "cross")
  BY <1>1, <1>2, IdlesIs DEF Locking
<1> QED BY <1>1, <1>2, <1>7, <1>8, NothingKept, QuietInv

\* The lifecycle lock is taken and the miner removed.
LEMMA UninstallKeeps ==
    ASSUME CardsInv, NEW t \in Thread, NEW c \in Card, c = thr[t].dev, thr[t].pc \in {"cross", "evict"},
           NEW wait \in {"cross_wait", "evict_wait"}, NEW drained \in {"crossed", "load"},
           Uninstall(t, c, wait, drained), Apart
    PROVE  CardsInv'
<1> DEFINE p == IF card[c].installed # None THEN wait ELSE drained
           r == [card[c] EXCEPT !.draining = FALSE, !.installed = None]
<1>1. Types /\ MinerInv /\ SlotsHeld
  BY DEF CardsInv
<1>2. life[c] = None /\ ~StillDraining(c) /\ life' = [life EXCEPT ![c] = t] /\ Goto(t, p)
  BY DEF Uninstall
<1>3. card' = [card EXCEPT ![c] = r]
  <2>1. StillDraining(c) = FALSE
    BY <1>2 DEF StillDraining
  <2>2. card' = [card EXCEPT ![c] = [card[c] EXCEPT !.draining = StillDraining(c),
                                       !.installed = IF StillDraining(c) THEN card[c].installed ELSE None]]
    BY DEF Uninstall, Removed
  <2> QED BY <2>1, <2>2
<1>4. /\ r \in CardRec /\ r.tier = card[c].tier /\ r.built = card[c].built /\ r.walk = card[c].walk
      /\ r.installed = None /\ r.draining = FALSE /\ r.engine = card[c].engine
  <2>1. card[c] \in CardRec
    BY <1>1, RecordIs
  <2> QED BY <2>1 DEF CardRec
<1> HIDE DEF r
<1>5. OthersKeep(c) /\ card'[c] = r /\ \A d \in Card : d # c => card'[d] = card[d]
  BY <1>1, <1>3, <1>4, CardIs
<1>6. p \in Places /\ p \in {wait, drained} /\ Moves(t, p, c)
  <2>1. p \in Places /\ p \in {wait, drained}
    BY DEF Places
  <2> HIDE DEF p
  <2> QED BY <1>1, <1>2, <2>1, GotoIs
<1>7. LockGoes(c, t)
  BY <1>1, <1>2 DEF LockGoes, Types
<1>8. \A u \in Thread : u # t => ~Holds(u, c) /\ ~Clears(u, c) /\ ~Waits(u, c)
  BY <1>1, <1>2, OnlyHolder
<1>9. \A d \in Card : ~Holds(t, d) /\ ~Clears(t, d) /\ ~Waits(t, d)
  BY NoHold DEF Locking
<1>10. card[c].installed = None => card[c].walk = None
  BY <1>1, <1>2, <1>8, <1>9 DEF MinerInv, WalkersKnown, StillDraining, Walking
<1>11. t \in Card => card[t].walk = None /\ card[t].built = None
  BY <1>1 DEF MinerInv, Phases
<1>12. /\ card[c].walk # None => thr[c].pc \in {"shrink", "walk"}
       /\ card[c].built # None => thr[c].pc = "build"
  BY <1>1 DEF MinerInv, Phases
<1>13. c \in Thread
  BY <1>1, RigIs
<1>14. c # t => thr'[c] = thr[c]
  BY <1>6, <1>13 DEF Moves
<1>15. /\ Clears(t, c)' /\ (p = wait => Waits(t, c)') /\ HoldsOnly(t, c)
  <2>1. thr'[t].pc = p /\ thr'[t].dev = c
    BY <1>6 DEF Moves
  <2>2. Clears(t, c)' /\ (p = wait => Waits(t, c)')
    BY <1>6, <2>1 DEF Clears, Waits
  <2>3. \A d \in Card : d # c => ~Holds(t, d)'
    BY <1>6, <2>1 DEF Holds, Clears
  <2> QED BY <1>9, <2>2, <2>3 DEF HoldsOnly
<1>16. p \notin {"rebuild", "engine", "build"}
  BY <1>6
<1>17. card[c].walk # None => p = wait
  BY <1>10
<1> HIDE DEF p
<1>18. Live(r)
  BY <1>1, <1>4 DEF MinerInv, Live
<1>19. MinerInv'
  <2>1. card'[c].walk # None => thr'[c].pc \in {"shrink", "walk"}
    BY <1>4, <1>5, <1>11, <1>12, <1>14
  <2>2. card'[c].built # None => thr'[c].pc = "build"
    BY <1>4, <1>5, <1>11, <1>12, <1>14
  <2>3. card'[c].installed = None /\ (Waits(t, c)' \/ card'[c].walk = None)
    BY <1>4, <1>5, <1>15, <1>17
  <2>4. t # c /\ t \in Card => card[t].walk = None /\ p \notin {"rebuild", "engine", "build"}
    BY <1>11, <1>16
  <2> QED BY <1>1, <1>2, <1>5, <1>6, <1>7, <1>15, <1>18, <2>1, <2>2, <2>3, <2>4, HeldStep
<1>20. SlotsHeld'
  BY <1>1, <1>4, <1>5, <1>6, SlotStep DEF Apart
<1>21. Types'
  BY <1>1, <1>5, <1>6, <1>7, TypesKept DEF Apart, OthersKeep, Moves, LockGoes, Types
<1> QED BY <1>19, <1>20, <1>21 DEF CardsInv

\* The walk has let go: who waited for it has the card to itself.
LEMMA SoleOwnerKeeps ==
    ASSUME CardsInv, NEW t \in Thread, NEW c \in Card, Waits(t, c), NEW drained \in {"crossed", "load"},
           SoleOwner(t, c, drained), Apart
    PROVE  CardsInv'
<1>1. Types /\ MinerInv /\ SlotsHeld
  BY DEF CardsInv
<1>2. card[c].walk = None /\ card' = card /\ life' = life /\ Goto(t, drained)
  BY DEF SoleOwner, Walking
<1>3. thr[t].dev = c /\ thr[t].pc \in {"cross_wait", "evict_wait"} /\ Clears(t, c) /\ Holds(t, c)
  BY DEF Waits, Clears, Holds
<1>4. Moves(t, drained, c)
  <2>1. drained \in Places
    BY DEF Places
  <2> QED BY <1>1, <1>2, <1>3, <2>1, GotoIs
<1>5. life[c] = t
  BY <1>1, <1>3 DEF MinerInv, LocksHeld
<1>6. LockGoes(c, t)
  BY <1>1, <1>2, <1>5 DEF LockGoes, Types
<1>7. OthersKeep(c) /\ card'[c] = card[c] /\ KeepMiners /\ EnginesKept
  BY <1>1, <1>2, NothingKept DEF KeepMiners, OthersKeep
<1>8. Clears(t, c)' /\ HoldsOnly(t, c)
  <2>1. thr'[t].pc = drained /\ thr'[t].dev = c
    BY <1>4 DEF Moves
  <2> QED BY <1>3, <2>1 DEF Clears, Holds, HoldsOnly
<1>9. card[c].installed = None
  BY <1>1, <1>3 DEF MinerInv, ClearedFirst
<1>10. c # t => thr'[c] = thr[c]
  BY <1>1, <1>4, RigIs DEF Moves
<1>11. /\ card[c].built # None => thr[c].pc = "build"
       /\ t \in Card => card[t].walk = None /\ card[t].built = None
  BY <1>1, <1>3 DEF MinerInv, Phases
<1>12. MinerInv'
  <2>1. Live(card'[c])
    BY <1>1, <1>7 DEF MinerInv
  <2>2. card'[c].built # None => thr'[c].pc = "build"
    BY <1>7, <1>10, <1>11
  <2>3. card'[c].installed = None /\ card'[c].walk = None
    BY <1>2, <1>9
  <2>4. t # c /\ t \in Card => card[t].walk = None /\ drained \notin {"rebuild", "engine", "build"}
    BY <1>11
  <2> QED BY <1>1, <1>4, <1>5, <1>6, <1>7, <1>8, <2>1, <2>2, <2>3, <2>4, HeldStep
<1>13. SlotsHeld'
  BY <1>1, <1>4, <1>7, SlotStep DEF Apart, EnginesKept
<1>14. Types'
  BY <1>1, <1>4, <1>6, <1>7, TypesKept DEF Apart, OthersKeep, Moves, LockGoes, Types
<1> QED BY <1>12, <1>13, <1>14 DEF CardsInv

\* The wait is given up: the miner is quarantined and the card let go.
LEMMA QuarantineKeeps ==
    ASSUME CardsInv, NEW t \in Thread, NEW c \in Card, Waits(t, c), NEW pc \in {"advance", "top"},
           Moves(t, pc, 0), Walking(c), Release(c), Apart, EnginesKept, Cards',
           \A d \in Card : d # c => SameMiners(card[d], card'[d]),
           SameMiners([card[c] EXCEPT !.draining = TRUE], card'[c])
    PROVE  CardsInv'
<1>1. Types /\ MinerInv /\ SlotsHeld
  BY DEF CardsInv
<1>2. thr[t].dev = c /\ thr[t].pc \in {"cross_wait", "evict_wait"} /\ Clears(t, c) /\ Holds(t, c)
  BY DEF Waits, Clears, Holds
<1>3. life[c] = t /\ card[c].installed = None /\ card[c].walk # None
  BY <1>1, <1>2 DEF MinerInv, LocksHeld, ClearedFirst, Walking
<1>4. LockGoes(c, None)
  BY <1>1 DEF LockGoes, Types, Release
<1>5. OthersKeep(c)
  BY DEF OthersKeep
<1>6. /\ card'[c].draining = TRUE /\ card'[c].tier = card[c].tier /\ card'[c].installed = card[c].installed
      /\ card'[c].built = card[c].built /\ card'[c].walk = card[c].walk
  <2>1. card[c] \in CardRec
    BY <1>1, RecordIs
  <2> QED BY <2>1 DEF CardRec, SameMiners
<1>7. thr'[t].pc = pc /\ \A d : ~Holds(t, d)' /\ ~Clears(t, d)'
  <2>1. thr'[t].pc = pc
    BY DEF Moves
  <2> QED BY <2>1 DEF Holds, Clears
<1>8. HoldsOnly(t, c)
  BY <1>2, <1>7 DEF HoldsOnly, Holds, Clears
<1>9. c # t => thr'[c] = thr[c]
  BY <1>1, RigIs DEF Moves
<1>10. /\ card[c].built # None => thr[c].pc = "build"
       /\ card[c].walk # None => thr[c].pc \in {"shrink", "walk"}
       /\ t \in Card => card[t].walk = None /\ card[t].built = None
  BY <1>1, <1>2 DEF MinerInv, Phases
<1>11. MinerInv'
  <2>1. Live(card'[c])
    BY <1>1, <1>6 DEF MinerInv, Live
  <2>2. card'[c].built # None => thr'[c].pc = "build"
    BY <1>6, <1>9, <1>10
  <2>3. card'[c].walk # None => thr'[c].pc \in {"shrink", "walk"}
    BY <1>3, <1>6, <1>9, <1>10
  <2>4. card'[c].installed = None /\ card'[c].draining
    BY <1>3, <1>6
  <2>5. t # c /\ t \in Card => card[t].walk = None /\ pc \notin {"rebuild", "engine", "build"}
    BY <1>10
  <2> QED BY <1>1, <1>3, <1>4, <1>5, <1>7, <1>8, <2>1, <2>2, <2>3, <2>4, <2>5, HeldStep
<1>12. SlotsHeld'
  BY <1>1, SlotStep DEF Apart, EnginesKept
<1>13. Types'
  BY <1>1, <1>4, TypesKept DEF Apart, Moves, LockGoes, Types
<1> QED BY <1>11, <1>12, <1>13 DEF CardsInv

\* advance_mining_tier_if_due, under the lock: uninstall, or the card is let be.
LEMMA CrossKeeps == ASSUME CardsInv, NEW w \in rig.cards, Cross(w) PROVE CardsInv'
<1> DEFINE c == thr[w].dev
<1>1. Types /\ MinerInv /\ w \in Thread /\ c \in Card
  BY RigIs, ThreadIs DEF CardsInv
<1>2. thr[w].pc = "cross" /\ Apart
  BY <1>1 DEF Cross, Apart, modelVars, Types
<1>3. CASE Uninstall(w, c, "cross_wait", "crossed")
  BY <1>1, <1>2, <1>3, UninstallKeeps
<1>4. CASE NextCard(w, thr[w].swaps) /\ card' = card /\ life' = life
  <2>1. Moves(w, "advance", 0)
    BY <1>1, <1>4, ThreadIs, NextCardIs
  <2>2. Idles(w, "advance")
    BY <1>1, <1>2, IdlesIs DEF Locking
  <2> QED BY <1>1, <1>2, <1>4, <2>1, <2>2, NothingKept, QuietInv
<1> QED BY <1>3, <1>4 DEF Cross

\* The worker that moves a card waits for its walk, or quarantines the miner.
LEMMA CrossWaitKeeps == ASSUME CardsInv, NEW w \in rig.cards, CrossWait(w) PROVE CardsInv'
<1> DEFINE c == thr[w].dev
<1>1. Types /\ MinerInv /\ w \in Thread /\ c \in Card
  BY RigIs, ThreadIs DEF CardsInv
<1>2. thr[w].pc = "cross_wait" /\ Apart /\ Waits(w, c)
  BY <1>1 DEF CrossWait, Apart, modelVars, Types, Waits
<1>3. CASE SoleOwner(w, c, "crossed")
  BY <1>1, <1>2, <1>3, SoleOwnerKeeps
<1>4. CASE Quarantined(c) /\ Release(c) /\ NextCard(w, thr[w].swaps)
  <2> DEFINE r == [card[c] EXCEPT !.draining = TRUE]
  <2>1. Moves(w, "advance", 0)
    BY <1>1, <1>4, ThreadIs, NextCardIs
  <2>2. card' = [card EXCEPT ![c] = r] /\ Walking(c)
    BY <1>4 DEF Quarantined
  <2>3. r \in CardRec /\ r.engine = card[c].engine
    <3>1. card[c] \in CardRec
      BY <1>1, RecordIs
    <3> QED BY <3>1 DEF CardRec
  <2>4. OthersKeep(c) /\ card'[c] = r /\ \A d \in Card : d # c => card'[d] = card[d]
    <3> HIDE DEF r, c
    <3> QED BY <1>1, <2>2, <2>3, CardIs
  <2>5. SameMiners(r, card'[c]) /\ EnginesKept
    BY <2>3, <2>4 DEF SameMiners, EnginesKept
  <2> HIDE DEF c
  <2> QED BY <1>1, <1>2, <1>4, <2>1, <2>2, <2>4, <2>5, QuarantineKeeps DEF OthersKeep
<1> QED BY <1>3, <1>4 DEF CrossWait

\* The card is drained: it has no miner.
LEMMA DrainedIs ==
    ASSUME Types, MinerInv, NEW t \in Thread, NEW c \in Card, thr[t].pc \in {"crossed", "load"}, thr[t].dev = c
    PROVE  life[c] = t /\ card[c].installed = None /\ card[c].walk = None /\ card[c].built = None
<1>1. Clears(t, c) /\ Holds(t, c) /\ ~Waits(t, c)
  BY DEF Clears, Holds, Waits
<1>2. life[c] = t /\ card[c].installed = None /\ card[c].walk = None
  BY <1>1 DEF MinerInv, LocksHeld, ClearedFirst
<1>3. c \in Thread
  BY RigIs
<1>4. thr[c].pc # "build"
  <2> SUFFICES ASSUME thr[c].pc = "build" PROVE FALSE
    OBVIOUS
  <2>1. Holds(c, c)
    BY DEF Holds
  <2>2. life[c] = c
    BY <1>3, <2>1 DEF MinerInv, LocksHeld
  <2> QED BY <1>2, <2>2
<1>5. card[c].built = None
  BY <1>4 DEF MinerInv, Phases
<1> QED BY <1>2, <1>5

\* An engine is unloaded from a card without miners.
LEMMA UnloadedIs ==
    ASSUME NEW r \in CardRec
    PROVE  LET s == Unloaded(r) IN
           /\ s \in CardRec /\ s.tier = r.tier /\ s.draining = r.draining /\ s.engine = None
           /\ (r.installed = None => s.installed = None) /\ (r.walk = None => s.walk = None)
           /\ (r.built = None => s.built = None)
<1>1. /\ r.installed \in Miner \cup {None} /\ r.built \in Miner \cup {None} /\ r.walk \in Miner \cup {None}
  BY DEF CardRec
<1>2. \A h \in Miner \cup {None} : Stale(h) \in Miner \cup {None} /\ (h = None => Stale(h) = None)
  BY DEF Stale, Miner
<1> DEFINE i == Stale(r.installed)
           b == Stale(r.built)
           k == Stale(r.walk)
           s == [r EXCEPT !.engine = None, !.installed = i, !.built = b, !.walk = k]
<1>3. i \in Miner \cup {None} /\ b \in Miner \cup {None} /\ k \in Miner \cup {None}
  BY <1>1, <1>2
<1>4. (r.installed = None => i = None) /\ (r.walk = None => k = None) /\ (r.built = None => b = None)
  BY <1>2
<1>5. Unloaded(r) = s
  BY DEF Unloaded
<1> HIDE DEF i, b, k
<1>6. /\ s \in CardRec /\ s.tier = r.tier /\ s.draining = r.draining /\ s.engine = None
      /\ s.installed = i /\ s.built = b /\ s.walk = k
  BY <1>3 DEF CardRec
<1> HIDE DEF s
<1> QED BY <1>4, <1>5, <1>6

\* The engine of a drained card changes and the card is let go.
LEMMA FreedKeeps ==
    ASSUME CardsInv, NEW t \in Thread, NEW c \in Card, thr[t].pc \in {"crossed", "load"}, thr[t].dev = c,
           NEW pc \in {"advance", "generate", "top"}, NEW dev, Moves(t, pc, dev), Release(c), Apart,
           EnginesKept, OthersKeep(c),
           card'[c].installed = None, card'[c].walk = None, card'[c].built = None
    PROVE  CardsInv'
<1>1. Types /\ MinerInv /\ SlotsHeld
  BY DEF CardsInv
<1>2. life[c] = t
  BY <1>1, DrainedIs
<1>3. LockGoes(c, None)
  BY <1>1 DEF LockGoes, Types, Release
<1>4. thr'[t].pc = pc /\ \A d : ~Holds(t, d)' /\ ~Clears(t, d)'
  <2>1. thr'[t].pc = pc
    BY DEF Moves
  <2> QED BY <2>1 DEF Holds, Clears
<1>5. HoldsOnly(t, c)
  BY <1>4 DEF HoldsOnly, Holds, Clears
<1>6. t \in Card => card[t].walk = None
  BY <1>1 DEF MinerInv, Phases
<1>7. Live(card'[c])
  BY DEF Live
<1>8. MinerInv'
  <2>1. t # c /\ t \in Card => card[t].walk = None /\ pc \notin {"rebuild", "engine", "build"}
    BY <1>6
  <2> QED BY <1>1, <1>2, <1>3, <1>4, <1>5, <1>7, <2>1, HeldStep
<1>9. SlotsHeld'
  BY <1>1, SlotStep DEF Apart, EnginesKept
<1>10. Types'
  BY <1>1, <1>3, TypesKept DEF Apart, OthersKeep, Moves, LockGoes, Types
<1> QED BY <1>8, <1>9, <1>10 DEF CardsInv

\* The drained card changes its tier.
LEMMA CrossedKeeps == ASSUME CardsInv, NEW w \in rig.cards, Crossed(w) PROVE CardsInv'
<1> DEFINE c == thr[w].dev
           m == Lineup[job[w]][c]
           s == IF Hosts(c, m) THEN card[c] ELSE Unloaded(card[c])
           r == [s EXCEPT !.tier = m]
<1>1. Types /\ MinerInv /\ w \in Thread /\ c \in Card /\ card[c] \in CardRec
  BY RigIs, ThreadIs, RecordIs DEF CardsInv
<1>2. /\ thr[w].pc = "crossed" /\ Apart /\ slot[c] = None /\ Release(c) /\ NextCard(w, TRUE)
  BY <1>1 DEF Crossed, Apart, modelVars, Types
<1>3. card' = [card EXCEPT ![c] = r]
  BY DEF Crossed
<1>4. m \in Model
  BY <1>1, RigIs DEF Types
<1>5. card[c].installed = None /\ card[c].walk = None /\ card[c].built = None
  BY <1>1, <1>2, DrainedIs
<1>6. s \in CardRec /\ s.installed = None /\ s.walk = None /\ s.built = None
  BY <1>1, <1>5, UnloadedIs
<1> HIDE DEF s, m
<1>7. r \in CardRec /\ r.installed = None /\ r.walk = None /\ r.built = None
  BY <1>4, <1>6 DEF CardRec
<1> HIDE DEF r
<1>8. OthersKeep(c) /\ card'[c] = r /\ \A d \in Card : d # c => card'[d] = card[d]
  <2> HIDE DEF c
  <2> QED BY <1>1, <1>3, <1>7, CardIs
<1>9. EnginesKept
  BY <1>2, <1>8 DEF EnginesKept
<1>10. Moves(w, "advance", 0)
  BY <1>1, <1>2, NextCardIs
<1> HIDE DEF c
<1> QED BY <1>1, <1>2, <1>7, <1>8, <1>9, <1>10, FreedKeeps DEF c

-----------------------------------------------------------------------------
\* The worker's loop.

\* A worker in its loop has no walk and no miner under construction.
LEMMA ProceedIs ==
    ASSUME CardsInv, NEW w \in rig.cards, NEW pc \in Places, Proceed(w, pc)
    PROVE  /\ Types /\ MinerInv /\ w \in Card /\ w \in Thread
           /\ thr[w].pc \in {"top", "advance"} /\ card[w].walk = None /\ card[w].built = None
           /\ Moves(w, pc, 0) /\ served' \subseteq Model
<1>1. Types /\ MinerInv /\ w \in Card /\ w \in Thread
  BY RigIs DEF CardsInv
<1>2. thr[w].pc \in {"top", "advance"}
  BY DEF Proceed, Looping
<1>3. card[w].walk = None /\ card[w].built = None
  BY <1>1, <1>2 DEF MinerInv, Phases
<1> DEFINE e == [Resting EXCEPT !.pc = pc]
<1>4. e \in ThrRec /\ e.pc = pc /\ e.dev = 0
  BY <1>1, RestingIs DEF ThrRec
<1>5. thr' = [thr EXCEPT ![w] = e]
  BY DEF Proceed
<1> HIDE DEF e
<1>6. Moves(w, pc, 0)
  BY <1>1, <1>4, <1>5, ReplacedIs
<1>7. served' \subseteq Model
  <2>1. served' = IF thr[w].swaps THEN {Lineup[job[w]][c] : c \in rig.cards} ELSE served
    BY DEF Proceed
  <2>2. job[w] \in Era /\ \A c \in rig.cards : Lineup[job[w]][c] \in Model
    BY <1>1, RigIs DEF Types
  <2> QED BY <1>1, <2>1, <2>2 DEF Types
<1> QED BY <1>1, <1>2, <1>3, <1>6, <1>7

\* The loop goes to sleep, to park or to rebuild.
LEMMA LoopKeeps ==
    ASSUME CardsInv, NEW w \in rig.cards, Idle(w) \/ ToPark(w) \/ ToRebuild(w) PROVE CardsInv'
<1>1. PICK pc \in {"top", "park", "rebuild"} : Proceed(w, pc) /\ (pc = "rebuild" => card[w].installed = None)
  BY DEF Idle, ToPark, ToRebuild
<1>2. card' = card /\ life' = life /\ rig' = rig /\ slot' = slot /\ job' = job
  BY DEF Idle, ToPark, ToRebuild, lockVars
<1>3. pc \in Places
  BY DEF Places
<1>4. /\ Types /\ MinerInv /\ w \in Card /\ w \in Thread
      /\ thr[w].pc \in {"top", "advance"} /\ card[w].walk = None
      /\ Moves(w, pc, 0) /\ served' \subseteq Model
  BY <1>1, <1>3, ProceedIs
<1>5. Idles(w, pc)
  BY <1>1, <1>4 DEF Idles, Locking
<1> QED BY <1>2, <1>4, <1>5, NothingKept, QuietInv DEF Apart

\* A worker changes its own card without its lock.
LEMMA OwnInv ==
    ASSUME CardsInv, NEW w \in Card, NEW pc, NEW dev, Moves(w, pc, dev), pc \notin {"context", "run"},
           OthersKeep(w), EnginesKept, life' = life, Apart, OwnStep(w, pc, card'[w])
    PROVE  CardsInv'
<1>1. Types /\ MinerInv /\ SlotsHeld
  BY DEF CardsInv
<1>2. w \in Thread
  BY <1>1, RigIs
<1>3. MinerInv'
  BY <1>1, OwnCardStep
<1>4. SlotsHeld'
  BY <1>1, <1>2, SlotStep DEF EnginesKept, Apart
<1>5. Types'
  <2>1. life' \in [Card -> Thread \cup {None}] /\ slot' \in [Card -> Thread \cup {None}] /\ job' \in [Card -> Era]
    BY <1>1 DEF Types, Apart
  <2> QED BY <1>1, <2>1, TypesKept DEF Moves, OthersKeep, Apart
<1> QED BY <1>3, <1>4, <1>5 DEF CardsInv

\* A card's record is replaced, but for its engine.
LEMMA SameEngine ==
    ASSUME Types, NEW c \in Card, NEW r \in CardRec, card' = [card EXCEPT ![c] = r],
           slot[c] = None \/ r.engine = card[c].engine
    PROVE  OthersKeep(c) /\ card'[c] = r /\ EnginesKept
<1>1. OthersKeep(c) /\ card'[c] = r /\ \A d \in Card : d # c => card'[d] = card[d]
  BY CardIs
<1> QED BY <1>1 DEF EnginesKept

\* The handle a worker clones is the installed miner's.
LEMMA MineKeeps == ASSUME CardsInv, NEW w \in rig.cards, Mine(w) PROVE CardsInv'
<1> DEFINE pc == IF job[w] >= PadEra THEN "shrink" ELSE "walk"
           r == [card[w] EXCEPT !.walk = card[w].installed]
<1>1. /\ card[w].installed # None /\ Proceed(w, pc) /\ card' = [card EXCEPT ![w] = r] /\ life' = life
      /\ rig' = rig /\ slot' = slot /\ job' = job
  BY DEF Mine, lockVars
<1>2. pc \in Places /\ pc \in {"shrink", "walk"}
  BY DEF Places
<1> HIDE DEF pc
<1>3. /\ Types /\ MinerInv /\ w \in Card /\ w \in Thread
      /\ thr[w].pc \in {"top", "advance"} /\ card[w].walk = None /\ card[w].built = None
      /\ Moves(w, pc, 0) /\ served' \subseteq Model
  BY <1>1, <1>2, ProceedIs
<1>4. /\ r \in CardRec /\ r.installed = card[w].installed /\ r.built = card[w].built
      /\ r.walk = card[w].installed /\ r.tier = card[w].tier /\ r.engine = card[w].engine
  <2>1. card[w] \in CardRec
    BY <1>3, RecordIs
  <2> QED BY <2>1 DEF CardRec
<1> HIDE DEF r
<1>5. Live(r)
  BY <1>3, <1>4 DEF MinerInv, Live
<1>6. OthersKeep(w) /\ card'[w] = r /\ EnginesKept
  BY <1>1, <1>3, <1>4, SameEngine
<1>7. OwnStep(w, pc, card'[w])
  BY <1>1, <1>2, <1>3, <1>4, <1>5, <1>6 DEF OwnStep, Locking
<1> QED BY <1>1, <1>2, <1>3, <1>6, <1>7, OwnInv DEF Apart

\* The worker that parks its card is the one that would walk it.
LEMMA ParkKeeps == ASSUME CardsInv, NEW w \in rig.cards, Park(w) PROVE CardsInv'
<1> DEFINE r == [card[w] EXCEPT !.draining = FALSE, !.installed = None]
<1>1. /\ thr[w].pc = "park" /\ Goto(w, "top") /\ life' = life
      /\ rig' = rig /\ slot' = slot /\ job' = job /\ served' = served
  BY DEF Park, lockVars, modelVars
<1>2. Types /\ MinerInv /\ w \in Card /\ w \in Thread /\ card[w] \in CardRec
  BY RigIs, RecordIs DEF CardsInv
<1>3. card[w].walk = None /\ card[w].built = None
  BY <1>1, <1>2 DEF MinerInv, Phases
<1>4. card' = [card EXCEPT ![w] = r]
  <2>1. StillDraining(w) = FALSE
    BY <1>3 DEF StillDraining, Walking
  <2>2. card' = [card EXCEPT ![w] = [card[w] EXCEPT !.draining = StillDraining(w),
                                       !.installed = IF StillDraining(w) THEN card[w].installed ELSE None]]
    BY DEF Park, Removed
  <2> QED BY <2>1, <2>2
<1>5. r \in CardRec /\ r.installed = None /\ r.built = None /\ r.walk = None /\ r.engine = card[w].engine
  BY <1>2, <1>3 DEF CardRec
<1> HIDE DEF r
<1>6. OthersKeep(w) /\ card'[w] = r /\ EnginesKept
  BY <1>2, <1>4, <1>5, SameEngine
<1>7. Moves(w, "top", thr[w].dev)
  BY <1>1, <1>2, GotoIs DEF Places
<1>8. OwnStep(w, "top", card'[w])
  BY <1>1, <1>5, <1>6 DEF OwnStep, Locking, Live
<1> QED BY <1>1, <1>2, <1>6, <1>7, <1>8, OwnInv DEF Apart, Types

\* use_task_context changes the engine's context, not the engine.
LEMMA ShrinkKeeps == ASSUME CardsInv, NEW w \in rig.cards, Shrink(w) PROVE CardsInv'
<1>1. /\ thr[w].pc = "shrink" /\ Goto(w, "walk") /\ life' = life /\ slot[w] = None
      /\ rig' = rig /\ slot' = slot /\ job' = job /\ served' = served
  BY DEF Shrink, lockVars, modelVars
<1>2. Types /\ MinerInv /\ w \in Card /\ w \in Thread /\ card[w] \in CardRec
  BY RigIs, RecordIs DEF CardsInv
<1>3. Moves(w, "walk", thr[w].dev)
  BY <1>1, <1>2, GotoIs DEF Places
<1>4. Idles(w, "walk")
  BY <1>1 DEF Idles, Locking
<1>5. CASE card' = card
  BY <1>1, <1>2, <1>3, <1>4, <1>5, NothingKept, QuietInv DEF Apart, Types
<1>6. CASE card[w].engine # None /\ card' = [card EXCEPT ![w].engine.full = FALSE]
  <2> DEFINE n == [card[w].engine EXCEPT !.full = FALSE]
             r == [card[w] EXCEPT !.engine = n]
  <2>1. n \in EngineRec
    BY <1>2, <1>6, RecordIs DEF EngineRec
  <2>2. card' = [card EXCEPT ![w] = r]
    BY <1>6
  <2> HIDE DEF n
  <2>3. r \in CardRec /\ SameMiners(card[w], r)
    BY <1>2, <2>1 DEF CardRec, SameMiners
  <2> HIDE DEF r
  <2>4. OthersKeep(w) /\ card'[w] = r /\ EnginesKept
    BY <1>1, <1>2, <2>2, <2>3, SameEngine
  <2>5. KeepMiners
    BY <2>3, <2>4 DEF KeepMiners, OthersKeep
  <2> QED BY <1>1, <1>2, <1>3, <1>4, <2>4, <2>5, QuietInv DEF Apart, Types
<1> QED BY <1>5, <1>6 DEF Shrink

\* A launch that ends drops its handle.
LEMMA WalkKeeps == ASSUME CardsInv, NEW w \in rig.cards, Walk(w) PROVE CardsInv'
<1> DEFINE r == [card[w] EXCEPT !.walk = None]
<1>1. /\ thr[w].pc = "walk" /\ Goto(w, "top") /\ life' = life /\ card' = [card EXCEPT ![w] = r]
      /\ rig' = rig /\ slot' = slot /\ job' = job /\ served' = served
  BY DEF Walk, lockVars, modelVars
<1>2. Types /\ MinerInv /\ w \in Card /\ w \in Thread /\ card[w] \in CardRec
  BY RigIs, RecordIs DEF CardsInv
<1>3. card[w].built = None
  BY <1>1, <1>2 DEF MinerInv, Phases
<1>4. /\ r \in CardRec /\ r.installed = card[w].installed /\ r.built = card[w].built
      /\ r.walk = None /\ r.tier = card[w].tier /\ r.engine = card[w].engine
  BY <1>2 DEF CardRec
<1> HIDE DEF r
<1>5. OthersKeep(w) /\ card'[w] = r /\ EnginesKept
  BY <1>1, <1>2, <1>4, SameEngine
<1>6. Moves(w, "top", thr[w].dev)
  BY <1>1, <1>2, GotoIs DEF Places
<1>7. Live(r)
  BY <1>2, <1>4 DEF MinerInv, Live
<1>8. OwnStep(w, "top", card'[w])
  BY <1>1, <1>3, <1>4, <1>5, <1>7 DEF OwnStep, Locking
<1> QED BY <1>1, <1>2, <1>5, <1>6, <1>8, OwnInv DEF Apart, Types

\* Nothing of what the property depends on changes.
LEMMA SameInv ==
    ASSUME CardsInv, card' = card, thr' = thr, life' = life, slot' = slot, rig' = rig, served' = served,
           job' \in [Card -> Era]
    PROVE  CardsInv'
<1>1. Types'
  BY DEF CardsInv, Types, Cards, Threads
<1>2. MinerInv'
  BY DEF CardsInv, MinerInv, LocksHeld, ClearedFirst, Phases, WalkersKnown, Holds, Clears, Waits
<1>3. SlotsHeld'
  BY DEF CardsInv, SlotsHeld
<1> QED BY <1>1, <1>2, <1>3 DEF CardsInv

\* The template decides the next era only.
LEMMA NewTemplateKeeps == ASSUME CardsInv, NEW w \in rig.cards, NewTemplate(w) PROVE CardsInv'
<1>1. /\ job[w] < Len(Lineup) /\ job' = [job EXCEPT ![w] = @ + 1]
      /\ card' = card /\ thr' = thr /\ life' = life /\ slot' = slot /\ rig' = rig /\ served' = served
  BY DEF NewTemplate, lockVars, modelVars
<1>2. job' \in [Card -> Era]
  <2>1. job \in [Card -> Era] /\ w \in Card /\ job[w] \in Era /\ Len(Lineup) \in Nat
    <3>1. Types /\ w \in Card
      BY RigIs DEF CardsInv
    <3>2. Len(Lineup) \in Nat
      <4>1. Lineup \in Seq([Card -> Model])
        BY CardsAssumption
      <4> QED BY <4>1
    <3> QED BY <3>1, <3>2 DEF Types
  <2>2. job[w] + 1 \in Era
    BY <1>1, <2>1 DEF Era
  <2> HIDE DEF Era
  <2> QED BY <1>1, <2>1, <2>2
<1> QED BY <1>1, <1>2, SameInv


-----------------------------------------------------------------------------
\* A worker builds the miner of its own card.

\* A card that is rebuilt has no miner and no walk, and is its worker's once it is locked.
LEMMA BuilderIs ==
    ASSUME CardsInv, NEW w \in rig.cards, thr[w].pc \in {"rebuild", "engine", "build"}
    PROVE  /\ Types /\ MinerInv /\ w \in Card /\ w \in Thread /\ card[w] \in CardRec
           /\ card[w].installed = None /\ card[w].walk = None
           /\ thr[w].pc # "rebuild" => life[w] = w
<1>1. Types /\ MinerInv /\ w \in Card /\ w \in Thread /\ card[w] \in CardRec
  BY RigIs, RecordIs DEF CardsInv
<1>2. card[w].installed = None /\ card[w].walk = None
  BY <1>1 DEF MinerInv, Phases
<1>3. thr[w].pc # "rebuild" => Holds(w, w)
  BY DEF Holds
<1> QED BY <1>1, <1>2, <1>3 DEF MinerInv, LocksHeld

\* It holds its card as long as it builds.
LEMMA BuilderInv ==
    ASSUME CardsInv, NEW w \in rig.cards, thr[w].pc \in {"rebuild", "engine", "build"},
           NEW pc \in {"engine", "build", "top"}, NEW dev, NEW holder, Moves(w, pc, dev),
           LockGoes(w, holder), life[w] \in {None, w}, pc # "top" => holder = w,
           OthersKeep(w), EnginesKept, Apart, Live(card'[w]), card'[w].walk = None,
           card'[w].built # None => pc = "build", pc # "top" => card'[w].installed = None
    PROVE  CardsInv'
<1>1. Types /\ MinerInv /\ SlotsHeld /\ w \in Card /\ w \in Thread
  BY RigIs DEF CardsInv
<1>2. thr'[w].pc = pc
  BY DEF Moves
<1>3. \A d : ~Clears(w, d) /\ ~Clears(w, d)'
  BY <1>2 DEF Clears
<1>4. HoldsOnly(w, w)
  BY <1>3 DEF HoldsOnly, Holds
<1>5. Holds(w, w)' => holder = w
  BY <1>2, <1>3 DEF Holds
<1>6. MinerInv'
  BY <1>1, <1>2, <1>3, <1>4, <1>5, HeldStep
<1>7. SlotsHeld'
  BY <1>1, SlotStep DEF Apart, EnginesKept
<1>8. Types'
  BY <1>1, TypesKept DEF Apart, OthersKeep, Moves, LockGoes, Types
<1> QED BY <1>6, <1>7, <1>8 DEF CardsInv

\* ensure_installed_inner: turned away, or the lock is taken.
LEMMA RebuildKeeps == ASSUME CardsInv, NEW w \in rig.cards, Rebuild(w) PROVE CardsInv'
<1> DEFINE b == IF Paused(w) THEN card[w].draining ELSE StillDraining(w)
           r == [card[w] EXCEPT !.draining = b]
<1>1. /\ thr[w].pc = "rebuild" /\ life[w] = None /\ card' = [card EXCEPT ![w] = r]
      /\ rig' = rig /\ slot' = slot /\ job' = job /\ served' = served
  BY DEF Rebuild, modelVars
<1>2. /\ Types /\ MinerInv /\ w \in Card /\ w \in Thread /\ card[w] \in CardRec
      /\ card[w].installed = None /\ card[w].walk = None
  BY <1>1, BuilderIs
<1>3. b \in BOOLEAN
  BY <1>2, RecordIs DEF StillDraining, Walking
<1> HIDE DEF b
<1>4. /\ r \in CardRec /\ r.installed = None /\ r.walk = None /\ r.built = card[w].built
      /\ r.tier = card[w].tier /\ r.engine = card[w].engine
  BY <1>2, <1>3 DEF CardRec
<1> HIDE DEF r
<1>5. card[w].built = None
  BY <1>1, <1>2 DEF MinerInv, Phases
<1>6. OthersKeep(w) /\ card'[w] = r /\ EnginesKept
  BY <1>1, <1>2, <1>4, SameEngine
<1>7. Live(r) /\ Apart
  BY <1>1, <1>2, <1>4, <1>5 DEF Live, Apart, Types
<1>8. CASE Goto(w, "top") /\ life' = life
  <2>1. Moves(w, "top", thr[w].dev)
    BY <1>2, <1>8, GotoIs DEF Places
  <2>2. OwnStep(w, "top", card'[w])
    BY <1>1, <1>4, <1>5, <1>6, <1>7 DEF OwnStep, Locking
  <2> QED BY <1>2, <1>6, <1>7, <1>8, <2>1, <2>2, OwnInv
<1>9. CASE Goto(w, "engine") /\ life' = [life EXCEPT ![w] = w]
  <2>1. Moves(w, "engine", thr[w].dev)
    BY <1>2, <1>9, GotoIs DEF Places
  <2>2. LockGoes(w, w)
    BY <1>2, <1>9 DEF LockGoes, Types
  <2> QED BY <1>1, <1>4, <1>5, <1>6, <1>7, <2>1, <2>2, BuilderInv
<1> QED BY <1>8, <1>9 DEF Rebuild

\* A loaded engine replaces the one that was there.
LEMMA LoadedIs ==
    ASSUME NEW c \in Card, card[c] \in CardRec, NEW m \in Model \cup {None}, NEW res
    PROVE  LET s == Loaded(c, m, res) IN
           /\ s \in CardRec /\ s.tier = card[c].tier
           /\ (card[c].installed = None => s.installed = None) /\ (card[c].walk = None => s.walk = None)
           /\ (card[c].built = None => s.built = None)
<1> DEFINE u == Unloaded(card[c])
           e == IF res = "ok" THEN [model |-> m, full |-> TRUE] ELSE None
           s == [u EXCEPT !.engine = e]
<1>1. CASE Hosts(c, m)
  BY <1>1 DEF Loaded
<1>2. CASE ~Hosts(c, m)
  <2>1. /\ u \in CardRec /\ u.tier = card[c].tier
        /\ (card[c].installed = None => u.installed = None) /\ (card[c].walk = None => u.walk = None)
        /\ (card[c].built = None => u.built = None)
    BY UnloadedIs
  <2>2. e \in EngineRec \cup {None}
    BY DEF EngineRec
  <2>3. Loaded(c, m, res) = s
    BY <1>2 DEF Loaded
  <2> HIDE DEF u, e
  <2>4. /\ s \in CardRec /\ s.tier = u.tier /\ s.installed = u.installed /\ s.walk = u.walk /\ s.built = u.built
    BY <2>1, <2>2 DEF CardRec
  <2> HIDE DEF s
  <2> QED BY <2>1, <2>3, <2>4
<1> QED BY <1>1, <1>2

\* The miner under construction is over the engine's weights or over a copy.
LEMMA BuiltIs ==
    ASSUME Types, NEW w \in Card, NEW s \in CardRec, s.tier = card[w].tier, s.installed = None, s.walk = None,
           NEW over \in {"raw", "engine"}
    PROVE  LET r == [s EXCEPT !.built = Built(w, over)] IN
           r \in CardRec /\ r.installed = None /\ r.walk = None /\ r.engine = s.engine /\ r.tier = s.tier /\ Live(r)
<1> DEFINE b == Built(w, over)
           r == [s EXCEPT !.built = b]
<1>1. b \in Miner /\ b.model = card[w].tier /\ b.over # "freed"
  BY RecordIs DEF Built, Miner
<1> HIDE DEF b
<1>2. r \in CardRec /\ r.installed = None /\ r.walk = None /\ r.built = b /\ r.engine = s.engine /\ r.tier = s.tier
  BY <1>1 DEF CardRec
<1> HIDE DEF r
<1>3. Live(r)
  BY <1>1, <1>2 DEF Live
<1> QED BY <1>2, <1>3 DEF r, b

\* The engine comes up, or the miner will copy the weights.
LEMMA HostEngineKeeps == ASSUME CardsInv, NEW w \in rig.cards, HostEngine(w) PROVE CardsInv'
<1> DEFINE m == card[w].tier
<1>1. /\ thr[w].pc = "engine" /\ Goto(w, "build") /\ life' = life
      /\ rig' = rig /\ slot' = slot /\ job' = job /\ served' = served
  BY DEF HostEngine, lockVars
<1>2. /\ Types /\ MinerInv /\ w \in Card /\ w \in Thread /\ card[w] \in CardRec
      /\ card[w].installed = None /\ card[w].walk = None /\ life[w] = w
  BY <1>1, BuilderIs
<1>3. Moves(w, "build", thr[w].dev)
  BY <1>1, <1>2, GotoIs DEF Places
<1>4. LockGoes(w, w) /\ Apart
  BY <1>1, <1>2 DEF LockGoes, Types, Apart
<1>5. PICK s \in CardRec, over \in {"raw", "engine"} :
         /\ card' = [card EXCEPT ![w] = [s EXCEPT !.built = Built(w, over)]]
         /\ s.tier = card[w].tier /\ s.installed = None /\ s.walk = None
         /\ slot[w] = None \/ s.engine = card[w].engine
  <2>1. CASE card' = [card EXCEPT ![w].built = Built(w, "raw")]
    <3>1. card' = [card EXCEPT ![w] = [card[w] EXCEPT !.built = Built(w, "raw")]]
      BY <2>1
    <3> QED BY <1>2, <3>1
  <2>2. ASSUME NEW res, EnsureLoaded(w, m, res),
               card' = [card EXCEPT ![w] = [Loaded(w, m, res) EXCEPT
                          !.built = Built(w, IF res = "ok" THEN "engine" ELSE "raw")]]
        PROVE  \E s \in CardRec, over \in {"raw", "engine"} :
                 /\ card' = [card EXCEPT ![w] = [s EXCEPT !.built = Built(w, over)]]
                 /\ s.tier = card[w].tier /\ s.installed = None /\ s.walk = None
                 /\ slot[w] = None \/ s.engine = card[w].engine
    <3> DEFINE s == Loaded(w, m, res)
               over == IF res = "ok" THEN "engine" ELSE "raw"
    <3>1. m \in Model
      BY <1>2, RecordIs
    <3>2. s \in CardRec /\ s.tier = card[w].tier /\ s.installed = None /\ s.walk = None
      BY <1>2, <3>1, LoadedIs
    <3>3. slot[w] = None
      BY <2>2 DEF EnsureLoaded, CanLoad
    <3>4. over \in {"raw", "engine"}
      OBVIOUS
    <3>5. card' = [card EXCEPT ![w] = [s EXCEPT !.built = Built(w, over)]]
      BY <2>2
    <3> HIDE DEF s, over
    <3> QED BY <3>2, <3>3, <3>4, <3>5
  <2> QED BY <2>1, <2>2 DEF HostEngine
<1> DEFINE r == [s EXCEPT !.built = Built(w, over)]
<1>6. /\ r \in CardRec /\ r.installed = None /\ r.walk = None /\ r.engine = s.engine /\ Live(r)
  BY <1>2, <1>5, BuiltIs
<1>7. card' = [card EXCEPT ![w] = r]
  BY <1>5
<1> HIDE DEF r
<1>8. OthersKeep(w) /\ card'[w] = r /\ EnginesKept
  BY <1>2, <1>5, <1>6, <1>7, SameEngine
<1> QED BY <1>1, <1>2, <1>3, <1>4, <1>6, <1>8, BuilderInv

\* A gate unloads the engine under the miner that is being built.
LEMMA GateKeeps == ASSUME CardsInv, NEW w \in rig.cards, Gate(w) PROVE CardsInv'
<1> DEFINE s == Unloaded(card[w])
           r == [s EXCEPT !.built = Built(w, "raw")]
<1>1. /\ thr[w].pc = "build" /\ thr' = thr /\ life' = life /\ slot[w] = None
      /\ card' = [card EXCEPT ![w] = r]
      /\ rig' = rig /\ slot' = slot /\ job' = job /\ served' = served
  BY DEF Gate, lockVars
<1>2. /\ Types /\ MinerInv /\ w \in Card /\ w \in Thread /\ card[w] \in CardRec
      /\ card[w].installed = None /\ card[w].walk = None /\ life[w] = w
  BY <1>1, BuilderIs
<1>3. Moves(w, "build", thr[w].dev)
  BY <1>1, <1>2 DEF Moves, Types, Threads
<1>4. LockGoes(w, w) /\ Apart
  BY <1>1, <1>2 DEF LockGoes, Types, Apart
<1>5. s \in CardRec /\ s.tier = card[w].tier /\ s.installed = None /\ s.walk = None
  BY <1>2, UnloadedIs
<1> HIDE DEF s
<1>6. /\ r \in CardRec /\ r.installed = None /\ r.walk = None /\ Live(r)
  BY <1>2, <1>5, BuiltIs
<1> HIDE DEF r
<1>7. OthersKeep(w) /\ card'[w] = r /\ EnginesKept
  BY <1>1, <1>2, <1>6, SameEngine
<1> QED BY <1>1, <1>2, <1>3, <1>4, <1>6, <1>7, BuilderInv

\* install, a failed build, and a downgrade that leaves no miner of the larger model.
LEMMA BuildKeeps == ASSUME CardsInv, NEW w \in rig.cards, Build(w) PROVE CardsInv'
<1> DEFINE m == card[w].tier
<1>1. /\ thr[w].pc = "build" /\ Goto(w, "top") /\ Release(w)
      /\ rig' = rig /\ slot' = slot /\ job' = job /\ served' = served
  BY DEF Build, modelVars
<1>2. /\ Types /\ MinerInv /\ w \in Card /\ w \in Thread /\ card[w] \in CardRec
      /\ card[w].installed = None /\ card[w].walk = None /\ life[w] = w
  BY <1>1, BuilderIs
<1>3. Moves(w, "top", thr[w].dev)
  BY <1>1, <1>2, GotoIs DEF Places
<1>4. LockGoes(w, None) /\ Apart
  BY <1>1, <1>2 DEF LockGoes, Types, Apart, Release
<1>5. ASSUME NEW i \in {None, card[w].built}, NEW n \in Model, n = m \/ i = None,
             card' = [card EXCEPT ![w] = [card[w] EXCEPT !.installed = i, !.built = None, !.tier = n]]
      PROVE  CardsInv'
  <2> DEFINE r == [card[w] EXCEPT !.installed = i, !.built = None, !.tier = n]
  <2>1. i \in Miner \cup {None}
    BY <1>2, RecordIs
  <2>2. /\ r \in CardRec /\ r.installed = i /\ r.built = None /\ r.walk = None /\ r.tier = n
        /\ r.engine = card[w].engine
    BY <1>2, <2>1 DEF CardRec
  <2> HIDE DEF r
  <2>3. card' = [card EXCEPT ![w] = r]
    BY <1>5 DEF r
  <2>4. OthersKeep(w) /\ card'[w] = r /\ EnginesKept
    BY <1>2, <2>2, <2>3, SameEngine
  <2>5. Live(r)
    BY <1>2, <1>5, <2>2 DEF MinerInv, Live
  <2> QED BY <1>1, <1>2, <1>3, <1>4, <2>2, <2>4, <2>5, BuilderInv
<1>6. m \in Model
  BY <1>2, RecordIs
<1>7. CASE card' = [card EXCEPT ![w] = [@ EXCEPT !.installed = card[w].built, !.built = None]]
  <2>1. [card[w] EXCEPT !.installed = card[w].built, !.built = None]
          = [card[w] EXCEPT !.installed = card[w].built, !.built = None, !.tier = m]
    BY <1>2 DEF CardRec
  <2>2. card' = [card EXCEPT ![w] = [card[w] EXCEPT !.installed = card[w].built, !.built = None]]
    BY <1>7
  <2> QED BY <1>5, <1>6, <2>1, <2>2
<1>8. CASE card' = [card EXCEPT ![w].built = None]
  <2>1. [card[w] EXCEPT !.built = None] = [card[w] EXCEPT !.installed = None, !.built = None, !.tier = m]
    BY <1>2 DEF CardRec
  <2>2. card' = [card EXCEPT ![w] = [card[w] EXCEPT !.built = None]]
    BY <1>8
  <2> QED BY <1>5, <1>6, <2>1, <2>2
<1>9. CASE card' = [card EXCEPT ![w] = [@ EXCEPT !.built = None, !.tier = Downgraded(w, m, job[w])]]
  <2> DEFINE n == Downgraded(w, m, job[w])
  <2>1. n \in Model
    BY <1>2, <1>6, DowngradedIs DEF Types
  <2>2. card' = [card EXCEPT ![w] = [card[w] EXCEPT !.built = None, !.tier = n]]
    BY <1>9
  <2> HIDE DEF n
  <2>3. [card[w] EXCEPT !.built = None, !.tier = n] = [card[w] EXCEPT !.installed = None, !.built = None, !.tier = n]
    BY <1>2, <2>1 DEF CardRec
  <2> QED BY <1>5, <2>1, <2>2, <2>3
<1> QED BY <1>7, <1>8, <1>9 DEF Build

-----------------------------------------------------------------------------
\* The servers.

\* A thread that holds no card pauses one more.
LEMMA PausedKeeps ==
    ASSUME CardsInv, NEW t \in Thread, NEW c \in Card, NEW e \in ThrRec, Pause(t, c, e), life' = life, Apart,
           thr[t].pc \notin Locking \cup {"shrink", "walk"}, e.pc \in {"resident", "swap"}
    PROVE  CardsInv'
<1>1. Types /\ MinerInv
  BY DEF CardsInv
<1>2. KeepMiners /\ EnginesKept /\ Moves(t, e.pc, e.dev)
  BY <1>1, PauseIs DEF EnginesKept
<1>3. Idles(t, e.pc)
  BY <1>1, IdlesIs DEF Locking
<1> QED BY <1>2, <1>3, QuietInv

\* It is done.
LEMMA ReturnedIs ==
    ASSUME CardsInv, NEW t \in Thread, NEW a, Return(t, card, a),
           thr[t].pc \notin Locking \cup {"shrink", "walk"}
    PROVE  KeepMiners /\ (\A d \in Card : card'[d].engine = card[d].engine) /\ Moves(t, "top", 0) /\ Idles(t, "top")
<1>1. Types /\ MinerInv /\ card \in [Card -> CardRec]
  BY DEF CardsInv, Types, Cards
<1>2. Idles(t, "top")
  BY <1>1, IdlesIs DEF Locking
<1> QED BY <1>1, <1>2, ReturnIs DEF KeepMiners

\* Who holds no card and is done changes no miner.
LEMMA ReturnedKeeps ==
    ASSUME CardsInv, NEW t \in Thread, NEW a, Return(t, card, a), life' = life, Apart,
           thr[t].pc \notin Locking \cup {"shrink", "walk"}
    PROVE  CardsInv'
<1>1. KeepMiners /\ EnginesKept /\ Moves(t, "top", 0) /\ Idles(t, "top")
  BY ReturnedIs DEF EnginesKept
<1> QED BY <1>1, QuietInv

\* A server is a thread.
LEMMA ServerIs == ASSUME Types, NEW t \in Server \cup {Prober} PROVE t \in Thread /\ served \subseteq Model
BY DEF Thread, Types

\* A request or an opening pauses the card that mines its model.
LEMMA ServeKeeps == ASSUME CardsInv, NEW s \in Server, Serve(s) PROVE CardsInv'
<1>1. Types /\ MinerInv /\ s \in Thread /\ served \subseteq Model
  BY ServerIs DEF CardsInv
<1>2. /\ thr[s].pc = "top" /\ life' = life /\ Apart
  BY <1>1 DEF Serve, lockVars, modelVars, Apart
<1>3. PICK m \in served, kind \in rig.serves :
         Pause(s, DeviceFor(m), [thr[s] EXCEPT !.pc = "resident", !.kind = kind, !.model = m])
  BY DEF Serve
<1> DEFINE e == [thr[s] EXCEPT !.pc = "resident", !.kind = kind, !.model = m]
<1>4. kind \in {"request", "opening"}
  <2>1. rig \in Rig
    BY <1>1, CardsAssumption DEF Types
  <2> QED BY <2>1 DEF Rig
<1>5. e \in ThrRec /\ e.pc = "resident"
  <2>1. thr[s] \in ThrRec /\ m \in Model
    BY <1>1, ThreadIs
  <2> QED BY <1>4, <2>1 DEF ThrRec, Places
<1>6. Pause(s, DeviceFor(m), e)
  BY <1>3
<1> HIDE DEF e
<1>7. DeviceFor(m) \in Card
  BY <1>1, DeviceIs
<1> QED BY <1>1, <1>2, <1>5, <1>6, <1>7, PausedKeeps DEF Locking

\* A probe falls due, or pauses the card that mines its model.
LEMMA ProbeKeeps == ASSUME CardsInv, NEW m \in Model, ProbeDue(m) \/ Probe(m) PROVE CardsInv'
<1>1. Types /\ MinerInv /\ Prober \in Thread /\ served \subseteq Model
  BY ServerIs DEF CardsInv
<1>2. life' = life /\ Apart /\ rig' = rig /\ slot' = slot /\ served' = served /\ job' \in [Card -> Era]
  BY <1>1 DEF ProbeDue, Probe, lockVars, Apart, Types
<1>3. CASE card' = card /\ thr' = thr
  BY <1>2, <1>3, SameInv
<1>4. CASE /\ ~Serving
           /\ Pause(Prober, DeviceFor(m), [thr[Prober] EXCEPT !.pc = "resident", !.kind = "probe", !.model = m])
  <2> DEFINE e == [thr[Prober] EXCEPT !.pc = "resident", !.kind = "probe", !.model = m]
  <2>1. e \in ThrRec /\ e.pc = "resident"
    <3>1. thr[Prober] \in ThrRec
      BY <1>1, ThreadIs
    <3> QED BY <3>1 DEF ThrRec, Places
  <2>2. Pause(Prober, DeviceFor(m), e)
    BY <1>4
  <2> HIDE DEF e
  <2>3. DeviceFor(m) \in Card
    BY <1>1, DeviceIs
  <2>4. thr[Prober].pc = "top"
    BY <1>4 DEF Serving
  <2> QED BY <1>1, <1>2, <2>1, <2>2, <2>3, <2>4, PausedKeeps DEF Locking
<1> QED BY <1>3, <1>4 DEF ProbeDue, Probe

\* resident_engine: the engine is there, cannot come, or has to be loaded.
LEMMA ResidentKeeps == ASSUME CardsInv, NEW t \in Server \cup {Prober}, Resident(t) PROVE CardsInv'
<1> DEFINE m == thr[t].model
           c == DeviceFor(m)
<1>1. Types /\ MinerInv /\ t \in Thread /\ served \subseteq Model /\ thr[t] \in ThrRec /\ c \in Card
  BY ServerIs, ThreadIs, DeviceIs DEF CardsInv
<1>2. /\ thr[t].pc = "resident" /\ life' = life /\ Apart
  BY <1>1 DEF Resident, lockVars, Apart
<1> HIDE DEF c
<1>3. CASE thr' = [thr EXCEPT ![t] = [@ EXCEPT !.pc = "generate", !.dev = c]] /\ card' = card
  <2> DEFINE e == [thr[t] EXCEPT !.pc = "generate", !.dev = c]
  <2>1. e \in ThrRec /\ e.pc = "generate" /\ e.dev = c
    BY <1>1 DEF ThrRec, Places
  <2>2. thr' = [thr EXCEPT ![t] = e]
    BY <1>3
  <2> HIDE DEF e
  <2>3. Moves(t, "generate", c)
    BY <1>1, <2>1, <2>2, ReplacedIs
  <2>4. Idles(t, "generate")
    BY <1>1, <1>2, IdlesIs DEF Locking
  <2> QED BY <1>1, <1>2, <1>3, <2>3, <2>4, NothingKept, QuietInv
<1>4. CASE Return(t, card, Withdrawn(m, "llama_library_unusable"))
  BY <1>1, <1>2, <1>4, ReturnedKeeps DEF Locking
<1>5. CASE Pause(t, c, [thr[t] EXCEPT !.pc = "swap", !.dev = c])
  <2> DEFINE e == [thr[t] EXCEPT !.pc = "swap", !.dev = c]
  <2>1. e \in ThrRec /\ e.pc = "swap"
    BY <1>1 DEF ThrRec, Places
  <2>2. Pause(t, c, e)
    BY <1>5
  <2> HIDE DEF e
  <2> QED BY <1>1, <1>2, <2>1, <2>2, PausedKeeps DEF Locking
<1> QED BY <1>3, <1>4, <1>5 DEF Resident, c

\* The swap lock alone protects no miner.
LEMMA SwapKeeps == ASSUME CardsInv, NEW t \in Server \cup {Prober}, Swap(t) PROVE CardsInv'
<1>1. Types /\ MinerInv /\ t \in Thread /\ served \subseteq Model
  BY ServerIs DEF CardsInv
<1>2. /\ thr[t].pc = "swap" /\ Goto(t, "evict") /\ card' = card /\ life' = life /\ Apart
  BY <1>1 DEF Swap, modelVars, Apart
<1>3. Moves(t, "evict", thr[t].dev)
  BY <1>1, <1>2, GotoIs DEF Places
<1>4. Idles(t, "evict")
  BY <1>1, <1>2, IdlesIs DEF Locking
<1> QED BY <1>1, <1>2, <1>3, <1>4, NothingKept, QuietInv

\* load_llama_for_inference uninstalls, or is refused.
LEMMA EvictKeeps == ASSUME CardsInv, NEW t \in Server \cup {Prober}, Evict(t) PROVE CardsInv'
<1> DEFINE c == thr[t].dev
<1>1. Types /\ MinerInv /\ t \in Thread /\ served \subseteq Model /\ c \in Card
  BY ServerIs, ThreadIs DEF CardsInv
<1>2. thr[t].pc = "evict" /\ Apart
  BY <1>1 DEF Evict, Apart
<1>3. CASE Uninstall(t, c, "evict_wait", "load")
  BY <1>1, <1>2, <1>3, UninstallKeeps
<1>4. CASE Refused(t) /\ life' = life
  <2>1. Return(t, card, Withdrawn(thr[t].model, "llama_load_failed"))
    BY <1>4 DEF Refused
  <2> QED BY <1>1, <1>2, <1>4, <2>1, ReturnedKeeps DEF Locking
<1> QED BY <1>3, <1>4 DEF Evict

\* It waits for the walk, or quarantines the miner and gives up.
LEMMA EvictWaitKeeps == ASSUME CardsInv, NEW t \in Server \cup {Prober}, EvictWait(t) PROVE CardsInv'
<1> DEFINE c == thr[t].dev
<1>1. Types /\ MinerInv /\ t \in Thread /\ served \subseteq Model /\ c \in Card
  BY ServerIs, ThreadIs DEF CardsInv
<1>2. thr[t].pc = "evict_wait" /\ Apart /\ Waits(t, c)
  BY <1>1 DEF EvictWait, Apart, Waits
<1>3. CASE SoleOwner(t, c, "load")
  BY <1>1, <1>2, <1>3, SoleOwnerKeeps
<1>4. CASE /\ Walking(c) /\ Release(c)
           /\ Return(t, [card EXCEPT ![c].draining = TRUE], Withdrawn(thr[t].model, "llama_load_failed"))
  <2> DEFINE r == [card[c] EXCEPT !.draining = TRUE]
             cs == [card EXCEPT ![c] = r]
             a == Withdrawn(thr[t].model, "llama_load_failed")
  <2>1. r \in CardRec /\ r.engine = card[c].engine
    <3>1. card[c] \in CardRec
      BY <1>1, RecordIs
    <3> QED BY <3>1 DEF CardRec
  <2> HIDE DEF c
  <2>2. /\ cs \in [Card -> CardRec] /\ cs[c] = r /\ \A d \in Card : d # c => cs[d] = card[d]
    <3> HIDE DEF r
    <3> QED BY <1>1, <2>1 DEF Types, Cards
  <2>3. Return(t, cs, a)
    BY <1>4
  <2> HIDE DEF cs, a
  <2>4. /\ Cards' /\ \A d \in Card : SameMiners(cs[d], card'[d]) /\ card'[d].engine = cs[d].engine
        /\ Moves(t, "top", 0)
    BY <1>1, <2>2, <2>3, ReturnIs
  <2>5. EnginesKept
    BY <2>1, <2>2, <2>4 DEF EnginesKept
  <2>6. SameMiners(r, card'[c]) /\ \A d \in Card : d # c => SameMiners(card[d], card'[d])
    BY <1>1, <2>2, <2>4
  <2> QED BY <1>1, <1>2, <1>4, <2>4, <2>5, <2>6, QuarantineKeeps
<1> QED BY <1>3, <1>4 DEF EvictWait

\* It frees the old engine when no miner is left on the card.
LEMMA LoadKeeps == ASSUME CardsInv, NEW t \in Server \cup {Prober}, Load(t) PROVE CardsInv'
<1> DEFINE m == thr[t].model
           c == thr[t].dev
<1>1. /\ Types /\ MinerInv /\ t \in Thread /\ served \subseteq Model
      /\ thr[t] \in ThrRec /\ c \in Card /\ card[c] \in CardRec /\ m \in Model \cup {None}
  BY ServerIs, ThreadIs, RecordIs DEF CardsInv
<1>2. thr[t].pc = "load" /\ Release(c) /\ Apart
  BY <1>1 DEF Load, Apart
<1>3. PICK res : /\ CanLoad(c, m)
                 /\ \/ /\ card' = [[card EXCEPT ![c] = Loaded(c, m, res)] EXCEPT ![c].pauses = @ - 1]
                       /\ thr' = [thr EXCEPT ![t].pc = "generate", ![t].held[c] = @ - 1]
                    \/ Return(t, [card EXCEPT ![c] = Loaded(c, m, res)], Withdrawn(m, "llama_load_failed"))
  BY DEF Load, EnsureLoaded
<1>4. card[c].installed = None /\ card[c].walk = None /\ card[c].built = None
  BY <1>1, <1>2, DrainedIs
<1> DEFINE s == Loaded(c, m, res)
           cs == [card EXCEPT ![c] = s]
<1>5. s \in CardRec /\ s.installed = None /\ s.walk = None /\ s.built = None
  BY <1>1, <1>4, LoadedIs
<1> HIDE DEF c, s
<1>6. /\ cs \in [Card -> CardRec] /\ cs[c] = s /\ \A d \in Card : d # c => cs[d] = card[d]
  BY <1>1, <1>5 DEF Types, Cards
<1>7. slot[c] = None
  BY <1>3 DEF CanLoad
<1>8. CASE Return(t, cs, Withdrawn(m, "llama_load_failed"))
  <2> HIDE DEF cs
  <2>1. /\ Cards' /\ \A d \in Card : SameMiners(cs[d], card'[d]) /\ card'[d].engine = cs[d].engine
        /\ Moves(t, "top", 0)
    BY <1>1, <1>6, <1>8, ReturnIs
  <2>2. EnginesKept /\ OthersKeep(c)
    BY <1>6, <1>7, <2>1 DEF EnginesKept, OthersKeep
  <2>3. card'[c].installed = None /\ card'[c].walk = None /\ card'[c].built = None
    BY <1>1, <1>5, <1>6, <2>1 DEF SameMiners
  <2> QED BY <1>1, <1>2, <2>1, <2>2, <2>3, FreedKeeps DEF c
<1>9. CASE /\ card' = [cs EXCEPT ![c].pauses = @ - 1]
           /\ thr' = [thr EXCEPT ![t].pc = "generate", ![t].held[c] = @ - 1]
  <2> DEFINE n == s.pauses - 1
             r == [s EXCEPT !.pauses = n]
             g == [thr[t].held EXCEPT ![c] = thr[t].held[c] - 1]
             e == [thr[t] EXCEPT !.pc = "generate", !.held = g]
  <2>1. n \in Int
    BY <1>5 DEF CardRec
  <2>2. card' = [card EXCEPT ![c] = r]
    BY <1>1, <1>6, <1>9 DEF Types, Cards
  <2> HIDE DEF n
  <2>3. r \in CardRec /\ r.installed = None /\ r.walk = None /\ r.built = None
    BY <1>5, <2>1 DEF CardRec
  <2> HIDE DEF r
  <2>4. OthersKeep(c) /\ card'[c] = r /\ EnginesKept
    BY <1>1, <1>7, <2>2, <2>3, SameEngine
  <2>5. g \in [Card -> Int]
    BY <1>1, ThreadIs
  <2>6. thr' = [thr EXCEPT ![t] = e]
    BY <1>9
  <2> HIDE DEF g
  <2>7. e \in ThrRec /\ e.pc = "generate"
    BY <1>1, <2>5 DEF ThrRec, Places
  <2> HIDE DEF e
  <2>8. Moves(t, "generate", e.dev)
    BY <1>1, <2>6, <2>7, ReplacedIs
  <2> QED BY <1>1, <1>2, <2>3, <2>4, <2>8, FreedKeeps DEF c
<1> QED BY <1>3, <1>8, <1>9 DEF s

\* A slot is taken or left by the thread that moves, and no engine goes.
LEMMA SlotMoves ==
    ASSUME Types, SlotsHeld, NEW t \in Thread, NEW pc, NEW dev, Moves(t, pc, dev),
           \A u \in Thread, d \in Card : u # t /\ slot[d] = u => slot'[d] = u,
           pc \in {"context", "run"} => slot'[dev] = t,
           pc = "context" => card'[dev].engine \in EngineRec,
           \A d \in Card : card[d].engine \in EngineRec => card'[d].engine \in EngineRec
    PROVE  SlotsHeld'
<1> SUFFICES ASSUME NEW u \in Thread
             PROVE  /\ thr'[u].pc \in {"context", "run"} => slot'[thr'[u].dev] = u
                    /\ thr'[u].pc = "context" => card'[thr'[u].dev].engine \in EngineRec
  BY DEF SlotsHeld
<1>1. CASE u = t
  BY <1>1 DEF Moves
<1>2. CASE u # t
  <2>1. thr'[u] = thr[u] /\ thr[u].dev \in Card
    BY <1>2, ThreadIs DEF Moves
  <2> QED BY <1>2, <2>1 DEF SlotsHeld
<1> QED BY <1>1, <1>2

\* No miner and no lifecycle lock changes hands, a slot may.
LEMMA SlotInv ==
    ASSUME CardsInv, NEW t \in Thread, NEW pc, NEW dev, Moves(t, pc, dev), KeepMiners, life' = life,
           Idles(t, pc), SlotsHeld', rig' = rig, job' = job, served' = served,
           slot' \in [Card -> Thread \cup {None}]
    PROVE  CardsInv'
<1>1. Types /\ MinerInv
  BY DEF CardsInv
<1>2. MinerInv'
  BY <1>1, QuietStep
<1>3. Types'
  <2>1. life' \in [Card -> Thread \cup {None}] /\ job' \in [Card -> Era] /\ served' \subseteq Model
    BY <1>1 DEF Types
  <2> QED BY <1>1, <2>1, TypesKept DEF Moves, KeepMiners
<1> QED BY <1>2, <1>3 DEF CardsInv

\* The thread that has a slot leaves it when it is done.
LEMMA LeavesSlot ==
    ASSUME CardsInv, NEW t \in Thread, NEW a, Return(t, card, a), thr[t].pc \in {"context", "run"},
           slot' = [slot EXCEPT ![thr[t].dev] = None],
           life' = life, rig' = rig, job' = job, served' = served
    PROVE  CardsInv'
<1>1. Types /\ MinerInv /\ SlotsHeld /\ thr[t].dev \in Card
  BY ThreadIs DEF CardsInv
<1>2. KeepMiners /\ (\A d \in Card : card'[d].engine = card[d].engine) /\ Moves(t, "top", 0) /\ Idles(t, "top")
  BY ReturnedIs DEF Locking
<1>3. slot[thr[t].dev] = t
  BY <1>1 DEF SlotsHeld
<1>4. /\ slot' \in [Card -> Thread \cup {None}]
      /\ \A u \in Thread, d \in Card : u # t /\ slot[d] = u => slot'[d] = u
  BY <1>1, <1>3 DEF Types
<1>5. SlotsHeld'
  BY <1>1, <1>2, <1>4, SlotMoves
<1> QED BY <1>2, <1>4, <1>5, SlotInv

\* generate takes the slot of a card that hosts its model.
LEMMA GenerateKeeps == ASSUME CardsInv, NEW t \in Server \cup {Prober}, Generate(t) PROVE CardsInv'
<1> DEFINE c == thr[t].dev
<1>1. Types /\ MinerInv /\ SlotsHeld /\ t \in Thread /\ served \subseteq Model /\ c \in Card
  BY ServerIs, ThreadIs DEF CardsInv
<1>2. /\ thr[t].pc = "generate" /\ slot[c] = None
      /\ life' = life /\ rig' = rig /\ job' = job /\ served' = served
  BY DEF Generate
<1>3. CASE Hosts(c, thr[t].model) /\ slot' = [slot EXCEPT ![c] = t] /\ Goto(t, "context") /\ card' = card
  <2>1. Moves(t, "context", c)
    BY <1>1, <1>3, GotoIs DEF Places
  <2>2. Idles(t, "context")
    BY <1>1, <1>2, IdlesIs DEF Locking
  <2>3. /\ slot' \in [Card -> Thread \cup {None}] /\ slot'[c] = t
        /\ \A u \in Thread, d \in Card : u # t /\ slot[d] = u => slot'[d] = u
    <3>1. \A u \in Thread : u # None
      BY <1>1, RigIs
    <3> QED BY <1>1, <1>2, <1>3, <3>1 DEF Types
  <2>4. card[c].engine \in EngineRec
    BY <1>1, <1>3, RecordIs DEF Hosts
  <2>5. SlotsHeld'
    BY <1>1, <1>3, <2>1, <2>3, <2>4, SlotMoves
  <2>6. KeepMiners
    BY <1>1, <1>3, NothingKept
  <2> QED BY <1>1, <1>2, <2>1, <2>2, <2>3, <2>5, <2>6, SlotInv
<1>4. CASE slot' = slot /\ Return(t, card, away)
  <2>1. Apart
    BY <1>1, <1>2, <1>4 DEF Apart
  <2> QED BY <1>1, <1>2, <1>4, <2>1, ReturnedKeeps DEF Locking
<1> QED BY <1>3, <1>4 DEF Generate

\* ensure_full_context changes the engine's context, not the engine.
LEMMA FullContextKeeps == ASSUME CardsInv, NEW t \in Server \cup {Prober}, FullContext(t) PROVE CardsInv'
<1> DEFINE c == thr[t].dev
<1>1. Types /\ MinerInv /\ SlotsHeld /\ t \in Thread /\ c \in Card /\ card[c] \in CardRec
  BY ServerIs, ThreadIs, RecordIs DEF CardsInv
<1>2. thr[t].pc = "context" /\ life' = life /\ rig' = rig /\ job' = job /\ served' = served
  BY DEF FullContext
<1>3. slot[c] = t /\ card[c].engine \in EngineRec
  BY <1>1, <1>2 DEF SlotsHeld
<1>4. CASE card' = [card EXCEPT ![c].engine.full = TRUE] /\ Goto(t, "run") /\ slot' = slot
  <2> DEFINE n == [card[c].engine EXCEPT !.full = TRUE]
             r == [card[c] EXCEPT !.engine = n]
  <2>1. n \in EngineRec
    BY <1>3 DEF EngineRec
  <2>2. card' = [card EXCEPT ![c] = r]
    BY <1>4
  <2> HIDE DEF n
  <2>3. r \in CardRec /\ SameMiners(card[c], r) /\ r.engine \in EngineRec
    BY <1>1, <2>1 DEF CardRec, SameMiners
  <2> HIDE DEF r, c
  <2>4. OthersKeep(c) /\ card'[c] = r /\ \A d \in Card : d # c => card'[d] = card[d]
    BY <1>1, <2>2, <2>3, CardIs
  <2>5. KeepMiners
    BY <2>3, <2>4 DEF KeepMiners, OthersKeep
  <2>6. Moves(t, "run", c)
    BY <1>1, <1>4, GotoIs DEF Places, c
  <2>7. Idles(t, "run")
    BY <1>1, <1>2, IdlesIs DEF Locking
  <2>8. SlotsHeld'
    BY <1>1, <1>3, <1>4, <2>3, <2>4, <2>6, SlotMoves
  <2>9. slot' \in [Card -> Thread \cup {None}]
    BY <1>1, <1>4 DEF Types
  <2> QED BY <1>1, <1>2, <2>5, <2>6, <2>7, <2>8, <2>9, SlotInv
<1>5. CASE slot' = [slot EXCEPT ![c] = None] /\ Return(t, card, away)
  BY <1>1, <1>2, <1>5, LeavesSlot
<1> QED BY <1>4, <1>5 DEF FullContext

\* The call ends and its slot is left.
LEMMA RunKeeps == ASSUME CardsInv, NEW t \in Server \cup {Prober}, Run(t) PROVE CardsInv'
<1>1. Types /\ t \in Thread
  BY ServerIs DEF CardsInv
<1>2. /\ thr[t].pc = "run" /\ slot' = [slot EXCEPT ![thr[t].dev] = None]
      /\ life' = life /\ rig' = rig /\ job' = job /\ served' = served
  BY DEF Run
<1>3. PICK a : Return(t, card, a)
  BY DEF Run
<1> QED BY <1>1, <1>2, <1>3, LeavesSlot

-----------------------------------------------------------------------------
\* The theorem.

\* All of a worker's steps.
LEMMA WorkerKeeps == ASSUME CardsInv, NEW w \in rig.cards, WorkerStep(w) \/ NewTemplate(w) PROVE CardsInv'
BY AdvanceKeeps, CrossKeeps, CrossWaitKeeps, CrossedKeeps, LoopKeeps, ParkKeeps, RebuildKeeps,
   HostEngineKeeps, GateKeeps, BuildKeeps, MineKeeps, ShrinkKeeps, WalkKeeps, NewTemplateKeeps DEF WorkerStep

\* All of a server's steps.
LEMMA ServerKeeps == ASSUME CardsInv, NEW t \in Server \cup {Prober}, ServeStep(t) PROVE CardsInv'
BY ResidentKeeps, SwapKeeps, EvictKeeps, EvictWaitKeeps, LoadKeeps, GenerateKeeps, FullContextKeeps, RunKeeps
   DEF ServeStep

\* A rig starts with nothing on its cards and nobody at work.
LEMMA StartsClean == Init => CardsInv
<1> SUFFICES ASSUME Init PROVE CardsInv
  OBVIOUS
<1>1. /\ rig \in Rigs /\ rig \in Rig /\ Len(Lineup) \in Nat \ {0} /\ Len(Lineup) \in Era
      /\ Lineup[Len(Lineup)] \in [Card -> Model] /\ 0 \in Card
  <2>1. rig \in Rigs /\ rig \in Rig
    BY CardsAssumption DEF Init
  <2>2. Lineup \in Seq([Card -> Model]) /\ Lineup # <<>>
    BY CardsAssumption
  <2>3. Len(Lineup) \in Nat \ {0}
    BY <2>2
  <2>4. Len(Lineup) \in Era
    BY <2>3 DEF Era
  <2> QED BY <2>1, <2>2, <2>3, <2>4, CardsAssumption DEF Era
<1> DEFINE e == [c \in Card |->
                 [tier |-> Lineup[Len(Lineup)][c], installed |-> None, built |-> None,
                  walk |-> None, draining |-> FALSE, engine |-> None, pauses |-> 0]]
<1>2. card = e /\ thr = [t \in Thread |-> Resting]
  BY DEF Init
<1>3. \A c \in Card : /\ card[c] \in CardRec /\ card[c].installed = None /\ card[c].built = None
                      /\ card[c].walk = None
  BY <1>1, <1>2 DEF CardRec
<1>4. Cards
  BY <1>2, <1>3 DEF Cards
<1>5. Resting \in ThrRec /\ Resting.pc = "top"
  BY <1>1 DEF Resting, ThrRec, Places
<1>6. Threads
  BY <1>2, <1>5 DEF Threads
<1>7. job \in [Card -> Era] /\ served \subseteq Model
  BY <1>1 DEF Init, Rig
<1>8. Types
  BY <1>1, <1>4, <1>6, <1>7 DEF Types, Init
<1>9. \A t \in Thread : thr[t].pc = "top"
  BY <1>2, <1>5
<1>10. Card \subseteq Thread
  BY DEF Thread
<1>11. MinerInv
  BY <1>3, <1>9, <1>10 DEF MinerInv, LocksHeld, ClearedFirst, Phases, WalkersKnown, Live, Holds, Clears
<1>12. SlotsHeld
  BY <1>9 DEF SlotsHeld
<1> QED BY <1>8, <1>11, <1>12 DEF CardsInv

\* The invariant says what the property says.
LEMMA InvariantIs == CardsInv => WalksLiveWeights
BY DEF CardsInv, MinerInv, Live, WalksLiveWeights, NoWalkOverFreedWeights, WalksItsModel

\* No launch, no installed miner and no miner under construction gathers over
\* weights an engine has freed, and each walks the model its card is assigned:
\* uninstall's barrier, the quarantine of the miner whose walk outlasts it and the
\* lifecycle lock keep every load, every unload and every change of tier behind
\* the last handle, however many cards, servers and eras there are.
THEOREM WalksStayLive == Spec => []WalksLiveWeights
<1>1. CardsInv /\ [Next]_vars => CardsInv'
  <2> SUFFICES ASSUME CardsInv, [Next]_vars PROVE CardsInv'
    OBVIOUS
  <2>1. CASE \E w \in rig.cards : WorkerStep(w) \/ NewTemplate(w)
    BY <2>1, WorkerKeeps
  <2>2. CASE \E s \in Server : Serve(s)
    BY <2>2, ServeKeeps
  <2>3. CASE \E t \in Server \cup {Prober} : ServeStep(t)
    BY <2>3, ServerKeeps
  <2>4. CASE \E m \in Model : ProbeDue(m) \/ Probe(m)
    BY <2>4, ProbeKeeps
  <2>5. CASE UNCHANGED vars
    <3>1. job \in [Card -> Era]
      BY DEF CardsInv, Types
    <3> QED BY <2>5, <3>1, SameInv DEF vars, lockVars, modelVars
  <2> QED BY <2>1, <2>2, <2>3, <2>4, <2>5 DEF Next
<1> QED BY <1>1, StartsClean, InvariantIs, PTL DEF Spec

=============================================================================
