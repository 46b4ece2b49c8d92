--------------------------- MODULE AttnPhasesProofs ---------------------------
(***************************************************************************)
(* Proofs about AttnPhases, for any tree of blocks, audit depth, windows   *)
(* and delays: the phases the miner holds are those of the chain announced *)
(* last, through any sequence of reorganisations, lost connections, failed *)
(* replays and answers of the node.                                        *)
(***************************************************************************)
EXTENDS AttnPhases, SequenceTheorems, WellFoundedInduction, TLAPS

\* AttnPhases and PendingTrace.
AttnRecord ==
    [txs : Seq(Opening \cup {NoTx}), accepted : Seq(MaybeBlock \cup {Past}), path : Seq(Nat),
     children : Seq(MaybeBlock), deadline : Nat, opened : BOOLEAN,
     dropped : SUBSET (Opening \cup {NoTx}), late : SUBSET ((Opening \cup {NoTx}) \X Block)]

PendingTrace ==
    [acc : MaybeBlock, draw : TraceDraw \cup {None}, opening : MaybeBlock, openingDeadline : Nat,
     built : SUBSET Block, phase : Opening \cup {NoTx}, attn : AttnRecord \cup {None},
     awaits : {"unknown", "yes", "no"}]

\* The node has no block without its parent, and the descent on a chain starts at
\* the block that the rule names: an opening is accepted by a descendant of the
\* seed block it is for.
NodeInv ==
    /\ {tip, view} \subseteq Block
    /\ mined \in [Block -> Descent \cup {Unmined}]
    /\ mined[tip] # Unmined /\ mined[view] # Unmined
    /\ \A b \in Block : mined[b] # Unmined =>
          /\ Parent[b] # NoBlock => mined[Parent[b]] # Unmined
          /\ mined[b].seed \in {NoBlock, SeedOf[b]}
          /\ mined[b].takes # NoTx => mined[b].takes.seed \in Chain[b]
    /\ \A b \in missed : b \in Block /\ mined[b] # Unmined
    /\ job \in Opening \cup {NoTx}

\* The phases a of an opening for a seed block, where v is the last tip announced, m the blocks
\* missed and M the blocks mined.
Lengths(a) ==
    /\ Len(a.txs) >= 1 /\ Len(a.accepted) = Len(a.txs) /\ Len(a.children) = Len(a.path)
    /\ Len(a.path) = Len(a.txs) \/ Len(a.path) + 1 = Len(a.txs)

\* The phases before the last of a restored trace have neither a transaction nor
\* the block that drew their child.
Known(a) ==
    \A i \in 1 .. Len(a.txs) : a.txs[i] = NoTx =>
        i < Len(a.txs) /\ a.accepted[i] = Past /\ a.children[i] = NoBlock

AcceptedOn(a, v, m, M) ==
    \A i \in 1 .. Len(a.txs) : a.accepted[i] \in Block =>
        /\ a.accepted[i] \in Chain[v] \cup m
        /\ M[a.accepted[i]].takes = a.txs[i]

DrawnOn(a, v) ==
    \A i \in 1 .. Len(a.path) : a.children[i] # NoBlock =>
        /\ a.accepted[i] \in Block
        /\ a.children[i] = FirstAfter(a.accepted[i], v)
        /\ a.path[i] = ChildOf[a.children[i]]

LateOn(a, v, M) == \A e \in a.late : e[2] \in Chain[v] /\ M[e[2]].takes = e[1]

OpenedFor(a, seed) ==
    \A i \in 1 .. Len(a.txs) : a.txs[i] \in {NoTx, Tx(seed, SubSeq(a.path, 1, i - 1))}

Held(a, seed, v, m, M) ==
    /\ Lengths(a) /\ Known(a) /\ OpenedFor(a, seed)
    /\ AcceptedOn(a, v, m, M) /\ DrawnOn(a, v) /\ LateOn(a, v, M)

\* A trace is drawn, opened and drawn again for the seed block of one accepting
\* block, the one the announced chain has.
Sound(q, v, m, M) ==
    /\ q \in PendingTrace
    /\ q.acc \in {NoBlock, AcceptedBy[v]}
    /\ q.draw # None => q.acc # NoBlock /\ q.draw.seed = FirstAfter(q.acc, v)
    /\ q.opening # NoBlock => q.acc # NoBlock /\ q.opening = FirstAfter(q.acc, q.opening)
    /\ q.attn # None => /\ Depth > 0 /\ q.opening # NoBlock /\ Held(q.attn, q.opening, v, m, M)
                        /\ NextPhaseOwed(q.attn) => q.draw # None /\ q.draw.seed = q.opening

\* The inductive invariant.
DescentInv == NodeInv /\ (p # Gone => Sound(p, view, missed, mined))

-----------------------------------------------------------------------------
\* Chains.

\* The assumptions on the tree, block by block.
LEMMA TreeIs ==
    /\ NoBlock \notin Block /\ Delay \in Nat /\ Delay # 0
    /\ \A b \in Block : Daa[b] \in Nat /\ Parent[b] \in Block \cup {NoBlock}
    /\ \A b \in Block : Parent[b] # NoBlock => Parent[b] \in Block /\ Daa[Parent[b]] < Daa[b]
BY TreeAssumption

\* A chain holds its tip and the parent of each of its blocks, and is in every
\* set of blocks that does.
LEMMA ChainIs ==
    ASSUME NEW t \in Block
    PROVE  /\ Chain[t] \in SUBSET Block /\ t \in Chain[t] /\ Closed(Chain[t])
           /\ \A S \in SUBSET Block : t \in S /\ Closed(S) => Chain[t] \subseteq S
<1>1. Chain[t] = {b \in Block : \A S \in SUBSET Block : t \in S /\ Closed(S) => b \in S}
  BY DEF Chain
<1>2. ASSUME NEW b \in Chain[t], Parent[b] # NoBlock PROVE Parent[b] \in Chain[t]
  <2>1. b \in Block /\ Parent[b] \in Block
    BY <1>1, <1>2, TreeIs
  <2>2. ASSUME NEW S \in SUBSET Block, t \in S, Closed(S) PROVE Parent[b] \in S
    BY <1>1, <1>2, <2>2 DEF Closed
  <2> QED BY <1>1, <2>1, <2>2
<1> QED BY <1>1, <1>2 DEF Closed

\* The chain of a block of a chain is part of it.
LEMMA ChainOfAncestor ==
    ASSUME NEW t \in Block, NEW x \in Chain[t]
    PROVE  x \in Block /\ Chain[x] \subseteq Chain[t]
<1>1. x \in Block
  BY ChainIs
<1> QED BY <1>1, ChainIs

\* A block is on the chain of its child.
LEMMA ChainOfChild ==
    ASSUME NEW b \in Block, Parent[b] # NoBlock
    PROVE  Parent[b] \in Block /\ Chain[Parent[b]] \subseteq Chain[b]
<1>1. Parent[b] \in Block /\ Parent[b] \in Chain[b]
  BY TreeIs, ChainIs DEF Closed
<1> QED BY <1>1, ChainOfAncestor

\* Scores grow along a chain.
LEMMA ScoresGrow ==
    ASSUME NEW t \in Block, NEW x \in Chain[t]
    PROVE  x \in Block /\ (x = t \/ Daa[x] < Daa[t])
<1> DEFINE S == {t} \cup {b \in Block : Daa[b] < Daa[t]}
<1>1. ASSUME NEW b \in S, Parent[b] # NoBlock PROVE Parent[b] \in S
  <2>1. b \in Block /\ Parent[b] \in Block /\ Daa[Parent[b]] < Daa[b] /\ Daa[b] <= Daa[t]
        /\ Daa[b] \in Nat /\ Daa[t] \in Nat /\ Daa[Parent[b]] \in Nat
    BY <1>1, TreeIs
  <2>2. Daa[Parent[b]] < Daa[t]
    BY <2>1
  <2> QED BY <2>1, <2>2
<1>2. Closed(S) /\ S \in SUBSET Block /\ t \in S
  BY <1>1 DEF Closed
<1> HIDE DEF S
<1>3. x \in S
  BY <1>2, ChainIs
<1> QED BY <1>3 DEF S

\* Of two blocks of a chain, one is on the chain of the other.
LEMMA ChainIsOrdered ==
    ASSUME NEW t \in Block, NEW x \in Chain[t], NEW y \in Chain[t]
    PROVE  x \in Chain[y] \/ y \in Chain[x]
<1> DEFINE S == {b \in Chain[t] : y \in Chain[b] \/ b \in Chain[y]}
<1>1. x \in Block /\ y \in Block /\ Chain[t] \in SUBSET Block /\ Closed(Chain[t]) /\ t \in Chain[t]
  BY ChainIs
<1>2. ASSUME NEW b \in S, Parent[b] # NoBlock PROVE Parent[b] \in S
  <2>1. b \in Block /\ b \in Chain[t] /\ Parent[b] \in Chain[t] /\ (y \in Chain[b] \/ b \in Chain[y])
    BY <1>1, <1>2 DEF Closed
  <2>2. CASE b \in Chain[y]
    <3>1. Parent[b] \in Chain[y]
      BY <1>1, <1>2, <2>2, ChainIs DEF Closed
    <3> QED BY <2>1, <3>1
  <2>3. CASE y \in Chain[b] /\ y = b
    BY <1>1, <2>2, <2>3, ChainIs
  <2>4. CASE y \in Chain[b] /\ y # b
    <3> DEFINE P == {b} \cup Chain[Parent[b]]
    <3>1. Parent[b] \in Block
      BY <1>1, <2>1
    <3>2. P \in SUBSET Block /\ b \in P /\ Parent[b] \in P /\ Closed(Chain[Parent[b]])
      BY <2>1, <3>1, ChainIs
    <3>3. Closed(P)
      BY <3>2 DEF Closed
    <3> HIDE DEF P
    <3>4. Chain[b] \subseteq P
      BY <2>1, <3>2, <3>3, ChainIs
    <3>5. y \in Chain[Parent[b]]
      BY <2>4, <3>4 DEF P
    <3> QED BY <2>1, <3>5
  <2> QED BY <2>1, <2>2, <2>3, <2>4
<1>3. Closed(S) /\ S \in SUBSET Block /\ t \in S
  BY <1>1, <1>2 DEF Closed
<1> HIDE DEF S
<1>4. x \in S
  BY <1>3, ChainIs
<1> QED BY <1>4 DEF S

\* The block of a chain with the smaller score is on the chain of the other.
LEMMA EarlierOnChain ==
    ASSUME NEW t \in Block, NEW x \in Chain[t], NEW y \in Chain[t], Daa[x] <= Daa[y]
    PROVE  x \in Chain[y]
<1>1. x \in Block /\ y \in Block /\ x \in Chain[x] /\ Daa[x] \in Nat /\ Daa[y] \in Nat
  BY ChainIs, TreeIs
<1>2. CASE y \in Chain[x]
  <2>1. y = x \/ Daa[y] < Daa[x]
    BY <1>1, <1>2, ScoresGrow
  <2>2. ~(Daa[y] < Daa[x])
    BY <1>1
  <2> QED BY <1>1, <2>1, <2>2
<1> QED BY <1>2, ChainIsOrdered

\* The earliest block of a part of a chain: the one with the least score.
LEMMA EarliestIs ==
    ASSUME NEW t \in Block, NEW S \in SUBSET Chain[t], S # {}
    PROVE  /\ Earliest(S) \in S /\ Earliest(S) \in Block
           /\ \A x \in S : Daa[Earliest(S)] <= Daa[x] /\ Earliest(S) \in Chain[x]
<1> DEFINE D == {Daa[x] : x \in S}
<1>1. \A x \in S : x \in Block /\ Daa[x] \in Nat /\ x \in Chain[t]
  BY ChainIs, TreeIs
<1>2. D \subseteq Nat /\ D # {}
  BY <1>1
<1> HIDE DEF D
<1>3. PICK d \in D : \A e \in D : ~(<<e, d>> \in OpToRel(<, Nat))
  BY <1>2, NatLessThanWellFounded, WFMin, Zenon
<1>4. \A e \in D : d <= e
  <2>1. \A e \in D : ~(e < d)
    BY <1>2, <1>3 DEF OpToRel
  <2>2. d \in Nat /\ \A e \in D : e \in Nat
    BY <1>2
  <2> QED BY <2>1, <2>2
<1>5. PICK b \in S : Daa[b] = d
  BY <1>3 DEF D
<1>6. \A x \in S : Daa[b] <= Daa[x]
  BY <1>4, <1>5 DEF D
<1>7. Earliest(S) \in S /\ \A x \in S : Daa[Earliest(S)] <= Daa[x]
  <2>1. Earliest(S) = CHOOSE c \in S : \A x \in S : Daa[c] <= Daa[x]
    BY DEF Earliest
  <2> QED BY <1>6, <2>1
<1>8. \A x \in S : Earliest(S) \in Chain[x]
  BY <1>1, <1>7, EarlierOnChain
<1> QED BY <1>1, <1>7, <1>8

\* One block of a chain with the least score is the earliest.
LEMMA EarliestIsOne ==
    ASSUME NEW t \in Block, NEW S \in SUBSET Chain[t], NEW b \in S, \A x \in S : b \in Chain[x]
    PROVE  Earliest(S) = b
<1>1. Earliest(S) \in S /\ Daa[Earliest(S)] <= Daa[b] /\ Earliest(S) \in Block /\ b \in Block
  BY EarliestIs, ChainIs
<1>2. b = Earliest(S) \/ Daa[b] < Daa[Earliest(S)]
  BY <1>1, ScoresGrow
<1> QED BY <1>1, <1>2, TreeIs

\* What is earliest on a chain is earliest on every chain that has it.
LEMMA EarliestStays ==
    ASSUME NEW t \in Block, NEW u \in Block, NEW A,
           Earliest(Chain[t] \cap A) # NoBlock, Earliest(Chain[t] \cap A) \in Chain[u]
    PROVE  Earliest(Chain[u] \cap A) = Earliest(Chain[t] \cap A)
<1> DEFINE c == Earliest(Chain[t] \cap A)
<1>1. Chain[t] \cap A # {}
  BY DEF Earliest
<1>2. c \in Chain[t] \cap A /\ c \in Block /\ \A x \in Chain[t] \cap A : c \in Chain[x]
  BY <1>1, EarliestIs
<1> HIDE DEF c
<1>3. c \in Chain[u]
  BY DEF c
<1>4. ASSUME NEW x \in Chain[u] \cap A PROVE c \in Chain[x]
  <2>1. CASE x \in Chain[c]
    <3>1. x \in Chain[t] \cap A
      BY <1>2, <2>1, ChainOfAncestor
    <3> QED BY <1>2, <3>1
  <2> QED BY <1>3, <2>1, ChainIsOrdered
<1>5. Earliest(Chain[u] \cap A) = c
  BY <1>2, <1>3, <1>4, EarliestIsOne
<1> QED BY <1>5 DEF c

\* The earliest block of a kind on a chain is on it.
LEMMA EarliestOnChain ==
    ASSUME NEW t \in Block, NEW A
    PROVE  Earliest(Chain[t] \cap A) \in Chain[t] \cup {NoBlock}
<1>1. CASE Chain[t] \cap A = {}
  BY <1>1 DEF Earliest
<1>2. CASE Chain[t] \cap A # {}
  BY <1>2, EarliestIs
<1> QED BY <1>1, <1>2

\* The first block after b on a chain is on it, and stays the first for as long as
\* the chain has it.
LEMMA FirstAfterIs ==
    ASSUME NEW b \in Block, NEW t \in Block
    PROVE  /\ FirstAfter(b, t) \in Chain[t] \cup {NoBlock}
           /\ FirstAfter(b, t) \in Block \cup {NoBlock}
           /\ \A u \in Block : FirstAfter(b, t) \in Chain[u] => FirstAfter(b, u) = FirstAfter(b, t)
<1> DEFINE A == {x \in Block : Daa[x] >= Daa[b] + Delay}
<1>1. \A u \in Block : FirstAfter(b, u) = Earliest(Chain[u] \cap A)
  <2> SUFFICES ASSUME NEW u \in Block PROVE FirstAfter(b, u) = Earliest(Chain[u] \cap A)
    OBVIOUS
  <2>1. {x \in Chain[u] : Daa[x] >= Daa[b] + Delay} = Chain[u] \cap A
    BY ChainIs
  <2>2. FirstAfter(b, u) = Earliest({x \in Chain[u] : Daa[x] >= Daa[b] + Delay})
    BY DEF FirstAfter
  <2> QED BY <2>1, <2>2
<1> HIDE DEF A
<1>2. FirstAfter(b, t) \in Chain[t] \cup {NoBlock}
  BY <1>1, EarliestOnChain
<1>3. \A u \in Block : FirstAfter(b, t) \in Chain[u] => FirstAfter(b, u) = FirstAfter(b, t)
  <2> SUFFICES ASSUME NEW u \in Block, FirstAfter(b, t) \in Chain[u] PROVE FirstAfter(b, u) = FirstAfter(b, t)
    OBVIOUS
  <2>1. FirstAfter(b, t) # NoBlock
    BY ChainIs, TreeIs
  <2>2. Earliest(Chain[t] \cap A) # NoBlock /\ Earliest(Chain[t] \cap A) \in Chain[u]
    BY <1>1, <2>1
  <2>3. Earliest(Chain[u] \cap A) = Earliest(Chain[t] \cap A)
    BY <2>2, EarliestStays
  <2> QED BY <1>1, <2>3
<1> QED BY <1>2, <1>3, ChainIs

\* The same of the block that accepts the response.
LEMMA AcceptedByIs ==
    ASSUME NEW t \in Block
    PROVE  /\ AcceptedBy[t] \in Chain[t] \cup {NoBlock}
           /\ AcceptedBy[t] \in Block \cup {NoBlock}
           /\ \A u \in Block : AcceptedBy[t] \in Chain[u] => AcceptedBy[u] = AcceptedBy[t]
<1>1. \A u \in Block : AcceptedBy[u] = Earliest(Chain[u] \cap Accepting)
  BY DEF AcceptedBy
<1>2. AcceptedBy[t] \in Chain[t] \cup {NoBlock}
  BY <1>1, EarliestOnChain
<1>3. \A u \in Block : AcceptedBy[t] \in Chain[u] => AcceptedBy[u] = AcceptedBy[t]
  <2> SUFFICES ASSUME NEW u \in Block, AcceptedBy[t] \in Chain[u] PROVE AcceptedBy[u] = AcceptedBy[t]
    OBVIOUS
  <2>1. AcceptedBy[t] # NoBlock
    BY ChainIs, TreeIs
  <2>2. Earliest(Chain[t] \cap Accepting) # NoBlock /\ Earliest(Chain[t] \cap Accepting) \in Chain[u]
    BY <1>1, <2>1
  <2>3. Earliest(Chain[u] \cap Accepting) = Earliest(Chain[t] \cap Accepting)
    BY <2>2, EarliestStays
  <2> QED BY <1>1, <2>3
<1> QED BY <1>2, <1>3, ChainIs

\* A seed block is on the chain it is for, and is that of the blocks after it.
LEMMA SeedOfIs ==
    ASSUME NEW t \in Block
    PROVE  /\ SeedOf[t] \in Chain[t] \cup {NoBlock} /\ SeedOf[t] \in Block \cup {NoBlock}
           /\ SeedOf[t] # NoBlock => /\ AcceptedBy[t] \in Block
                                     /\ SeedOf[t] = FirstAfter(AcceptedBy[t], t)
                                     /\ \A u \in Block : t \in Chain[u] => SeedOf[u] = SeedOf[t]
<1>1. \A u \in Block : SeedOf[u] = IF AcceptedBy[u] = NoBlock THEN NoBlock ELSE FirstAfter(AcceptedBy[u], u)
  BY DEF SeedOf
<1>2. CASE SeedOf[t] = NoBlock
  BY <1>2
<1>3. CASE SeedOf[t] # NoBlock
  <2>1. AcceptedBy[t] \in Chain[t] /\ AcceptedBy[t] \in Block /\ AcceptedBy[t] # NoBlock
        /\ SeedOf[t] = FirstAfter(AcceptedBy[t], t)
    BY <1>1, <1>3, AcceptedByIs
  <2>2. SeedOf[t] \in Chain[t] /\ SeedOf[t] \in Block
    BY <1>3, <2>1, FirstAfterIs
  <2>3. ASSUME NEW u \in Block, t \in Chain[u] PROVE SeedOf[u] = SeedOf[t]
    <3>1. SeedOf[t] \in Chain[u] /\ AcceptedBy[t] \in Chain[u]
      BY <2>1, <2>2, <2>3, ChainOfAncestor
    <3>2. AcceptedBy[u] = AcceptedBy[t]
      BY <3>1, AcceptedByIs
    <3>3. FirstAfter(AcceptedBy[t], u) = SeedOf[t]
      BY <2>1, <3>1, FirstAfterIs
    <3> QED BY <1>1, <2>1, <3>2, <3>3
  <2> QED BY <2>1, <2>2, <2>3
<1> QED BY <1>2, <1>3

-----------------------------------------------------------------------------
\* Phases: reorganisations.

\* The assumptions on the constants, one fact each.
LEMMA SetsAre ==
    /\ NoTx \notin Opening /\ Unmined \notin Descent /\ None \notin TraceDraw
    /\ Past \notin Block /\ Past # NoBlock /\ NoBlock \notin Block /\ Past \notin MaybeBlock
    /\ ChildOf \in [Block -> Nat] /\ Depth \in Nat /\ First \in Block
    /\ {FirstWindow, PhaseWindow, Slack, Delay} \subseteq Nat
BY PhasesAssumption, TreeAssumption DEF MaybeBlock

\* A set of numbers has a least one.
LEMMA LeastIs ==
    ASSUME NEW S \in SUBSET Nat, S # {} PROVE \E x \in S : \A y \in S : x <= y
<1>1. PICK x \in S : \A y \in S : ~(<<y, x>> \in OpToRel(<, Nat))
  BY NatLessThanWellFounded, WFMin, Zenon
<1>2. \A y \in S : ~(y < x)
  BY <1>1 DEF OpToRel
<1>3. x \in Nat /\ \A y \in S : y \in Nat
  OBVIOUS
<1> QED BY <1>2, <1>3

\* The sequences of a record of phases.
LEMMA RecordIs ==
    ASSUME NEW a \in AttnRecord, Lengths(a)
    PROVE  /\ a.txs \in Seq(Opening \cup {NoTx}) /\ a.accepted \in Seq(MaybeBlock \cup {Past})
           /\ a.path \in Seq(Nat) /\ a.children \in Seq(MaybeBlock)
           /\ a.late \subseteq (Opening \cup {NoTx}) \X Block
           /\ Len(a.txs) \in Nat /\ Len(a.txs) >= 1 /\ Len(a.accepted) = Len(a.txs)
           /\ Len(a.path) \in Nat /\ Len(a.children) = Len(a.path)
           /\ Len(a.path) = Len(a.txs) \/ Len(a.path) = Len(a.txs) - 1
           /\ \A i \in 1 .. Len(a.txs) : a.txs[i] \in Opening \cup {NoTx} /\ a.accepted[i] \in MaybeBlock \cup {Past}
           /\ \A i \in 1 .. Len(a.path) : a.path[i] \in Nat /\ a.children[i] \in MaybeBlock
<1>1. /\ a.txs \in Seq(Opening \cup {NoTx}) /\ a.accepted \in Seq(MaybeBlock \cup {Past})
      /\ a.path \in Seq(Nat) /\ a.children \in Seq(MaybeBlock)
      /\ a.late \subseteq (Opening \cup {NoTx}) \X Block
  BY DEF AttnRecord
<1>2. Len(a.txs) \in Nat /\ Len(a.path) \in Nat
  BY <1>1
<1>3. /\ Len(a.txs) >= 1 /\ Len(a.accepted) = Len(a.txs) /\ Len(a.children) = Len(a.path)
      /\ Len(a.path) = Len(a.txs) \/ Len(a.path) + 1 = Len(a.txs)
  BY DEF Lengths
<1>4. \A i \in 1 .. Len(a.txs) : a.txs[i] \in Opening \cup {NoTx} /\ a.accepted[i] \in MaybeBlock \cup {Past}
  BY <1>1, <1>3
<1>5. \A i \in 1 .. Len(a.path) : a.path[i] \in Nat /\ a.children[i] \in MaybeBlock
  BY <1>1, <1>3
<1>6. Len(a.path) = Len(a.txs) \/ Len(a.path) = Len(a.txs) - 1
  BY <1>2, <1>3
<1> QED BY <1>1, <1>2, <1>3, <1>4, <1>5, <1>6

\* Only what Held looks at counts.
LEMMA SameHeld ==
    ASSUME NEW a, NEW b, NEW seed, NEW v, NEW m, NEW M, Held(a, seed, v, m, M),
           b.txs = a.txs, b.accepted = a.accepted, b.path = a.path, b.children = a.children,
           b.late \subseteq a.late
    PROVE  Held(b, seed, v, m, M) /\ (NextPhaseOwed(b) <=> NextPhaseOwed(a))
<1>1. Lengths(b) /\ Known(b) /\ OpenedFor(b, seed)
  BY DEF Held, Lengths, Known, OpenedFor
<1>2. AcceptedOn(b, v, m, M) /\ DrawnOn(b, v) /\ LateOn(b, v, M)
  BY DEF Held, AcceptedOn, DrawnOn, LateOn
<1> QED BY <1>1, <1>2 DEF Held, NextPhaseOwed

\* What is on the chain and stays is as it was.
LEMMA StaysHeld ==
    ASSUME NEW v \in Block, NEW t \in Block, NEW gone, \A b \in Chain[v] : b \notin gone => b \in Chain[t],
           NEW a \in AttnRecord, NEW seed, NEW m, NEW M, Held(a, seed, v, m, M),
           \A i \in 1 .. Len(a.txs) : a.accepted[i] \notin gone,
           \A i \in 1 .. Len(a.path) : a.children[i] \notin gone,
           \A e \in a.late : e[2] \notin gone
    PROVE  Held(a, seed, t, m, M)
<1>1. Lengths(a) /\ Known(a) /\ OpenedFor(a, seed) /\ AcceptedOn(a, v, m, M) /\ DrawnOn(a, v) /\ LateOn(a, v, M)
  BY DEF Held
<1>2. AcceptedOn(a, t, m, M)
  BY <1>1 DEF AcceptedOn
<1>3. LateOn(a, t, M)
  BY <1>1 DEF LateOn
<1>4. DrawnOn(a, t)
  <2> SUFFICES ASSUME NEW i \in 1 .. Len(a.path), a.children[i] # NoBlock
               PROVE  /\ a.accepted[i] \in Block /\ a.children[i] = FirstAfter(a.accepted[i], t)
                      /\ a.path[i] = ChildOf[a.children[i]]
    BY DEF DrawnOn
  <2>1. /\ a.accepted[i] \in Block /\ a.children[i] = FirstAfter(a.accepted[i], v)
        /\ a.path[i] = ChildOf[a.children[i]]
    BY <1>1 DEF DrawnOn
  <2>2. a.children[i] \in Chain[v]
    BY <2>1, FirstAfterIs
  <2>3. a.children[i] \in Chain[t]
    BY <2>2
  <2> QED BY <2>1, <2>3, FirstAfterIs
<1> QED BY <1>1, <1>2, <1>3, <1>4 DEF Held

\* The first n of a sequence.
LEMMA PrefixIs ==
    ASSUME NEW S, NEW q \in Seq(S), NEW n \in 0 .. Len(q)
    PROVE  /\ SubSeq(q, 1, n) \in Seq(S) /\ Len(SubSeq(q, 1, n)) = n
           /\ \A i \in 1 .. n : SubSeq(q, 1, n)[i] = q[i]
<1>1. Len(q) \in Nat /\ n \in Nat /\ n <= Len(q) /\ \A i \in 1 .. Len(q) : q[i] \in S
  OBVIOUS
<1> QED BY <1>1, SubSeqProperties

\* A prefix of a prefix.
LEMMA PrefixOfPrefix ==
    ASSUME NEW S, NEW q \in Seq(S), NEW n \in 0 .. Len(q), NEW k \in 0 .. n
    PROVE  SubSeq(SubSeq(q, 1, n), 1, k) = SubSeq(q, 1, k)
<1>1. Len(q) \in Nat /\ n \in Nat /\ n <= Len(q) /\ k \in Nat /\ k <= n
  OBVIOUS
<1> DEFINE s == SubSeq(q, 1, n)
<1>2. s \in Seq(S) /\ Len(s) = n /\ \A i \in 1 .. n : s[i] = q[i]
  BY PrefixIs
<1> HIDE DEF s
<1>3. k \in 0 .. Len(s) /\ k \in 0 .. Len(q)
  BY <1>1, <1>2
<1>4. /\ SubSeq(s, 1, k) \in Seq(S) /\ Len(SubSeq(s, 1, k)) = k
      /\ \A i \in 1 .. k : SubSeq(s, 1, k)[i] = s[i]
  BY <1>2, <1>3, PrefixIs
<1>5. /\ SubSeq(q, 1, k) \in Seq(S) /\ Len(SubSeq(q, 1, k)) = k
      /\ \A i \in 1 .. k : SubSeq(q, 1, k)[i] = q[i]
  BY <1>3, PrefixIs
<1>6. \A i \in 1 .. k : i \in 1 .. n
  BY <1>1
<1>7. SubSeq(s, 1, k) = SubSeq(q, 1, k)
  BY <1>2, <1>4, <1>5, <1>6, SeqEqual
<1> QED BY <1>7 DEF s

\* on_removed keeps the phases before the first one undone, and of that one the
\* transaction.
LEMMA OnRemovedIs ==
    ASSUME NEW a \in AttnRecord, Lengths(a), NEW gone \in SUBSET Block, Undone(a, gone) # {}
    PROVE  \E cut \in 1 .. Len(a.txs) :
              LET c == OnRemoved(a, gone) IN
              /\ a.accepted[cut] \in gone \/ (cut <= Len(a.path) /\ a.children[cut] \in gone)
              /\ \A i \in 1 .. cut - 1 : a.accepted[i] \notin gone /\ a.children[i] \notin gone
              /\ c \in AttnRecord /\ c.late = a.late
              /\ c.txs = SubSeq(a.txs, 1, cut) /\ c.path = SubSeq(a.path, 1, cut - 1)
              /\ c.children = SubSeq(a.children, 1, cut - 1)
              /\ Len(c.accepted) = cut
              /\ \A i \in 1 .. cut : c.accepted[i] = IF a.accepted[i] \in gone THEN NoBlock ELSE a.accepted[i]
<1> DEFINE U == Undone(a, gone)
           cut == CHOOSE i \in U : \A j \in U : i <= j
           kept == SubSeq(a.accepted, 1, cut)
           acc == IF kept[cut] \in gone THEN [kept EXCEPT ![cut] = NoBlock] ELSE kept
           c == OnRemoved(a, gone)
<1>0. /\ a.txs \in Seq(Opening \cup {NoTx}) /\ a.accepted \in Seq(MaybeBlock \cup {Past})
      /\ a.path \in Seq(Nat) /\ a.children \in Seq(MaybeBlock)
      /\ Len(a.txs) \in Nat /\ Len(a.txs) >= 1 /\ Len(a.accepted) = Len(a.txs)
      /\ Len(a.path) \in Nat /\ Len(a.children) = Len(a.path)
      /\ Len(a.path) = Len(a.txs) \/ Len(a.path) = Len(a.txs) - 1
      /\ \A i \in 1 .. Len(a.txs) : a.txs[i] \in Opening \cup {NoTx}
  BY RecordIs
<1>1. /\ U \subseteq Nat /\ U \subseteq 1 .. Len(a.txs)
      /\ \A i \in U : a.accepted[i] \in gone \/ (i <= Len(a.path) /\ a.children[i] \in gone)
      /\ \A i \in 1 .. Len(a.txs) : i \notin U =>
            a.accepted[i] \notin gone /\ (i <= Len(a.path) => a.children[i] \notin gone)
  BY <1>0 DEF Undone
<1> HIDE DEF U
<1>2. \E i \in U : \A j \in U : i <= j
  BY <1>1, LeastIs DEF U
<1>3. cut \in U /\ \A j \in U : cut <= j
  BY <1>2
<1>4. c = [a EXCEPT !.txs = SubSeq(@, 1, cut), !.accepted = acc, !.path = SubSeq(@, 1, cut - 1),
                    !.children = SubSeq(@, 1, cut - 1), !.opened = FALSE,
                    !.dropped = @ \cup {a.txs[i] : i \in cut + 1 .. Len(a.txs)}]
  BY DEF OnRemoved, U
<1> HIDE DEF c, cut, acc
<1>5. cut \in Nat /\ cut >= 1 /\ cut <= Len(a.txs) /\ cut \in 1 .. Len(a.txs) /\ cut - 1 \in Nat
      /\ cut - 1 \in 0 .. Len(a.path) /\ cut \in 0 .. Len(a.txs)
  BY <1>0, <1>1, <1>3
<1>6. \A i \in 1 .. cut - 1 : i \in 1 .. Len(a.txs) /\ i <= Len(a.path) /\ i \notin U
  <2> SUFFICES ASSUME NEW i \in 1 .. cut - 1 PROVE i \in 1 .. Len(a.txs) /\ i <= Len(a.path) /\ i \notin U
    OBVIOUS
  <2>1. i \in 1 .. Len(a.txs) /\ i <= Len(a.path) /\ ~(cut <= i)
    BY <1>0, <1>5
  <2> QED BY <1>3, <2>1
<1>7. \A i \in 1 .. cut - 1 : a.accepted[i] \notin gone /\ a.children[i] \notin gone
  <2> SUFFICES ASSUME NEW i \in 1 .. cut - 1 PROVE a.accepted[i] \notin gone /\ a.children[i] \notin gone
    OBVIOUS
  <2>1. i \in 1 .. Len(a.txs) /\ i <= Len(a.path) /\ i \notin U
    BY <1>6
  <2> QED BY <1>1, <2>1
<1>8. /\ SubSeq(a.txs, 1, cut) \in Seq(Opening \cup {NoTx})
      /\ SubSeq(a.path, 1, cut - 1) \in Seq(Nat) /\ SubSeq(a.children, 1, cut - 1) \in Seq(MaybeBlock)
  BY <1>0, <1>5, PrefixIs
<1>9. kept \in Seq(MaybeBlock \cup {Past}) /\ Len(kept) = cut /\ \A i \in 1 .. cut : kept[i] = a.accepted[i]
  BY <1>0, <1>5, PrefixIs
<1> HIDE DEF kept
<1>10. /\ acc \in Seq(MaybeBlock \cup {Past}) /\ Len(acc) = cut
       /\ \A i \in 1 .. cut : acc[i] = IF a.accepted[i] \in gone THEN NoBlock ELSE a.accepted[i]
  <2>1. CASE kept[cut] \in gone
    <3>1. acc = [kept EXCEPT ![cut] = NoBlock]
      BY <2>1 DEF acc
    <3>2. NoBlock \in MaybeBlock \cup {Past}
      BY DEF MaybeBlock
    <3>3. acc \in Seq(MaybeBlock \cup {Past}) /\ Len(acc) = cut
          /\ \A i \in 1 .. cut : acc[i] = IF i = cut THEN NoBlock ELSE kept[i]
      BY <1>5, <1>9, <3>1, <3>2
    <3>4. \A i \in 1 .. cut : i = cut \/ i \in 1 .. cut - 1
      BY <1>5
    <3> QED BY <1>7, <1>9, <2>1, <3>3, <3>4
  <2>2. CASE kept[cut] \notin gone
    <3>1. \A i \in 1 .. cut : i = cut \/ i \in 1 .. cut - 1
      BY <1>5
    <3>2. \A i \in 1 .. cut : a.accepted[i] \notin gone
      BY <1>5, <1>7, <1>9, <2>2, <3>1
    <3> QED BY <1>9, <2>2, <3>2 DEF acc
  <2> QED BY <2>1, <2>2
<1>11. a.dropped \cup {a.txs[i] : i \in cut + 1 .. Len(a.txs)} \subseteq Opening \cup {NoTx}
  <2>1. \A i \in cut + 1 .. Len(a.txs) : i \in 1 .. Len(a.txs)
    BY <1>0, <1>5
  <2> QED BY <1>0, <2>1 DEF AttnRecord
<1>12. /\ c \in AttnRecord /\ c.late = a.late /\ c.txs = SubSeq(a.txs, 1, cut)
       /\ c.path = SubSeq(a.path, 1, cut - 1) /\ c.children = SubSeq(a.children, 1, cut - 1) /\ c.accepted = acc
  BY <1>4, <1>8, <1>10, <1>11 DEF AttnRecord
<1>13. a.accepted[cut] \in gone \/ (cut <= Len(a.path) /\ a.children[cut] \in gone)
  BY <1>1, <1>3
<1> QED BY <1>5, <1>7, <1>10, <1>12, <1>13 DEF c

\* What is left after a reorganisation is held, and awaits the acceptance of its
\* last transaction or the draw of its child.
LEMMA OnRemovedHeld ==
    ASSUME NEW v \in Block, NEW t \in Block, NEW gone \in SUBSET Block,
           \A b \in Chain[v] : b \notin gone => b \in Chain[t],
           NEW a \in AttnRecord, NEW seed, NEW m, NEW M, Held(a, seed, v, m, M),
           \A e \in a.late : e[2] \notin gone, Undone(a, gone) # {}
    PROVE  LET c == OnRemoved(a, gone) IN
           c \in AttnRecord /\ Held(c, seed, t, m, M) /\ ~NextPhaseOwed(c)
<1>1. Lengths(a) /\ Known(a) /\ OpenedFor(a, seed) /\ AcceptedOn(a, v, m, M) /\ DrawnOn(a, v) /\ LateOn(a, v, M)
  BY DEF Held
<1>2. /\ a.txs \in Seq(Opening \cup {NoTx}) /\ a.accepted \in Seq(MaybeBlock \cup {Past})
      /\ a.path \in Seq(Nat) /\ a.children \in Seq(MaybeBlock)
      /\ Len(a.txs) \in Nat /\ Len(a.txs) >= 1 /\ Len(a.accepted) = Len(a.txs)
      /\ Len(a.path) \in Nat /\ Len(a.children) = Len(a.path)
      /\ Len(a.path) = Len(a.txs) \/ Len(a.path) = Len(a.txs) - 1
  BY <1>1, RecordIs
<1> DEFINE c == OnRemoved(a, gone)
<1>3. PICK cut \in 1 .. Len(a.txs) :
              /\ a.accepted[cut] \in gone \/ (cut <= Len(a.path) /\ a.children[cut] \in gone)
              /\ \A i \in 1 .. cut - 1 : a.accepted[i] \notin gone /\ a.children[i] \notin gone
              /\ c \in AttnRecord /\ c.late = a.late
              /\ c.txs = SubSeq(a.txs, 1, cut) /\ c.path = SubSeq(a.path, 1, cut - 1)
              /\ c.children = SubSeq(a.children, 1, cut - 1)
              /\ Len(c.accepted) = cut
              /\ \A i \in 1 .. cut : c.accepted[i] = IF a.accepted[i] \in gone THEN NoBlock ELSE a.accepted[i]
  BY <1>1, OnRemovedIs
<1> HIDE DEF c
<1>4. cut \in Nat /\ cut >= 1 /\ cut <= Len(a.txs) /\ cut - 1 \in Nat /\ cut - 1 \in 0 .. Len(a.path)
      /\ cut \in 0 .. Len(a.txs)
  BY <1>2
<1>5. Len(c.txs) = cut /\ \A i \in 1 .. cut : c.txs[i] = a.txs[i] /\ i \in 1 .. Len(a.txs)
  BY <1>2, <1>3, <1>4, PrefixIs
<1>6. Len(c.path) = cut - 1 /\ \A i \in 1 .. cut - 1 : c.path[i] = a.path[i] /\ i \in 1 .. Len(a.path)
  BY <1>2, <1>3, <1>4, PrefixIs
<1>7. Len(c.children) = cut - 1 /\ \A i \in 1 .. cut - 1 : c.children[i] = a.children[i] /\ i \in 1 .. cut
  BY <1>2, <1>3, <1>4, PrefixIs
<1>8. Lengths(c) /\ ~NextPhaseOwed(c)
  BY <1>3, <1>4, <1>5, <1>6, <1>7 DEF Lengths, NextPhaseOwed
<1>9. Known(c)
  <2> SUFFICES ASSUME NEW i \in 1 .. cut, c.txs[i] = NoTx
               PROVE  i < cut /\ c.accepted[i] = Past /\ c.children[i] = NoBlock
    BY <1>5 DEF Known
  <2>1. a.txs[i] = NoTx /\ i \in 1 .. Len(a.txs)
    BY <1>5
  <2>2. i < Len(a.txs) /\ a.accepted[i] = Past /\ a.children[i] = NoBlock
    BY <1>1, <2>1 DEF Known
  <2>3. a.accepted[i] \notin gone /\ a.children[i] \notin gone
    BY <2>2, SetsAre
  <2>4. i # cut
    BY <1>3, <2>3
  <2>5. i \in 1 .. cut - 1 /\ i < cut
    BY <1>4, <2>4
  <2> QED BY <1>3, <1>7, <2>2, <2>3, <2>5
<1>10. OpenedFor(c, seed)
  <2> SUFFICES ASSUME NEW i \in 1 .. cut
               PROVE  c.txs[i] \in {NoTx, Tx(seed, SubSeq(c.path, 1, i - 1))}
    BY <1>5 DEF OpenedFor
  <2>1. i - 1 \in 0 .. cut - 1
    BY <1>4
  <2>2. SubSeq(c.path, 1, i - 1) = SubSeq(a.path, 1, i - 1)
    BY <1>2, <1>3, <1>4, <2>1, PrefixOfPrefix
  <2> QED BY <1>1, <1>5, <2>2 DEF OpenedFor
<1>11. AcceptedOn(c, t, m, M)
  <2> SUFFICES ASSUME NEW i \in 1 .. cut, c.accepted[i] \in Block
               PROVE  c.accepted[i] \in Chain[t] \cup m /\ M[c.accepted[i]].takes = c.txs[i]
    BY <1>5 DEF AcceptedOn
  <2>1. a.accepted[i] \notin gone /\ c.accepted[i] = a.accepted[i]
    BY <1>3, SetsAre
  <2>2. a.accepted[i] \in Chain[v] \cup m /\ M[a.accepted[i]].takes = a.txs[i]
    BY <1>1, <1>5, <2>1 DEF AcceptedOn
  <2> QED BY <1>5, <2>1, <2>2
<1>12. DrawnOn(c, t)
  <2> SUFFICES ASSUME NEW i \in 1 .. cut - 1, c.children[i] # NoBlock
               PROVE  /\ c.accepted[i] \in Block /\ c.children[i] = FirstAfter(c.accepted[i], t)
                      /\ c.path[i] = ChildOf[c.children[i]]
    BY <1>6 DEF DrawnOn
  <2>1. c.children[i] = a.children[i] /\ c.path[i] = a.path[i] /\ i \in 1 .. Len(a.path) /\ i \in 1 .. cut
    BY <1>6, <1>7
  <2>2. /\ a.accepted[i] \in Block /\ a.children[i] = FirstAfter(a.accepted[i], v)
        /\ a.path[i] = ChildOf[a.children[i]]
    BY <1>1, <2>1 DEF DrawnOn
  <2>3. a.accepted[i] \notin gone /\ a.children[i] \notin gone /\ c.accepted[i] = a.accepted[i]
    BY <1>3, <2>1
  <2>4. a.children[i] \in Chain[v]
    BY <2>1, <2>2, FirstAfterIs
  <2>5. a.children[i] \in Chain[t]
    BY <2>3, <2>4
  <2>6. FirstAfter(a.accepted[i], t) = a.children[i]
    BY <2>2, <2>5, FirstAfterIs
  <2> QED BY <2>1, <2>2, <2>3, <2>6
<1>13. LateOn(c, t, M)
  BY <1>1, <1>3 DEF LateOn
<1> QED BY <1>3, <1>8, <1>9, <1>10, <1>11, <1>12, <1>13 DEF Held, c

-----------------------------------------------------------------------------
\* Phases: acceptances, draws, openings.

\* note_phase_acceptances for blocks of the chain of v.
LEMMA NotePhasesHeld ==
    ASSUME NodeInv, NEW v \in Block, NEW S \in SUBSET Chain[v], \A b \in S : mined[b] # Unmined,
           NEW a \in AttnRecord, NEW seed, NEW m, Held(a, seed, v, m, mined)
    PROVE  LET c == NotePhases(a, S) IN
           c \in AttnRecord /\ Held(c, seed, v, m, mined) /\ (NextPhaseOwed(c) => NextPhaseOwed(a))
<1> DEFINE n == Len(a.txs)
           last == {b \in S : Takes(b) = a.txs[n] /\ a.accepted[n] = NoBlock}
           late == {b \in S \ last : Takes(b) \in a.dropped}
           by == IF last = {} THEN a.accepted[n] ELSE CHOOSE b \in last : TRUE
           kept == {e \in a.late : \A b \in late : e[1] # Takes(b)}
           c == NotePhases(a, S)
<1>1. Lengths(a) /\ Known(a) /\ OpenedFor(a, seed) /\ AcceptedOn(a, v, m, mined) /\ DrawnOn(a, v)
      /\ LateOn(a, v, mined)
  BY DEF Held
<1>2. /\ a.txs \in Seq(Opening \cup {NoTx}) /\ a.accepted \in Seq(MaybeBlock \cup {Past})
      /\ a.path \in Seq(Nat) /\ a.children \in Seq(MaybeBlock)
      /\ a.late \subseteq (Opening \cup {NoTx}) \X Block
      /\ n \in Nat /\ n >= 1 /\ Len(a.accepted) = n /\ n \in 1 .. n
      /\ Len(a.path) \in Nat /\ Len(a.children) = Len(a.path)
      /\ Len(a.path) = Len(a.txs) \/ Len(a.path) = Len(a.txs) - 1
      /\ a.accepted[n] \in MaybeBlock \cup {Past}
  BY <1>1, RecordIs
<1>3. \A b \in S : b \in Block /\ b \in Chain[v] /\ Takes(b) \in Opening \cup {NoTx}
  <2> SUFFICES ASSUME NEW b \in S PROVE b \in Block /\ b \in Chain[v] /\ Takes(b) \in Opening \cup {NoTx}
    OBVIOUS
  <2>1. b \in Block /\ b \in Chain[v]
    BY ChainIs
  <2>2. mined[b] \in Descent
    BY <2>1 DEF NodeInv
  <2> QED BY <2>1, <2>2 DEF Takes, Descent
<1>4. by = a.accepted[n] \/ (a.accepted[n] = NoBlock /\ by \in S /\ Takes(by) = a.txs[n])
  OBVIOUS
<1>5. late \subseteq S
  OBVIOUS
<1>6. kept \subseteq a.late
  OBVIOUS
<1>7. c = [a EXCEPT !.accepted[n] = by, !.late = kept \cup {<<Takes(b), b>> : b \in late}]
  BY DEF NotePhases
<1> HIDE DEF c, by, kept, late, last
<1>8. by \in MaybeBlock \cup {Past}
  BY <1>2, <1>3, <1>4 DEF MaybeBlock
<1>9. [a.accepted EXCEPT ![n] = by] \in Seq(MaybeBlock \cup {Past})
      /\ Len([a.accepted EXCEPT ![n] = by]) = n
      /\ \A i \in 1 .. n : [a.accepted EXCEPT ![n] = by][i] = IF i = n THEN by ELSE a.accepted[i]
  BY <1>2, <1>8
<1>10. kept \cup {<<Takes(b), b>> : b \in late} \subseteq (Opening \cup {NoTx}) \X Block
  BY <1>2, <1>3, <1>5, <1>6
<1>11. c \in AttnRecord /\ c.txs = a.txs /\ c.path = a.path /\ c.children = a.children
       /\ c.accepted = [a.accepted EXCEPT ![n] = by] /\ c.late = kept \cup {<<Takes(b), b>> : b \in late}
  BY <1>7, <1>9, <1>10 DEF AttnRecord
<1>12. Len(c.accepted) = n /\ \A i \in 1 .. n : c.accepted[i] = IF i = n THEN by ELSE a.accepted[i]
  BY <1>9, <1>11
<1>13. Lengths(c) /\ (NextPhaseOwed(c) => NextPhaseOwed(a))
  BY <1>1, <1>11, <1>12 DEF Lengths, NextPhaseOwed
<1>14. Known(c)
  <2> SUFFICES ASSUME NEW i \in 1 .. n, a.txs[i] = NoTx
               PROVE  i < n /\ c.accepted[i] = Past /\ a.children[i] = NoBlock
    BY <1>11 DEF Known
  <2>1. i < n /\ a.accepted[i] = Past /\ a.children[i] = NoBlock
    BY <1>1 DEF Known
  <2>2. i # n
    BY <1>2, <2>1
  <2> QED BY <1>12, <2>1, <2>2
<1>15. OpenedFor(c, seed)
  BY <1>1, <1>11 DEF OpenedFor
<1>16. AcceptedOn(c, v, m, mined)
  <2> SUFFICES ASSUME NEW i \in 1 .. n, c.accepted[i] \in Block
               PROVE  c.accepted[i] \in Chain[v] \cup m /\ mined[c.accepted[i]].takes = a.txs[i]
    BY <1>11 DEF AcceptedOn
  <2>1. CASE c.accepted[i] = a.accepted[i]
    BY <1>1, <2>1 DEF AcceptedOn
  <2>2. CASE c.accepted[i] # a.accepted[i]
    <3>1. i = n /\ c.accepted[i] = by
      BY <1>12, <2>2
    <3>2. by \in S /\ Takes(by) = a.txs[i]
      BY <1>4, <2>2, <3>1
    <3> QED BY <1>3, <3>1, <3>2 DEF Takes
  <2> QED BY <2>1, <2>2
<1>17. DrawnOn(c, v)
  <2> SUFFICES ASSUME NEW i \in 1 .. Len(a.path), a.children[i] # NoBlock
               PROVE  /\ c.accepted[i] \in Block /\ a.children[i] = FirstAfter(c.accepted[i], v)
                      /\ a.path[i] = ChildOf[a.children[i]]
    BY <1>11 DEF DrawnOn
  <2>1. /\ a.accepted[i] \in Block /\ a.children[i] = FirstAfter(a.accepted[i], v)
        /\ a.path[i] = ChildOf[a.children[i]]
    BY <1>1 DEF DrawnOn
  <2>2. i \in 1 .. n
    BY <1>2
  <2>3. c.accepted[i] = a.accepted[i]
    BY <1>4, <1>12, <2>1, <2>2, SetsAre
  <2> QED BY <2>1, <2>3
<1>18. LateOn(c, v, mined)
  <2> SUFFICES ASSUME NEW e \in c.late PROVE e[2] \in Chain[v] /\ mined[e[2]].takes = e[1]
    BY DEF LateOn
  <2>1. CASE e \in kept
    BY <1>1, <1>6, <2>1 DEF LateOn
  <2>2. CASE e \in {<<Takes(b), b>> : b \in late}
    <3>1. PICK b \in late : e = <<Takes(b), b>>
      BY <2>2
    <3>2. b \in Chain[v] /\ e[2] = b /\ e[1] = Takes(b)
      BY <1>3, <1>5, <3>1
    <3> QED BY <3>2 DEF Takes
  <2> QED BY <1>11, <2>1, <2>2
<1> QED BY <1>11, <1>13, <1>14, <1>15, <1>16, <1>17, <1>18 DEF Held, c

\* New phases hold nothing yet.
LEMMA NewHeld ==
    ASSUME NEW seed \in Block, NEW deadline \in Nat, NEW v, NEW m, NEW M
    PROVE  LET c == New(Tx(seed, <<>>), deadline) IN
           c \in AttnRecord /\ Held(c, seed, v, m, M) /\ ~NextPhaseOwed(c)
<1> DEFINE x == Tx(seed, <<>>)
           c == New(x, deadline)
<1>1. x \in Opening
  BY DEF Tx, Opening
<1>2. x # NoTx
  BY <1>1, SetsAre
<1>3. SubSeq(<<>>, 1, 1 - 1) = <<>>
  OBVIOUS
<1>4. x = Tx(seed, SubSeq(<<>>, 1, 1 - 1))
  BY <1>3
<1> HIDE DEF x
<1>5. c = [txs |-> <<x>>, accepted |-> <<NoBlock>>, path |-> <<>>, children |-> <<>>,
           deadline |-> deadline, opened |-> FALSE, dropped |-> {}, late |-> {}]
  BY DEF New
<1>6. <<x>> \in Seq(Opening \cup {NoTx}) /\ <<NoBlock>> \in Seq(MaybeBlock \cup {Past})
      /\ <<>> \in Seq(Nat) /\ <<>> \in Seq(MaybeBlock)
  BY <1>1 DEF MaybeBlock
<1>7. c \in AttnRecord
  BY <1>5, <1>6 DEF AttnRecord
<1>8. c.txs = <<x>> /\ c.accepted = <<NoBlock>> /\ c.path = <<>> /\ c.children = <<>> /\ c.late = {}
  BY <1>5
<1> HIDE DEF c
<1>9. /\ Len(c.txs) = 1 /\ Len(c.accepted) = 1 /\ Len(c.path) = 0 /\ Len(c.children) = 0
      /\ \A i \in 1 .. Len(c.txs) : i = 1
      /\ c.txs[1] = x /\ c.accepted[1] = NoBlock
  BY <1>8
<1>10. Lengths(c) /\ ~NextPhaseOwed(c)
  BY <1>9 DEF Lengths, NextPhaseOwed
<1>11. Known(c)
  BY <1>2, <1>9 DEF Known
<1>12. OpenedFor(c, seed)
  BY <1>4, <1>8, <1>9 DEF OpenedFor
<1>13. AcceptedOn(c, v, m, M)
  BY <1>9, SetsAre DEF AcceptedOn
<1>14. DrawnOn(c, v)
  BY <1>9 DEF DrawnOn
<1>15. LateOn(c, v, M)
  BY <1>8 DEF LateOn
<1> QED BY <1>7, <1>10, <1>11, <1>12, <1>13, <1>14, <1>15 DEF Held, c, x

\* A prefix of a sequence to which something is appended.
LEMMA PrefixOfAppend ==
    ASSUME NEW S, NEW q \in Seq(S), NEW x \in S, NEW k \in 0 .. Len(q)
    PROVE  SubSeq(Append(q, x), 1, k) = SubSeq(q, 1, k)
<1>1. Len(q) \in Nat /\ k \in Nat /\ k <= Len(q)
  OBVIOUS
<1> DEFINE s == Append(q, x)
<1>2. s \in Seq(S) /\ Len(s) = Len(q) + 1 /\ \A i \in 1 .. Len(q) : s[i] = q[i]
  BY AppendProperties
<1> HIDE DEF s
<1>3. k \in 0 .. Len(s)
  BY <1>1, <1>2
<1>4. /\ SubSeq(s, 1, k) \in Seq(S) /\ Len(SubSeq(s, 1, k)) = k
      /\ \A i \in 1 .. k : SubSeq(s, 1, k)[i] = s[i]
  BY <1>2, <1>3, PrefixIs
<1>5. /\ SubSeq(q, 1, k) \in Seq(S) /\ Len(SubSeq(q, 1, k)) = k
      /\ \A i \in 1 .. k : SubSeq(q, 1, k)[i] = q[i]
  BY PrefixIs
<1>6. \A i \in 1 .. k : i \in 1 .. Len(q)
  BY <1>1
<1>7. SubSeq(s, 1, k) = SubSeq(q, 1, k)
  BY <1>2, <1>4, <1>5, <1>6, SeqEqual
<1> QED BY <1>7 DEF s

\* The last transaction of phases that are held is known.
LEMMA LastIs ==
    ASSUME NEW a \in AttnRecord, Lengths(a), Known(a)
    PROVE  a.txs[Len(a.txs)] \in Opening
<1>1. Len(a.txs) \in Nat /\ Len(a.txs) >= 1 /\ Len(a.txs) \in 1 .. Len(a.txs)
      /\ a.txs[Len(a.txs)] \in Opening \cup {NoTx}
  BY RecordIs
<1>2. ~(Len(a.txs) < Len(a.txs))
  BY <1>1
<1> QED BY <1>1, <1>2 DEF Known

\* resolve_traces draws a child only on a chain that has the seed block of the
\* phases.
LEMMA ChildDrawnHeld ==
    ASSUME NodeInv, NEW a \in AttnRecord, NEW seed, Held(a, seed, view, missed, mined), AwaitingDraw(a),
           NEW d \in TraceDraw
    PROVE  LET c == ChildDrawn(d, a) IN
           /\ c \in AttnRecord /\ Held(c, seed, view, missed, mined)
           /\ NextPhaseOwed(c) => seed \in Chain[view]
<1> DEFINE n == Len(a.txs)
           by == a.accepted[n]
           b == FirstAfter(by, view)
           due == Daa[by] + Delay + PhaseWindow
           at == IF due > d.deadline THEN due ELSE d.deadline
           c == ChildDrawn(d, a)
<1>1. Lengths(a) /\ Known(a) /\ OpenedFor(a, seed) /\ AcceptedOn(a, view, missed, mined) /\ DrawnOn(a, view)
      /\ LateOn(a, view, mined)
  BY DEF Held
<1>2. /\ a.txs \in Seq(Opening \cup {NoTx}) /\ a.accepted \in Seq(MaybeBlock \cup {Past})
      /\ a.path \in Seq(Nat) /\ a.children \in Seq(MaybeBlock)
      /\ n \in Nat /\ n >= 1 /\ Len(a.accepted) = n /\ n \in 1 .. n
      /\ Len(a.path) \in Nat /\ Len(a.children) = Len(a.path)
  BY <1>1, RecordIs
<1>3. Len(a.path) + 1 = n /\ by \in Block /\ ~NextPhaseOwed(a)
  BY <1>2 DEF AwaitingDraw, NextPhaseOwed
<1>4. view \in Block
  BY DEF NodeInv
<1>5. CASE ~OnChain(by, view) \/ b = NoBlock
  <2>1. c = a
    BY <1>5 DEF ChildDrawn
  <2> QED BY <1>3, <2>1
<1>6. CASE OnChain(by, view) /\ b # NoBlock
  <2>1. c = [a EXCEPT !.path = Append(@, ChildOf[b]), !.children = Append(@, b), !.opened = FALSE,
                      !.deadline = at]
    BY <1>6 DEF ChildDrawn
  <2>2. b \in Block /\ by \in Chain[view]
    BY <1>3, <1>4, <1>6, FirstAfterIs DEF OnChain
  <2>3. at \in Nat
    <3>1. Daa[by] \in Nat /\ Delay \in Nat /\ PhaseWindow \in Nat /\ d.deadline \in Nat
      BY <1>3, TreeIs, SetsAre DEF TraceDraw
    <3>2. due \in Nat
      BY <3>1
    <3> QED BY <3>1, <3>2
  <2> DEFINE child == ChildOf[b]
  <2>4. child \in Nat
    BY <2>2, SetsAre
  <2> HIDE DEF b, at, child, c
  <2>5. /\ Append(a.path, child) \in Seq(Nat) /\ Append(a.children, b) \in Seq(MaybeBlock)
        /\ Len(Append(a.path, child)) = Len(a.path) + 1 /\ Len(Append(a.children, b)) = Len(a.path) + 1
        /\ \A i \in 1 .. Len(a.path) : /\ Append(a.path, child)[i] = a.path[i]
                                       /\ Append(a.children, b)[i] = a.children[i]
        /\ Append(a.path, child)[n] = child /\ Append(a.children, b)[n] = b
    BY <1>2, <1>3, <2>2, <2>4, AppendProperties DEF MaybeBlock
  <2>6. /\ c \in AttnRecord /\ c.txs = a.txs /\ c.accepted = a.accepted /\ c.late = a.late
        /\ c.path = Append(a.path, child) /\ c.children = Append(a.children, b)
    BY <2>1, <2>3, <2>5 DEF AttnRecord, child
  <2>7. Lengths(c)
    BY <1>1, <1>3, <2>5, <2>6 DEF Lengths
  <2>8. Known(c)
    <3> SUFFICES ASSUME NEW i \in 1 .. n, a.txs[i] = NoTx
                 PROVE  i < n /\ a.accepted[i] = Past /\ c.children[i] = NoBlock
      BY <2>6 DEF Known
    <3>1. i < n /\ a.accepted[i] = Past /\ a.children[i] = NoBlock
      BY <1>1 DEF Known
    <3>2. i \in 1 .. Len(a.path)
      BY <1>2, <1>3, <3>1
    <3> QED BY <2>5, <2>6, <3>1, <3>2
  <2>9. OpenedFor(c, seed)
    <3> SUFFICES ASSUME NEW i \in 1 .. n
                 PROVE  a.txs[i] \in {NoTx, Tx(seed, SubSeq(c.path, 1, i - 1))}
      BY <2>6 DEF OpenedFor
    <3>1. i - 1 \in 0 .. Len(a.path)
      BY <1>2, <1>3
    <3>2. SubSeq(c.path, 1, i - 1) = SubSeq(a.path, 1, i - 1)
      BY <1>2, <2>4, <2>6, <3>1, PrefixOfAppend
    <3> QED BY <1>1, <3>2 DEF OpenedFor
  <2>10. AcceptedOn(c, view, missed, mined) /\ LateOn(c, view, mined)
    BY <1>1, <2>6 DEF AcceptedOn, LateOn
  <2>11. DrawnOn(c, view)
    <3> SUFFICES ASSUME NEW i \in 1 .. Len(c.path), c.children[i] # NoBlock
                 PROVE  /\ a.accepted[i] \in Block /\ c.children[i] = FirstAfter(a.accepted[i], view)
                        /\ c.path[i] = ChildOf[c.children[i]]
      BY <2>6 DEF DrawnOn
    <3>1. CASE i = n
      BY <1>3, <2>5, <2>6, <3>1 DEF b, child
    <3>2. CASE i # n
      <4>1. i \in 1 .. Len(a.path)
        BY <1>2, <1>3, <2>5, <2>6, <3>2
      <4>2. c.children[i] = a.children[i] /\ c.path[i] = a.path[i]
        BY <2>5, <2>6, <4>1
      <4> QED BY <1>1, <4>1, <4>2 DEF DrawnOn
    <3> QED BY <3>1, <3>2
  <2>12. seed \in Chain[view]
    <3>1. a.txs[n] \in Opening /\ a.txs[n] # NoTx
      BY <1>1, LastIs, SetsAre
    <3>2. a.txs[n].seed = seed
      BY <1>1, <1>2, <3>1 DEF OpenedFor, Tx
    <3>3. mined[by].takes = a.txs[n]
      BY <1>1, <1>2, <1>3 DEF AcceptedOn
    <3>4. mined[by] # Unmined
      <4> DEFINE S == {x \in Block : mined[x] # Unmined}
      <4>1. view \in S /\ Closed(S) /\ S \in SUBSET Block
        BY TreeIs DEF NodeInv, Closed
      <4> HIDE DEF S
      <4>2. by \in S
        BY <1>4, <2>2, <4>1, ChainIs
      <4> QED BY <4>2 DEF S
    <3>5. seed \in Chain[by]
      BY <1>3, <3>1, <3>2, <3>3, <3>4 DEF NodeInv
    <3> QED BY <1>4, <2>2, <3>5, ChainOfAncestor
  <2> QED BY <2>6, <2>7, <2>8, <2>9, <2>10, <2>11, <2>12 DEF Held, c
<1> QED BY <1>5, <1>6 DEF OnChain

WithPhase(a, x) ==
    [a EXCEPT !.txs = Append(@, x), !.accepted = Append(@, LateBlock(a, x)), !.late = {e \in @ : e[1] # x}]

\* A phase that was built follows those before it, and with it the block that
\* accepted it before it was built.
LEMMA BuiltHeld ==
    ASSUME NEW v \in Block, NEW a \in AttnRecord, NEW seed, NEW m, NEW M, Held(a, seed, v, m, M),
           NextPhaseOwed(a), NEW x \in Opening, x = Tx(seed, a.path)
    PROVE  LET c == WithPhase(a, x) IN c \in AttnRecord /\ Held(c, seed, v, m, M) /\ ~NextPhaseOwed(c)
<1> DEFINE n == Len(a.txs)
           l == LateBlock(a, x)
           c == WithPhase(a, x)
<1>1. Lengths(a) /\ Known(a) /\ OpenedFor(a, seed) /\ AcceptedOn(a, v, m, M) /\ DrawnOn(a, v)
      /\ LateOn(a, v, M)
  BY DEF Held
<1>2. /\ a.txs \in Seq(Opening \cup {NoTx}) /\ a.accepted \in Seq(MaybeBlock \cup {Past})
      /\ a.path \in Seq(Nat) /\ a.children \in Seq(MaybeBlock)
      /\ a.late \subseteq (Opening \cup {NoTx}) \X Block
      /\ n \in Nat /\ n >= 1 /\ Len(a.accepted) = n
      /\ Len(a.path) \in Nat /\ Len(a.children) = Len(a.path) /\ Len(a.path) = n
  BY <1>1, RecordIs DEF NextPhaseOwed
<1>3. l = NoBlock \/ (l \in Chain[v] /\ l \in Block /\ M[l].takes = x)
  <2>1. CASE \E e \in a.late : e[1] = x
    <3>1. PICK e \in a.late : e[1] = x /\ l = e[2]
      BY <2>1 DEF LateBlock
    <3> QED BY <1>1, <1>2, <3>1 DEF LateOn
  <2>2. CASE ~\E e \in a.late : e[1] = x
    BY <2>2 DEF LateBlock
  <2> QED BY <2>1, <2>2
<1> HIDE DEF l
<1>4. /\ Append(a.txs, x) \in Seq(Opening \cup {NoTx}) /\ Append(a.accepted, l) \in Seq(MaybeBlock \cup {Past})
      /\ Len(Append(a.txs, x)) = n + 1 /\ Len(Append(a.accepted, l)) = n + 1
      /\ \A i \in 1 .. n : Append(a.txs, x)[i] = a.txs[i] /\ Append(a.accepted, l)[i] = a.accepted[i]
      /\ Append(a.txs, x)[n + 1] = x /\ Append(a.accepted, l)[n + 1] = l
  BY <1>2, <1>3, AppendProperties DEF MaybeBlock
<1>5. /\ c \in AttnRecord /\ c.txs = Append(a.txs, x) /\ c.accepted = Append(a.accepted, l)
      /\ c.path = a.path /\ c.children = a.children /\ c.late \subseteq a.late
  <2>1. c = [a EXCEPT !.txs = Append(@, x), !.accepted = Append(@, l), !.late = {e \in @ : e[1] # x}]
    BY DEF WithPhase, l
  <2> HIDE DEF c
  <2> QED BY <1>4, <2>1 DEF AttnRecord
<1> HIDE DEF c
<1>6. Lengths(c) /\ ~NextPhaseOwed(c) /\ \A i \in 1 .. n + 1 : i = n + 1 \/ i \in 1 .. n
  BY <1>2, <1>4, <1>5 DEF Lengths, NextPhaseOwed
<1>7. Known(c)
  <2> SUFFICES ASSUME NEW i \in 1 .. n + 1, c.txs[i] = NoTx
               PROVE  i < n + 1 /\ c.accepted[i] = Past /\ c.children[i] = NoBlock
    BY <1>4, <1>5 DEF Known
  <2>1. i # n + 1
    BY <1>4, <1>5, SetsAre
  <2>2. i \in 1 .. n
    BY <1>6, <2>1
  <2>3. a.txs[i] = NoTx
    BY <1>4, <1>5, <2>2
  <2>4. i < n /\ a.accepted[i] = Past /\ a.children[i] = NoBlock
    BY <1>1, <2>2, <2>3 DEF Known
  <2> QED BY <1>2, <1>4, <1>5, <2>2, <2>4
<1>8. OpenedFor(c, seed)
  <2> SUFFICES ASSUME NEW i \in 1 .. n + 1
               PROVE  c.txs[i] \in {NoTx, Tx(seed, SubSeq(a.path, 1, i - 1))}
    BY <1>4, <1>5 DEF OpenedFor
  <2>1. CASE i = n + 1
    <3>1. i - 1 = n
      BY <1>2, <2>1
    <3>2. SubSeq(a.path, 1, n) = a.path
      <4>1. /\ SubSeq(a.path, 1, n) \in Seq(Nat) /\ Len(SubSeq(a.path, 1, n)) = n
            /\ \A k \in 1 .. n : SubSeq(a.path, 1, n)[k] = a.path[k]
        BY <1>2, PrefixIs
      <4> QED BY <1>2, <4>1, SeqEqual
    <3>3. x = Tx(seed, SubSeq(a.path, 1, i - 1))
      BY <3>1, <3>2
    <3>4. c.txs[i] = x
      BY <1>4, <1>5, <2>1
    <3> QED BY <3>3, <3>4
  <2>2. CASE i \in 1 .. n
    BY <1>1, <1>4, <1>5, <2>2 DEF OpenedFor
  <2> QED BY <1>6, <2>1, <2>2
<1>9. AcceptedOn(c, v, m, M)
  <2> SUFFICES ASSUME NEW i \in 1 .. n + 1, c.accepted[i] \in Block
               PROVE  c.accepted[i] \in Chain[v] \cup m /\ M[c.accepted[i]].takes = c.txs[i]
    BY <1>4, <1>5 DEF AcceptedOn
  <2>1. CASE i = n + 1
    BY <1>3, <1>4, <1>5, <2>1, SetsAre
  <2>2. CASE i \in 1 .. n
    BY <1>1, <1>4, <1>5, <2>2 DEF AcceptedOn
  <2> QED BY <1>6, <2>1, <2>2
<1>10. DrawnOn(c, v)
  BY <1>1, <1>2, <1>4, <1>5 DEF DrawnOn
<1>11. LateOn(c, v, M)
  BY <1>1, <1>5 DEF LateOn
<1> QED BY <1>5, <1>6, <1>7, <1>8, <1>9, <1>10, <1>11 DEF Held, c

\* What is restored from the disk is held on any chain, but for the blocks that
\* left the chain meanwhile.
LEMMA RestoredHeld ==
    ASSUME NEW v \in Block, NEW t \in Block, NEW a \in AttnRecord, NEW seed, NEW m, NEW M,
           Held(a, seed, v, m, M)
    PROVE  LET c == RestoredPhases(a) IN
           c \in AttnRecord /\ Held(c, seed, t, m \cup (Chain[v] \ Chain[t]), M) /\ ~NextPhaseOwed(c)
<1> DEFINE n == Len(a.txs)
           x == a.txs[n]
           txs == [i \in 1 .. n |-> IF i < n THEN NoTx ELSE x]
           accepted == [i \in 1 .. n |-> IF i < n THEN Past ELSE a.accepted[n]]
           path == SubSeq(a.path, 1, n - 1)
           children == [i \in 1 .. n - 1 |-> NoBlock]
           c == RestoredPhases(a)
<1>1. Lengths(a) /\ Known(a) /\ OpenedFor(a, seed) /\ AcceptedOn(a, v, m, M) /\ DrawnOn(a, v)
      /\ LateOn(a, v, M)
  BY DEF Held
<1>2. /\ a.path \in Seq(Nat) /\ n \in Nat /\ n >= 1 /\ n \in 1 .. n /\ n - 1 \in Nat
      /\ n - 1 \in 0 .. Len(a.path) /\ a.accepted[n] \in MaybeBlock \cup {Past}
      /\ x \in Opening /\ a.deadline \in Nat
  <2>1. /\ a.path \in Seq(Nat) /\ n \in Nat /\ n >= 1 /\ Len(a.path) \in Nat
        /\ Len(a.path) = n \/ Len(a.path) = n - 1
        /\ \A i \in 1 .. n : a.accepted[i] \in MaybeBlock \cup {Past}
    BY <1>1, RecordIs
  <2>2. n \in 1 .. n /\ n - 1 \in Nat /\ n - 1 \in 0 .. Len(a.path)
    BY <2>1
  <2>3. x \in Opening /\ a.deadline \in Nat
    BY <1>1, LastIs DEF AttnRecord
  <2> QED BY <2>1, <2>2, <2>3
<1>3. path \in Seq(Nat) /\ Len(path) = n - 1
  BY <1>2, PrefixIs
<1>4. txs \in Seq(Opening \cup {NoTx}) /\ Len(txs) = n /\ \A i \in 1 .. n : txs[i] = IF i < n THEN NoTx ELSE x
  BY <1>2
<1>5. accepted \in Seq(MaybeBlock \cup {Past}) /\ Len(accepted) = n
      /\ \A i \in 1 .. n : accepted[i] = IF i < n THEN Past ELSE a.accepted[n]
  BY <1>2
<1>6. children \in Seq(MaybeBlock) /\ Len(children) = n - 1 /\ \A i \in 1 .. n - 1 : children[i] = NoBlock
  BY <1>2 DEF MaybeBlock
<1>7. c = [New(x, a.deadline) EXCEPT !.txs = txs, !.accepted = accepted, !.path = path, !.children = children]
  BY DEF RestoredPhases
<1> HIDE DEF txs, accepted, path, children
<1>8. c = [txs |-> txs, accepted |-> accepted, path |-> path, children |-> children,
           deadline |-> a.deadline, opened |-> FALSE, dropped |-> {}, late |-> {}]
  BY <1>7 DEF New
<1> HIDE DEF c
<1>9. /\ c \in AttnRecord /\ c.txs = txs /\ c.accepted = accepted /\ c.path = path /\ c.children = children
      /\ c.late = {}
  BY <1>2, <1>3, <1>4, <1>5, <1>6, <1>8 DEF AttnRecord
<1>10. Lengths(c) /\ ~NextPhaseOwed(c)
  BY <1>2, <1>3, <1>4, <1>5, <1>6, <1>9 DEF Lengths, NextPhaseOwed
<1>11. \A i \in 1 .. n : i = n \/ (i < n /\ i \in 1 .. n - 1)
  BY <1>2
<1>12. x # NoTx
  BY <1>2, SetsAre
<1>13. Known(c)
  <2> SUFFICES ASSUME NEW i \in 1 .. n, txs[i] = NoTx
               PROVE  i < n /\ accepted[i] = Past /\ children[i] = NoBlock
    BY <1>4, <1>9 DEF Known
  <2>1. i # n
    BY <1>2, <1>4, <1>12
  <2> QED BY <1>5, <1>6, <1>11, <2>1
<1>14. OpenedFor(c, seed)
  <2> SUFFICES ASSUME NEW i \in 1 .. n PROVE txs[i] \in {NoTx, Tx(seed, SubSeq(path, 1, i - 1))}
    BY <1>4, <1>9 DEF OpenedFor
  <2>1. CASE i < n
    BY <1>4, <2>1
  <2>2. CASE i = n
    <3>1. txs[n] = x
      BY <1>2, <1>4
    <3>2. x = Tx(seed, SubSeq(a.path, 1, n - 1))
      BY <1>1, <1>2, <1>12 DEF OpenedFor
    <3>3. n - 1 \in 0 .. n - 1
      BY <1>2
    <3>4. SubSeq(path, 1, n - 1) = SubSeq(a.path, 1, n - 1)
      BY <1>2, <3>3, PrefixOfPrefix DEF path
    <3> QED BY <2>2, <3>1, <3>2, <3>4
  <2> QED BY <1>11, <2>1, <2>2
<1>15. AcceptedOn(c, t, m \cup (Chain[v] \ Chain[t]), M)
  <2> SUFFICES ASSUME NEW i \in 1 .. n, accepted[i] \in Block
               PROVE  /\ accepted[i] \in Chain[t] \cup (m \cup (Chain[v] \ Chain[t]))
                      /\ M[accepted[i]].takes = txs[i]
    BY <1>4, <1>9 DEF AcceptedOn
  <2>1. i = n /\ accepted[i] = a.accepted[n] /\ txs[i] = x
    BY <1>4, <1>5, <1>11, SetsAre
  <2>2. a.accepted[n] \in Chain[v] \cup m /\ M[a.accepted[n]].takes = x
    BY <1>1, <1>2, <2>1 DEF AcceptedOn
  <2> QED BY <2>1, <2>2
<1>16. DrawnOn(c, t)
  BY <1>3, <1>6, <1>9 DEF DrawnOn
<1>17. LateOn(c, t, M)
  BY <1>9 DEF LateOn
<1> QED BY <1>9, <1>10, <1>13, <1>14, <1>15, <1>16, <1>17 DEF Held, c

-----------------------------------------------------------------------------
\* Traces.

\* What is mined is on chains that are mined.
LEMMA ChainIsMined ==
    ASSUME NodeInv, NEW t \in Block, mined[t] # Unmined
    PROVE  \A b \in Chain[t] : b \in Block /\ mined[b] # Unmined
<1> DEFINE S == {x \in Block : mined[x] # Unmined}
<1>1. t \in S /\ Closed(S) /\ S \in SUBSET Block
  BY TreeIs DEF NodeInv, Closed
<1> HIDE DEF S
<1>2. Chain[t] \subseteq S
  BY <1>1, ChainIs
<1> QED BY <1>2 DEF S

\* Marks of progress do not count.
LEMMA SameSound ==
    ASSUME NEW q, NEW v, NEW m, NEW M, Sound(q, v, m, M), NEW r \in PendingTrace,
           r.acc = q.acc, r.opening = q.opening,
           r.draw # None <=> q.draw # None, r.draw # None => r.draw.seed = q.draw.seed,
           r.attn # None => /\ q.attn # None
                            /\ r.attn.txs = q.attn.txs /\ r.attn.accepted = q.attn.accepted
                            /\ r.attn.path = q.attn.path /\ r.attn.children = q.attn.children
                            /\ r.attn.late = q.attn.late
    PROVE  Sound(r, v, m, M)
<1>1. /\ r.acc \in {NoBlock, AcceptedBy[v]}
      /\ r.draw # None => r.acc # NoBlock /\ r.draw.seed = FirstAfter(r.acc, v)
      /\ r.opening # NoBlock => r.acc # NoBlock /\ r.opening = FirstAfter(r.acc, r.opening)
  BY DEF Sound
<1>2. ASSUME r.attn # None
      PROVE  /\ Depth > 0 /\ r.opening # NoBlock /\ Held(r.attn, r.opening, v, m, M)
             /\ NextPhaseOwed(r.attn) => r.draw # None /\ r.draw.seed = r.opening
  <2>1. /\ Depth > 0 /\ q.opening # NoBlock /\ Held(q.attn, q.opening, v, m, M)
        /\ NextPhaseOwed(q.attn) => q.draw # None /\ q.draw.seed = q.opening
    BY <1>2 DEF Sound
  <2>2. Held(r.attn, q.opening, v, m, M) /\ (NextPhaseOwed(r.attn) <=> NextPhaseOwed(q.attn))
    BY <1>2, <2>1, SameHeld
  <2> QED BY <2>1, <2>2
<1> QED BY <1>1, <1>2 DEF Sound

\* on_chain_blocks_removed, where what the chain v has beside gone is on t.
LEMMA RemovedSound ==
    ASSUME NEW v \in Block, NEW t \in Block, NEW gone \in SUBSET Block,
           \A b \in Chain[v] : b \notin gone => b \in Chain[t],
           NEW q, NEW f, NEW m, NEW M, Sound(q, v, m, M)
    PROVE  Sound(Removed(State(q, f), gone).p, t, m, M)
<1> DEFINE s == State(q, f)
           a == IF q.attn = None THEN None ELSE [q.attn EXCEPT !.late = {e \in @ : e[2] \notin gone}]
           cut == OnRemoved(a, gone)
           Reset(acc) == State([q EXCEPT !.acc = acc, !.draw = None, !.opening = NoBlock, !.attn = None], <<>>)
           r == Removed(s, gone).p
           due == IF q.draw # None /\ q.draw.deadline < cut.deadline THEN q.draw.deadline ELSE cut.deadline
<1>0. s.p = q /\ s.f = f /\ NoBlock \notin gone /\ s = [p |-> q, f |-> f]
  BY SetsAre DEF State
<1>1. /\ q \in PendingTrace /\ q.acc \in {NoBlock, AcceptedBy[v]} /\ q.acc \in MaybeBlock
      /\ q.draw \in TraceDraw \cup {None} /\ q.attn \in AttnRecord \cup {None} /\ q.opening \in MaybeBlock
      /\ q.draw # None => q.acc # NoBlock /\ q.draw.seed = FirstAfter(q.acc, v)
      /\ q.opening # NoBlock => q.acc # NoBlock /\ q.opening = FirstAfter(q.acc, q.opening)
      /\ q.attn # None => /\ Depth > 0 /\ q.opening # NoBlock /\ Held(q.attn, q.opening, v, m, M)
                          /\ NextPhaseOwed(q.attn) => q.draw # None /\ q.draw.seed = q.opening
  BY DEF Sound, PendingTrace
<1>2. ASSUME NEW acc \in {NoBlock, q.acc}, acc \in {NoBlock, AcceptedBy[t]}
      PROVE  Sound(Reset(acc).p, t, m, M)
  <2> DEFINE u == [q EXCEPT !.acc = acc, !.draw = None, !.opening = NoBlock, !.attn = None]
  <2>1. Reset(acc).p = u
    BY DEF State
  <2>2. u \in PendingTrace /\ u.acc = acc /\ u.draw = None /\ u.opening = NoBlock /\ u.attn = None
    BY <1>1, <1>2 DEF PendingTrace, MaybeBlock
  <2> HIDE DEF u
  <2>3. Sound(u, t, m, M)
    BY <1>2, <2>2 DEF Sound
  <2> QED BY <2>1, <2>3
<1>3. CASE q.acc \in gone
  <2>1. r = Reset(NoBlock).p
    BY <1>0, <1>3 DEF Removed
  <2>2. Sound(Reset(NoBlock).p, t, m, M)
    BY <1>2
  <2> QED BY <2>1, <2>2
<1>4. ASSUME q.acc \notin gone PROVE q.acc \in {NoBlock, AcceptedBy[t]}
  <2>1. CASE q.acc = NoBlock
    BY <2>1
  <2>2. CASE q.acc # NoBlock
    <3>1. q.acc = AcceptedBy[v] /\ q.acc \in Chain[v]
      BY <1>1, <2>2, AcceptedByIs
    <3>2. q.acc \in Chain[t]
      BY <1>4, <3>1
    <3> QED BY <3>1, <3>2, AcceptedByIs
  <2> QED BY <2>1, <2>2
<1>5. CASE q.acc \notin gone /\ q.draw # None /\ q.draw.seed \in gone
  <2>1. r = Reset(q.acc).p
    BY <1>0, <1>5 DEF Removed
  <2>2. Sound(Reset(q.acc).p, t, m, M)
    BY <1>2, <1>4, <1>5
  <2> QED BY <2>1, <2>2
<1>6. CASE q.acc \notin gone /\ (q.draw # None => q.draw.seed \notin gone)
  <2>1. q.acc \in {NoBlock, AcceptedBy[t]}
    BY <1>4, <1>6
  <2>2. q.draw # None => q.acc # NoBlock /\ q.draw.seed = FirstAfter(q.acc, t)
    <3> SUFFICES ASSUME q.draw # None PROVE q.acc # NoBlock /\ q.draw.seed = FirstAfter(q.acc, t)
      OBVIOUS
    <3>1. q.acc \in Block /\ q.draw.seed = FirstAfter(q.acc, v) /\ q.draw.seed \in Block
      BY <1>1 DEF MaybeBlock, TraceDraw
    <3>2. q.draw.seed \in Chain[v]
      BY <3>1, FirstAfterIs, SetsAre
    <3>3. q.draw.seed \in Chain[t]
      BY <1>6, <3>2
    <3> QED BY <1>1, <3>1, <3>3, FirstAfterIs
  <2>3. ASSUME q.attn # None
        PROVE  /\ a \in AttnRecord /\ Held(a, q.opening, v, m, M) /\ \A e \in a.late : e[2] \notin gone
               /\ NextPhaseOwed(a) => q.draw # None /\ q.draw.seed = q.opening
    <3>1. a = [q.attn EXCEPT !.late = {e \in @ : e[2] \notin gone}] /\ q.attn \in AttnRecord
      BY <1>1, <2>3
    <3> HIDE DEF a
    <3>2. /\ a \in AttnRecord /\ a.txs = q.attn.txs /\ a.accepted = q.attn.accepted /\ a.path = q.attn.path
          /\ a.children = q.attn.children /\ a.late = {e \in q.attn.late : e[2] \notin gone}
      BY <3>1 DEF AttnRecord
    <3>3. Held(a, q.opening, v, m, M) /\ (NextPhaseOwed(a) <=> NextPhaseOwed(q.attn))
      BY <1>1, <2>3, <3>2, SameHeld
    <3> QED BY <1>1, <2>3, <3>2, <3>3
  <2>4. CASE a # None /\ Undone(a, gone) # {}
    <3>1. q.attn # None /\ q.opening # NoBlock
      BY <1>1, <2>4
    <3>2. /\ cut \in AttnRecord /\ Held(cut, q.opening, t, m, M) /\ ~NextPhaseOwed(cut)
      BY <2>3, <2>4, <3>1, OnRemovedHeld
    <3>3. r = [q EXCEPT !.attn = [cut EXCEPT !.deadline = due]]
      BY <1>0, <1>6, <2>4 DEF Removed, State
    <3> HIDE DEF cut, r, a
    <3>4. due \in Nat
      BY <1>1, <3>2 DEF AttnRecord, TraceDraw
    <3> HIDE DEF due
    <3> DEFINE b == [cut EXCEPT !.deadline = due]
    <3>5. /\ b \in AttnRecord /\ b.txs = cut.txs /\ b.accepted = cut.accepted /\ b.path = cut.path
          /\ b.children = cut.children /\ b.late = cut.late
      BY <3>2, <3>4 DEF AttnRecord
    <3> HIDE DEF b
    <3>6. Held(b, q.opening, t, m, M) /\ ~NextPhaseOwed(b)
      BY <3>2, <3>5, SameHeld
    <3>7. /\ r \in PendingTrace /\ r.acc = q.acc /\ r.draw = q.draw /\ r.opening = q.opening /\ r.attn = b
      BY <1>1, <3>3, <3>5 DEF PendingTrace, b
    <3>8. Sound(r, t, m, M)
      BY <1>1, <2>1, <2>2, <3>1, <3>6, <3>7 DEF Sound
    <3> QED BY <3>8 DEF r
  <2>5. CASE ~(a # None /\ Undone(a, gone) # {})
    <3>1. r = [q EXCEPT !.attn = a]
      BY <1>0, <1>6, <2>5 DEF Removed, State
    <3>2. a \in AttnRecord \cup {None} /\ (q.attn = None => a = None)
      BY <2>3
    <3>3. ASSUME a # None PROVE Held(a, q.opening, t, m, M)
      <4>1. q.attn # None /\ Undone(a, gone) = {}
        BY <2>5, <3>3
      <4> HIDE DEF a
      <4>2. a \in AttnRecord /\ Held(a, q.opening, v, m, M) /\ \A e \in a.late : e[2] \notin gone
        BY <2>3, <4>1
      <4>3. /\ \A i \in 1 .. Len(a.txs) : a.accepted[i] \notin gone
            /\ \A i \in 1 .. Len(a.path) : a.children[i] \notin gone
        <5>1. Len(a.accepted) = Len(a.txs) /\ Len(a.children) = Len(a.path)
          BY <4>2 DEF Held, Lengths
        <5> QED BY <4>1, <5>1 DEF Undone
      <4> QED BY <4>2, <4>3, StaysHeld
    <3> HIDE DEF a, r
    <3>4. /\ r \in PendingTrace /\ r.acc = q.acc /\ r.draw = q.draw /\ r.opening = q.opening /\ r.attn = a
      BY <1>1, <3>1, <3>2 DEF PendingTrace
    <3>5. Sound(r, t, m, M)
      BY <1>1, <2>1, <2>2, <2>3, <3>2, <3>3, <3>4 DEF Sound
    <3> QED BY <3>5 DEF r
  <2> QED BY <2>4, <2>5
<1> QED BY <1>3, <1>5, <1>6

\* What Sound says of a trace.
LEMMA SoundIs ==
    ASSUME NEW q, NEW v, NEW m, NEW M, Sound(q, v, m, M)
    PROVE  /\ q \in PendingTrace /\ q.acc \in {NoBlock, AcceptedBy[v]} /\ q.acc \in MaybeBlock
           /\ q.draw \in TraceDraw \cup {None} /\ q.attn \in AttnRecord \cup {None} /\ q.opening \in MaybeBlock
           /\ q.openingDeadline \in Nat /\ q.built \subseteq Block /\ q.phase \in Opening \cup {NoTx}
           /\ q.awaits \in {"unknown", "yes", "no"}
           /\ q.draw # None => /\ q.acc # NoBlock /\ q.draw.seed = FirstAfter(q.acc, v)
                               /\ q.draw \in TraceDraw /\ q.draw.seed \in Block /\ q.draw.deadline \in Nat
           /\ q.opening # NoBlock => q.acc # NoBlock /\ q.opening = FirstAfter(q.acc, q.opening)
           /\ q.attn # None => /\ Depth > 0 /\ q.opening # NoBlock /\ Held(q.attn, q.opening, v, m, M)
                               /\ NextPhaseOwed(q.attn) => q.draw # None /\ q.draw.seed = q.opening
                               /\ q.attn \in AttnRecord
BY DEF Sound, PendingTrace, TraceDraw

\* note_opening_acceptances and note_phase_acceptances.
LEMMA NotedSound ==
    ASSUME NodeInv, NEW v \in Block, NEW S \in SUBSET Chain[v], mined[v] # Unmined,
           NEW q, NEW f, NEW m, Sound(q, v, m, mined)
    PROVE  Sound(Noted(State(q, f), S, v).p, v, m, mined)
<1> DEFINE acc == IF q.acc = NoBlock /\ AcceptedBy[v] \in S THEN AcceptedBy[v] ELSE q.acc
           c == NotePhases(q.attn, S)
           attn == IF q.attn = None THEN None ELSE c
           r == [q EXCEPT !.acc = acc, !.attn = attn]
<1>1. Noted(State(q, f), S, v).p = r
  BY DEF Noted, State
<1>2. /\ q \in PendingTrace /\ q.acc \in {NoBlock, AcceptedBy[v]} /\ q.acc \in MaybeBlock
      /\ q.attn \in AttnRecord \cup {None}
      /\ q.draw # None => q.acc # NoBlock /\ q.draw.seed = FirstAfter(q.acc, v)
      /\ q.opening # NoBlock => q.acc # NoBlock /\ q.opening = FirstAfter(q.acc, q.opening)
      /\ q.attn # None => /\ Depth > 0 /\ q.opening # NoBlock /\ Held(q.attn, q.opening, v, m, mined)
                          /\ NextPhaseOwed(q.attn) => q.draw # None /\ q.draw.seed = q.opening
  BY SoundIs
<1>3. acc \in MaybeBlock /\ acc \in {NoBlock, AcceptedBy[v]} /\ (q.acc # NoBlock => acc = q.acc)
  BY <1>2, AcceptedByIs DEF MaybeBlock
<1>4. \A b \in S : mined[b] # Unmined
  BY ChainIsMined
<1>5. ASSUME q.attn # None
      PROVE  /\ c \in AttnRecord /\ Held(c, q.opening, v, m, mined)
             /\ NextPhaseOwed(c) => q.draw # None /\ q.draw.seed = q.opening
  BY <1>2, <1>4, <1>5, NotePhasesHeld
<1>6. attn \in AttnRecord \cup {None}
  BY <1>5
<1>7. attn # None => q.attn # None /\ attn = c
  OBVIOUS
<1> HIDE DEF acc, attn, c
<1>8. /\ r \in PendingTrace /\ r.acc = acc /\ r.attn = attn /\ r.draw = q.draw /\ r.opening = q.opening
  BY <1>2, <1>3, <1>6 DEF PendingTrace
<1> HIDE DEF r
<1>9. Sound(r, v, m, mined)
  BY <1>2, <1>3, <1>5, <1>7, <1>8 DEF Sound
<1> QED BY <1>1, <1>9

\* resolve_traces draws the response for the block the rule names, and a child only
\* when it is drawn for the block of the opening.
LEMMA ResolveSound ==
    ASSUME NodeInv, NEW q, Sound(q, view, missed, mined)
    PROVE  Sound(Resolve(q), view, missed, mined)
<1> DEFINE d == Drawn(q)
           c == ChildDrawn(q.draw, q.attn)
           children == q.draw # None /\ q.attn # None /\ AwaitingDraw(q.attn)
           attn == IF children THEN c ELSE q.attn
           r == [q EXCEPT !.draw = d, !.attn = attn]
<1>1. Resolve(q) = r
  BY DEF Resolve
<1>2. /\ q \in PendingTrace /\ q.acc \in {NoBlock, AcceptedBy[view]} /\ q.acc \in MaybeBlock
      /\ q.draw \in TraceDraw \cup {None} /\ q.attn \in AttnRecord \cup {None} /\ q.opening \in MaybeBlock
      /\ q.draw # None => /\ q.acc # NoBlock /\ q.draw.seed = FirstAfter(q.acc, view)
                          /\ q.draw \in TraceDraw
      /\ q.opening # NoBlock => q.acc # NoBlock /\ q.opening = FirstAfter(q.acc, q.opening)
      /\ q.attn # None => /\ Depth > 0 /\ q.opening # NoBlock /\ Held(q.attn, q.opening, view, missed, mined)
                          /\ NextPhaseOwed(q.attn) => q.draw # None /\ q.draw.seed = q.opening
  BY SoundIs
<1>3. view \in Block
  BY DEF NodeInv
<1>4. \/ d = q.draw /\ (q.draw = None \/ d # None)
      \/ q.draw = None /\ q.acc # NoBlock /\ d \in TraceDraw /\ d # None /\ d.seed = FirstAfter(q.acc, view)
  <2> DEFINE seed == IF q.opening # NoBlock /\ OnChain(q.opening, view) THEN q.opening
                     ELSE FirstAfter(q.acc, view)
             e == [seed |-> seed, deadline |-> Daa[seed] + FirstWindow, started |-> q.opening = seed]
  <2>1. CASE q.draw # None \/ q.acc = NoBlock \/ seed = NoBlock
    BY <2>1 DEF Drawn
  <2>2. CASE q.draw = None /\ q.acc # NoBlock /\ seed # NoBlock
    <3>1. d = e
      BY <2>2 DEF Drawn
    <3>2. q.acc \in Block
      BY <1>2, <2>2 DEF MaybeBlock
    <3>3. seed = FirstAfter(q.acc, view)
      <4>1. CASE q.opening # NoBlock /\ OnChain(q.opening, view)
        <5>1. q.opening \in Chain[view] /\ q.opening \in Block /\ q.opening = FirstAfter(q.acc, q.opening)
          BY <1>2, <1>3, <4>1, ChainIs DEF OnChain
        <5> QED BY <1>3, <3>2, <4>1, <5>1, FirstAfterIs
      <4>2. CASE ~(q.opening # NoBlock /\ OnChain(q.opening, view))
        BY <4>2
      <4> QED BY <4>1, <4>2
    <3>4. seed \in Block
      BY <1>3, <2>2, <3>2, <3>3, FirstAfterIs
    <3> HIDE DEF seed
    <3>5. Daa[seed] + FirstWindow \in Nat
      BY <3>4, TreeIs, SetsAre
    <3>6. e \in TraceDraw /\ e.seed = seed
      BY <3>4, <3>5 DEF TraceDraw
    <3>7. e # None
      BY <3>6, SetsAre
    <3> QED BY <2>2, <3>1, <3>3, <3>6, <3>7
  <2> QED BY <2>1, <2>2
<1>5. d \in TraceDraw \cup {None} /\ (d # None => q.acc # NoBlock /\ d.seed = FirstAfter(q.acc, view))
      /\ (q.draw # None => d = q.draw)
  BY <1>2, <1>4
<1>6. ASSUME children
      PROVE  /\ c \in AttnRecord /\ Held(c, q.opening, view, missed, mined)
             /\ NextPhaseOwed(c) => q.draw # None /\ q.draw.seed = q.opening
  <2>1. /\ c \in AttnRecord /\ Held(c, q.opening, view, missed, mined)
        /\ NextPhaseOwed(c) => q.opening \in Chain[view]
    BY <1>2, <1>6, ChildDrawnHeld
  <2>2. ASSUME NextPhaseOwed(c) PROVE q.draw.seed = q.opening
    <3>1. q.acc \in Block /\ q.opening \in Block /\ q.opening \in Chain[view]
      BY <1>2, <1>6, <2>1, <2>2 DEF MaybeBlock
    <3>2. q.opening = FirstAfter(q.acc, q.opening) /\ q.draw.seed = FirstAfter(q.acc, view)
      BY <1>2, <1>6
    <3>3. FirstAfter(q.acc, view) = q.opening
      BY <1>3, <3>1, <3>2, FirstAfterIs
    <3> QED BY <3>2, <3>3
  <2> QED BY <1>6, <2>1, <2>2
<1>7. attn \in AttnRecord \cup {None} /\ (attn # None => q.attn # None)
      /\ (attn # None => /\ Held(attn, q.opening, view, missed, mined)
                         /\ NextPhaseOwed(attn) => q.draw # None /\ q.draw.seed = q.opening)
  <2>1. CASE children
    BY <1>6, <2>1
  <2>2. CASE ~children
    BY <1>2, <2>2
  <2> QED BY <2>1, <2>2
<1> HIDE DEF d, attn, c, children
<1>8. /\ r \in PendingTrace /\ r.acc = q.acc /\ r.attn = attn /\ r.draw = d /\ r.opening = q.opening
  BY <1>2, <1>5, <1>7 DEF PendingTrace
<1> HIDE DEF r
<1>9. Sound(r, view, missed, mined)
  BY <1>2, <1>5, <1>7, <1>8 DEF Sound
<1> QED BY <1>1, <1>9

\* submit_opening: the opening and its phases are for the block of the draw.
LEMMA SubmittedSound ==
    ASSUME NEW v \in Block, NEW q, NEW f, NEW m, NEW M, Sound(q, v, m, M), NEW seed
    PROVE  Sound(Submitted(State(q, f), seed).p, v, m, M)
<1> DEFINE new == New(Tx(seed, <<>>), q.draw.deadline)
           attn == IF Depth > 0 THEN new ELSE q.attn
           d == [q.draw EXCEPT !.started = TRUE]
           r == [q EXCEPT !.draw = d, !.opening = seed, !.openingDeadline = q.draw.deadline, !.attn = attn]
<1>1. /\ q \in PendingTrace /\ q.acc \in {NoBlock, AcceptedBy[v]} /\ q.acc \in MaybeBlock
      /\ q.draw # None => /\ q.acc # NoBlock /\ q.draw.seed = FirstAfter(q.acc, v)
                          /\ q.draw \in TraceDraw /\ q.draw.seed \in Block /\ q.draw.deadline \in Nat
      /\ q.attn # None => Depth > 0
  BY SoundIs
<1>2. CASE q.draw = None \/ q.draw.seed # seed
  <2>1. Submitted(State(q, f), seed).p = q
    BY <1>2 DEF Submitted, State
  <2> QED BY <2>1
<1>3. CASE q.draw # None /\ q.draw.seed = seed
  <2>1. Submitted(State(q, f), seed).p = [q EXCEPT !.draw.started = TRUE, !.opening = seed,
                                              !.openingDeadline = q.draw.deadline, !.attn = attn]
    BY <1>3 DEF Submitted, State
  <2>2. seed \in Block /\ seed # NoBlock /\ q.acc \in Block
    BY <1>1, <1>3, SetsAre DEF MaybeBlock
  <2>3. new \in AttnRecord /\ Held(new, seed, v, m, M) /\ ~NextPhaseOwed(new)
    BY <1>1, <1>3, <2>2, NewHeld
  <2>4. attn \in AttnRecord \cup {None}
    BY <1>1, <2>3 DEF PendingTrace
  <2>5. attn # None => Depth > 0 /\ attn = new
    BY <1>1
  <2> HIDE DEF new, attn
  <2>6. /\ d \in TraceDraw /\ d.seed = seed
    BY <1>1, <1>3 DEF TraceDraw
  <2>7. Submitted(State(q, f), seed).p = r
    BY <1>1, <2>1 DEF PendingTrace
  <2>8. d # None
    BY <2>6, SetsAre
  <2> HIDE DEF d
  <2>9. /\ r \in PendingTrace /\ r.acc = q.acc /\ r.attn = attn /\ r.draw = d /\ r.opening = seed
    BY <1>1, <1>3, <2>2, <2>4, <2>6 DEF PendingTrace, MaybeBlock
  <2> HIDE DEF r
  <2>10. seed \in Chain[v] /\ seed \in Chain[seed]
    BY <1>1, <1>3, <2>2, FirstAfterIs, ChainIs
  <2>11. FirstAfter(q.acc, seed) = seed
    BY <1>1, <1>3, <2>2, <2>10, FirstAfterIs
  <2>12. Sound(r, v, m, M)
    BY <1>1, <1>3, <2>2, <2>3, <2>5, <2>6, <2>8, <2>9, <2>11, SetsAre DEF Sound
  <2> QED BY <2>7, <2>12
<1> QED BY <1>2, <1>3

\* on_attention_phase_built: a phase is added for the path it was built for.
LEMMA PhaseBuiltSound ==
    ASSUME NEW v \in Block, NEW q, NEW f, NEW m, NEW M, Sound(q, v, m, M), NEW x \in Opening
    PROVE  Sound(PhaseBuilt(State(q, f), x).p, v, m, M)
<1> DEFINE a == q.attn
           c == WithPhase(a, x)
           r == [q EXCEPT !.attn = c]
           k == [q EXCEPT !.phase = x]
<1>1. /\ q \in PendingTrace /\ q.acc \in {NoBlock, AcceptedBy[v]}
      /\ q.draw # None => q.acc # NoBlock /\ q.draw.seed = FirstAfter(q.acc, v)
      /\ q.opening # NoBlock => q.acc # NoBlock /\ q.opening = FirstAfter(q.acc, q.opening)
      /\ q.attn # None => /\ Depth > 0 /\ q.opening # NoBlock /\ Held(q.attn, q.opening, v, m, M)
                          /\ NextPhaseOwed(q.attn) => q.draw # None /\ q.draw.seed = q.opening
                          /\ q.attn \in AttnRecord
  BY SoundIs
<1>2. CASE ~Current(q, x)
  <2>1. PhaseBuilt(State(q, f), x).p = k
    BY <1>2 DEF PhaseBuilt, State
  <2>2. /\ k \in PendingTrace /\ k.acc = q.acc /\ k.attn = q.attn /\ k.draw = q.draw /\ k.opening = q.opening
    BY <1>1 DEF PendingTrace
  <2> HIDE DEF k
  <2>3. Sound(k, v, m, M)
    BY <2>2, SameSound
  <2> QED BY <2>1, <2>3
<1>3. CASE Current(q, x)
  <2>1. PhaseBuilt(State(q, f), x).p = r
    BY <1>3 DEF PhaseBuilt, State, WithPhase
  <2>2. q.draw # None /\ q.draw.seed = x.seed /\ a # None /\ a.path = x.path /\ Len(a.txs) = Len(x.path)
    BY <1>3 DEF Current
  <2>3. NextPhaseOwed(a)
    BY <2>2 DEF NextPhaseOwed
  <2>4. x = Tx(q.opening, a.path)
    BY <1>1, <2>2, <2>3 DEF Opening, Tx
  <2> DEFINE seed == q.opening
  <2> HIDE DEF seed
  <2>5. a \in AttnRecord /\ Held(a, seed, v, m, M) /\ NextPhaseOwed(a) /\ x = Tx(seed, a.path)
    BY <1>1, <2>2, <2>3, <2>4 DEF seed
  <2> HIDE DEF a
  <2>6. c \in AttnRecord /\ Held(c, seed, v, m, M) /\ ~NextPhaseOwed(c)
    BY <2>5, BuiltHeld
  <2> HIDE DEF c
  <2>7. /\ r \in PendingTrace /\ r.acc = q.acc /\ r.attn = c /\ r.draw = q.draw /\ r.opening = q.opening
    BY <1>1, <2>6 DEF PendingTrace
  <2> HIDE DEF r
  <2>8. Sound(r, v, m, M)
    BY <1>1, <2>2, <2>6, <2>7 DEF Sound, seed, a
  <2> QED BY <2>1, <2>8
<1> QED BY <1>2, <1>3

\* restore_traces gives a new handler what it needs to be on the chain of t, but
\* for the blocks that left the chain meanwhile.
LEMMA RestoredSound ==
    ASSUME NEW v \in Block, NEW t \in Block, NEW q, NEW f, NEW m, NEW M, Sound(q, v, m, M),
           q.acc # NoBlock => q.acc \in Chain[t]
    PROVE  Sound(Restored(State(q, f)).p, t, m \cup (Chain[v] \ Chain[t]), M)
<1> DEFINE c == RestoredPhases(q.attn)
           attn == IF q.attn = None THEN None ELSE c
           r == [q EXCEPT !.draw = None, !.built = {}, !.phase = NoTx, !.awaits = "unknown", !.attn = attn]
<1>1. /\ q \in PendingTrace /\ q.acc \in {NoBlock, AcceptedBy[v]}
      /\ q.opening # NoBlock => q.acc # NoBlock /\ q.opening = FirstAfter(q.acc, q.opening)
      /\ q.attn # None => /\ Depth > 0 /\ q.opening # NoBlock /\ Held(q.attn, q.opening, v, m, M)
                          /\ q.attn \in AttnRecord
  BY SoundIs
<1>2. Restored(State(q, f)).p = r
  BY DEF Restored, State
<1>3. ASSUME q.attn # None
      PROVE  c \in AttnRecord /\ Held(c, q.opening, t, m \cup (Chain[v] \ Chain[t]), M) /\ ~NextPhaseOwed(c)
  BY <1>1, <1>3, RestoredHeld
<1>4. attn \in AttnRecord \cup {None} /\ (attn # None => q.attn # None /\ attn = c)
  BY <1>3
<1> HIDE DEF attn, c
<1>5. /\ r \in PendingTrace /\ r.acc = q.acc /\ r.attn = attn /\ r.draw = None /\ r.opening = q.opening
  BY <1>1, <1>4 DEF PendingTrace
<1> HIDE DEF r
<1>6. q.acc \in {NoBlock, AcceptedBy[t]}
  BY <1>1, AcceptedByIs
<1>7. Sound(r, t, m \cup (Chain[v] \ Chain[t]), M)
  BY <1>1, <1>3, <1>4, <1>5, <1>6 DEF Sound
<1> QED BY <1>2, <1>7

\* apply_awaited_openings: the seed block of the node is the one the rule names.
LEMMA AppliedSound ==
    ASSUME NEW v \in Block, NEW q, NEW f, NEW m, NEW M, Sound(q, v, m, M), q.acc # NoBlock,
           NEW seed \in Block, seed = FirstAfter(q.acc, v), NEW deadline \in Nat
    PROVE  Sound(Applied(State(q, f), seed, deadline).p, v, m, M)
<1> DEFINE s == State(q, f)
           phases == q.attn # None /\ q.attn.path # <<>>
           d == [seed |-> seed, deadline |-> deadline, started |-> q.opening = seed]
           later == [s EXCEPT !.p.draw.deadline = deadline]
           due == IF q.draw = None \/ q.draw.seed # seed THEN SeededByNode(s, seed, deadline)
                  ELSE IF phases THEN [s EXCEPT !.p.attn.deadline = deadline]
                  ELSE SentAgain(later, deadline)
<1>0. s = [p |-> q, f |-> f] /\ s.p = q /\ s.f = f
  BY DEF State
<1>1. /\ q \in PendingTrace /\ q.acc \in {NoBlock, AcceptedBy[v]}
      /\ q.attn \in AttnRecord \cup {None}
      /\ q.draw # None => q.draw \in TraceDraw /\ q.draw.seed = FirstAfter(q.acc, v)
      /\ q.opening # NoBlock => q.acc # NoBlock /\ q.opening = FirstAfter(q.acc, q.opening)
      /\ q.attn # None => /\ Depth > 0 /\ q.opening # NoBlock /\ Held(q.attn, q.opening, v, m, M)
                          /\ q.attn \in AttnRecord
  BY SoundIs
<1>2. CASE q.draw = None \/ q.draw.seed # seed
  <2>0. Applied(s, seed, deadline).p = SeededByNode(s, seed, deadline).p
    BY <1>0, <1>2 DEF Applied, SeededByNode, State
  <2>1. d \in TraceDraw /\ d.seed = seed
    BY DEF TraceDraw
  <2>2. d # None
    BY <2>1, SetsAre
  <2>3. CASE q.opening = seed
    <3> DEFINE r == [q EXCEPT !.draw = d]
    <3>1. SeededByNode(s, seed, deadline).p = r
      BY <1>0, <2>3 DEF SeededByNode
    <3> HIDE DEF d
    <3>2. /\ r \in PendingTrace /\ r.acc = q.acc /\ r.attn = q.attn /\ r.draw = d /\ r.opening = q.opening
      BY <1>1, <2>1 DEF PendingTrace
    <3> HIDE DEF r
    <3>3. Sound(r, v, m, M)
      BY <1>1, <2>1, <2>2, <2>3, <3>2 DEF Sound
    <3> QED BY <2>0, <3>1, <3>3
  <2>4. CASE q.opening # seed
    <3> DEFINE r == [q EXCEPT !.draw = d, !.attn = None, !.opening = NoBlock]
    <3>1. SeededByNode(s, seed, deadline).p = r
      BY <1>0, <2>4 DEF SeededByNode, State
    <3> HIDE DEF d
    <3>2. /\ r \in PendingTrace /\ r.acc = q.acc /\ r.attn = None /\ r.draw = d /\ r.opening = NoBlock
      BY <1>1, <2>1 DEF PendingTrace, MaybeBlock
    <3> HIDE DEF r
    <3>3. Sound(r, v, m, M)
      BY <1>1, <2>1, <2>2, <3>2 DEF Sound
    <3> QED BY <2>0, <3>1, <3>3
  <2> QED BY <2>3, <2>4
<1>3. CASE q.draw # None /\ q.draw.seed = seed /\ phases
  <2> DEFINE a == [q.attn EXCEPT !.deadline = deadline]
             r == [q EXCEPT !.attn = a]
  <2>1. Applied(s, seed, deadline).p = r
    BY <1>0, <1>3 DEF Applied
  <2>2. /\ a \in AttnRecord /\ a.txs = q.attn.txs /\ a.accepted = q.attn.accepted /\ a.path = q.attn.path
        /\ a.children = q.attn.children /\ a.late = q.attn.late
    BY <1>1, <1>3 DEF AttnRecord
  <2> HIDE DEF a
  <2>3. /\ r \in PendingTrace /\ r.acc = q.acc /\ r.attn = a /\ r.draw = q.draw /\ r.opening = q.opening
    BY <1>1, <2>2 DEF PendingTrace
  <2> HIDE DEF r
  <2>4. Sound(r, v, m, M)
    BY <1>3, <2>2, <2>3, SameSound
  <2> QED BY <2>1, <2>4
<1>4. CASE q.draw # None /\ q.draw.seed = seed /\ ~phases
  <2> DEFINE e == [q.draw EXCEPT !.deadline = deadline]
             r == [q EXCEPT !.draw = e]
             g == [e EXCEPT !.started = FALSE]
             u == [q EXCEPT !.draw = g]
  <2>1. later.p = r /\ later = [p |-> r, f |-> f]
    BY <1>0, <1>1 DEF PendingTrace
  <2>2. Applied(s, seed, deadline).p = SentAgain(later, deadline).p
    BY <1>0, <1>4 DEF Applied, SentAgain
  <2>3. SentAgain(later, deadline).p \in {r, [r EXCEPT !.draw.started = FALSE]}
    BY <2>1 DEF SentAgain
  <2>4. e \in TraceDraw /\ e.seed = seed /\ g \in TraceDraw /\ g.seed = seed
    BY <1>1, <1>4 DEF TraceDraw
  <2>5. [r EXCEPT !.draw.started = FALSE] = u
    BY <1>1 DEF PendingTrace
  <2>6. e # None /\ g # None
    BY <2>4, SetsAre
  <2> HIDE DEF e, g
  <2>7. /\ r \in PendingTrace /\ r.acc = q.acc /\ r.attn = q.attn /\ r.draw = e /\ r.opening = q.opening
        /\ u \in PendingTrace /\ u.acc = q.acc /\ u.attn = q.attn /\ u.draw = g /\ u.opening = q.opening
    BY <1>1, <2>4 DEF PendingTrace
  <2> HIDE DEF r, u, later
  <2>8. Sound(r, v, m, M)
    BY <1>4, <2>4, <2>6, <2>7, SameSound
  <2>9. Sound(u, v, m, M)
    BY <1>4, <2>4, <2>6, <2>7, SameSound
  <2> QED BY <2>2, <2>3, <2>5, <2>8, <2>9
<1> QED BY <1>2, <1>3, <1>4

\* Blocks that are mined do not change what was held of those before.
LEMMA MinedSound ==
    ASSUME NEW M, NEW N, \A b \in Block : M[b] # Unmined => N[b] = M[b],
           NEW v \in Block, NEW m, \A b \in Chain[v] \cup m : b \in Block /\ M[b] # Unmined,
           NEW q, Sound(q, v, m, M)
    PROVE  Sound(q, v, m, N)
<1>1. ASSUME q.attn # None PROVE Held(q.attn, q.opening, v, m, N)
  <2> DEFINE a == q.attn
  <2>1. Held(a, q.opening, v, m, M) /\ a \in AttnRecord
    BY <1>1, SoundIs
  <2> HIDE DEF a
  <2>2. AcceptedOn(a, v, m, N)
    BY <2>1 DEF Held, AcceptedOn
  <2>3. LateOn(a, v, N)
    BY <2>1 DEF Held, LateOn
  <2>4. Held(a, q.opening, v, m, N)
    BY <2>1, <2>2, <2>3 DEF Held
  <2> QED BY <2>4 DEF a
<1> QED BY <1>1 DEF Sound

\* A new block has its parent's descent, and the seed block that the rule names.
LEMMA MinedIs ==
    ASSUME NodeInv, NEW b \in Block, Parent[b] # NoBlock, mined[Parent[b]] # Unmined,
           NEW x, x \in {NoTx} \cup {Awaited(Parent[b])}
    PROVE  /\ Mined(b, x) \in Descent /\ Mined(b, x).takes = x /\ Mined(b, x).seed \in {NoBlock, SeedOf[b]}
           /\ x # NoTx => x.seed \in Chain[b]
<1> DEFINE q == Parent[b]
           l == mined[q]
<1>1. q \in Block /\ q \in Chain[b] /\ Chain[q] \subseteq Chain[b]
  BY ChainOfChild, ChainIs
<1>2. l \in Descent /\ l.seed \in {NoBlock, SeedOf[q]}
  BY <1>1 DEF NodeInv
<1>3. l.seed # NoBlock => l.seed = SeedOf[b] /\ l.seed \in Chain[b] /\ l.seed \in Block
  BY <1>1, <1>2, SeedOfIs
<1>4. SeedOf[b] \in MaybeBlock
  BY SeedOfIs DEF MaybeBlock
<1>5. x \in Opening \cup {NoTx} /\ (x # NoTx => x.seed \in Chain[b])
  <2>1. CASE x = NoTx
    BY <2>1
  <2>2. CASE x # NoTx
    <3>1. l.seed # NoBlock /\ x = Tx(l.seed, l.path)
      BY <2>2 DEF Awaited
    <3>2. x = [seed |-> l.seed, path |-> l.path]
      BY <3>1 DEF Tx
    <3>3. l.path \in Seq(Nat)
      BY <1>2 DEF Descent
    <3> QED BY <1>3, <3>1, <3>2, <3>3 DEF Opening
  <2> QED BY <2>1, <2>2
<1>6. ChildOf[b] \in Nat
  BY SetsAre
<1>7. /\ l.path \in Seq(Nat) /\ l.acc \in MaybeBlock /\ l.seed \in MaybeBlock
  BY <1>2 DEF Descent
<1>8. Append(l.path, ChildOf[b]) \in Seq(Nat)
  BY <1>6, <1>7
<1>9. CASE l.seed = NoBlock
  <2>1. Mined(b, x) = [l EXCEPT !.takes = x, !.seed = SeedOf[b]]
    BY <1>9 DEF Mined
  <2> HIDE DEF l
  <2> QED BY <1>2, <1>4, <1>5, <2>1 DEF Descent
<1>10. CASE l.seed # NoBlock /\ l.acc = NoBlock
  <2> DEFINE acc == IF x = NoTx THEN NoBlock ELSE b
  <2>1. Mined(b, x) = [l EXCEPT !.takes = x, !.acc = acc]
    BY <1>10 DEF Mined
  <2>2. acc \in MaybeBlock
    BY DEF MaybeBlock
  <2> HIDE DEF l, acc
  <2>3. Mined(b, x) \in Descent /\ Mined(b, x).takes = x /\ Mined(b, x).seed = l.seed
    BY <1>2, <1>5, <2>1, <2>2 DEF Descent
  <2> QED BY <1>3, <1>5, <1>10, <2>3 DEF l
<1>11. CASE l.seed # NoBlock /\ l.acc # NoBlock
  <2> DEFINE u == [l EXCEPT !.takes = x, !.path = Append(@, ChildOf[b]), !.acc = NoBlock]
             w == [l EXCEPT !.takes = x]
  <2>1. Mined(b, x) \in {u, w}
    BY <1>11 DEF Mined
  <2>2. NoBlock \in MaybeBlock
    BY DEF MaybeBlock
  <2> HIDE DEF l
  <2>3. u \in Descent /\ u.takes = x /\ u.seed = l.seed /\ w \in Descent /\ w.takes = x /\ w.seed = l.seed
    BY <1>2, <1>5, <1>8, <2>2 DEF Descent
  <2> HIDE DEF u, w
  <2>4. Mined(b, x) \in Descent /\ Mined(b, x).takes = x /\ Mined(b, x).seed = l.seed
    BY <2>1, <2>3
  <2> QED BY <1>3, <1>5, <1>11, <2>4
<1> QED BY <1>9, <1>10, <1>11

\* What NodeInv says of the blocks.
LEMMA NodeIs ==
    ASSUME NodeInv
    PROVE  /\ tip \in Block /\ view \in Block /\ mined[tip] # Unmined /\ mined[view] # Unmined
           /\ \A b \in Chain[view] \cup missed : b \in Block /\ mined[b] # Unmined
           /\ mined[view].seed # NoBlock =>
                 /\ mined[view].seed \in Block /\ AcceptedBy[view] \in Block
                 /\ mined[view].seed = FirstAfter(AcceptedBy[view], view)
<1>1. tip \in Block /\ view \in Block /\ mined[tip] # Unmined /\ mined[view] # Unmined
  BY DEF NodeInv
<1>2. \A b \in Chain[view] \cup missed : b \in Block /\ mined[b] # Unmined
  BY <1>1, ChainIsMined DEF NodeInv
<1>3. mined[view].seed \in {NoBlock, SeedOf[view]}
  BY <1>1 DEF NodeInv
<1> QED BY <1>1, <1>2, <1>3, SeedOfIs

-----------------------------------------------------------------------------
\* The invariant.

\* The response has been sent and nothing is drawn.
LEMMA InitDescent == Init => DescentInv
<1> SUFFICES ASSUME Init PROVE DescentInv
  OBVIOUS
<1>1. First \in Block /\ First \in Chain[First] /\ Closed(Chain[First]) /\ Chain[First] \in SUBSET Block
  BY SetsAre, ChainIs
<1>2. tip = First /\ view = First /\ missed = {} /\ job = NoTx
      /\ mined = [b \in Block |-> IF OnChain(b, First) THEN Genesis ELSE Unmined]
  BY DEF Init
<1>3. Genesis \in Descent /\ Genesis.seed = NoBlock /\ Genesis.takes = NoTx
  BY DEF Genesis, Descent, MaybeBlock
<1>4. Genesis # Unmined
  BY <1>3, SetsAre
<1>5. \A b \in Block : mined[b] # Unmined <=> b \in Chain[First]
  BY <1>2, <1>4 DEF OnChain
<1>6. \A b \in Block : mined[b] # Unmined => mined[b] = Genesis
  BY <1>2
<1>7. mined \in [Block -> Descent \cup {Unmined}]
  BY <1>2, <1>3
<1>8. \A b \in Block : mined[b] # Unmined /\ Parent[b] # NoBlock => mined[Parent[b]] # Unmined
  BY <1>1, <1>5, TreeIs DEF Closed
<1>9. NodeInv
  BY <1>1, <1>2, <1>3, <1>5, <1>6, <1>7, <1>8 DEF NodeInv
<1>10. p = [acc |-> AcceptedBy[First], draw |-> None, opening |-> NoBlock, openingDeadline |-> 0,
            built |-> {}, phase |-> NoTx, attn |-> None, awaits |-> "unknown"]
  BY DEF Init
<1>11. AcceptedBy[First] \in MaybeBlock
  BY <1>1, AcceptedByIs DEF MaybeBlock
<1>12. p \in PendingTrace /\ p.acc = AcceptedBy[First] /\ p.draw = None /\ p.opening = NoBlock /\ p.attn = None
  BY <1>10, <1>11 DEF PendingTrace, MaybeBlock
<1>13. Sound(p, view, missed, mined)
  BY <1>2, <1>12 DEF Sound
<1> QED BY <1>9, <1>13 DEF DescentInv

\* Nothing is left of an opening when the block that accepted the response is gone.
LEMMA RemovedAll ==
    ASSUME NEW q \in PendingTrace, NEW gone, q.acc \in gone, NEW f, NEW t, NEW m, NEW M
    PROVE  Sound(Removed(State(q, f), gone).p, t, m, M)
<1> DEFINE r == [q EXCEPT !.acc = NoBlock, !.draw = None, !.opening = NoBlock, !.attn = None]
<1>1. Removed(State(q, f), gone).p = r
  BY DEF Removed, State
<1>2. r \in PendingTrace /\ r.acc = NoBlock /\ r.draw = None /\ r.opening = NoBlock /\ r.attn = None
  BY DEF PendingTrace, MaybeBlock
<1> HIDE DEF r
<1>3. Sound(r, t, m, M)
  BY <1>2 DEF Sound
<1> QED BY <1>1, <1>3

\* NotedSound for a state of the handler.
LEMMA NotedAfter ==
    ASSUME NodeInv, NEW t \in Block, mined[t] # Unmined, NEW s, NEW m, Sound(s.p, t, m, mined),
           NEW S \in SUBSET Chain[t]
    PROVE  Sound(Noted(s, S, t).p, t, m, mined)
<1>1. Noted(s, S, t).p = Noted(State(s.p, s.f), S, t).p
  BY DEF Noted, State
<1> QED BY <1>1, NotedSound

\* VirtualSelectedParentChainChangedNotification: what left is undone before what
\* joined is noted.
LEMMA MovesDescent ==
    ASSUME DescentInv, NEW t \in Block, NodeMoves(t) PROVE DescentInv'
<1>1. NodeInv /\ tip' = t /\ mined[t] # Unmined /\ UNCHANGED <<mined, missed, job>>
  BY DEF DescentInv, NodeMoves
<1>2. view \in Block /\ \A b \in missed : b \in Block /\ mined[b] # Unmined
  BY <1>1, NodeIs
<1>3. CASE connected
  <2> DEFINE gone == Chain[view] \ Chain[t]
             s == Removed(Trace, gone)
  <2>1. view' = t /\ ChainChanged(view, t)
    BY <1>3 DEF NodeMoves
  <2>2. NodeInv'
    BY <1>1, <2>1 DEF NodeInv
  <2>3. CASE p = Gone
    BY <2>1, <2>2, <2>3 DEF ChainChanged, DescentInv
  <2>4. CASE p # Gone
    <3>1. Sound(p, view, missed, mined)
      BY <2>4 DEF DescentInv
    <3>2. gone \in SUBSET Block
      BY <1>2, ChainIs
    <3>3. Sound(s.p, t, missed, mined)
      <4>1. \A b \in Chain[view] : b \notin gone => b \in Chain[t]
        OBVIOUS
      <4> HIDE DEF gone
      <4> QED BY <1>2, <3>1, <3>2, <4>1, RemovedSound DEF Trace
    <3>4. p' = Noted(s, Chain[t] \ Chain[view], t).p
      BY <2>1, <2>4 DEF ChainChanged, Become
    <3> HIDE DEF s
    <3>5. Sound(p', t, missed, mined)
      BY <1>1, <3>3, <3>4, NotedAfter
    <3> QED BY <1>1, <2>1, <2>2, <3>5 DEF DescentInv
  <2> QED BY <2>3, <2>4
<1>4. CASE ~connected
  <2>1. UNCHANGED <<view, p>>
    BY <1>4 DEF NodeMoves
  <2> QED BY <1>1, <2>1 DEF DescentInv, NodeInv
<1> QED BY <1>3, <1>4

\* A new block accepts the opening that its parent's chain awaits.
LEMMA MinesDescent ==
    ASSUME DescentInv, NEW b \in Block, NodeMines(b) PROVE DescentInv'
<1>1. /\ NodeInv /\ mined[b] = Unmined /\ Parent[b] # NoBlock /\ mined[Parent[b]] # Unmined
      /\ UNCHANGED <<tip, view, p, missed, job>>
  BY DEF DescentInv, NodeMines
<1>2. PICK x \in {NoTx} \cup (known \cap {Awaited(Parent[b])}) : mined' = [mined EXCEPT ![b] = Mined(b, x)]
  BY DEF NodeMines
<1> DEFINE l == Mined(b, x)
<1>3. /\ l \in Descent /\ l.takes = x /\ l.seed \in {NoBlock, SeedOf[b]}
      /\ x # NoTx => x.seed \in Chain[b]
  BY <1>1, <1>2, MinedIs
<1> HIDE DEF l
<1>4. mined \in [Block -> Descent \cup {Unmined}]
  BY <1>1 DEF NodeInv
<1>5. mined' \in [Block -> Descent \cup {Unmined}] /\ mined'[b] = l /\ \A c \in Block : c # b => mined'[c] = mined[c]
  BY <1>2, <1>3, <1>4 DEF l
<1>6. l # Unmined
  BY <1>3, SetsAre
<1>7. \A c \in Block : mined[c] # Unmined => mined'[c] = mined[c]
  BY <1>1, <1>5
<1>8. NodeInv'
  <2>1. ASSUME NEW c \in Block, mined'[c] # Unmined
        PROVE  /\ Parent[c] # NoBlock => mined'[Parent[c]] # Unmined
               /\ mined'[c].seed \in {NoBlock, SeedOf[c]}
               /\ mined'[c].takes # NoTx => mined'[c].takes.seed \in Chain[c]
    <3>1. Parent[c] # NoBlock => Parent[c] \in Block
      BY TreeIs
    <3>2. CASE c = b
      BY <1>1, <1>3, <1>5, <1>7, <3>1, <3>2
    <3>3. CASE c # b
      <4>1. mined[c] # Unmined /\ mined'[c] = mined[c]
        BY <1>5, <2>1, <3>3
      <4>2. /\ Parent[c] # NoBlock => mined[Parent[c]] # Unmined
            /\ mined[c].seed \in {NoBlock, SeedOf[c]}
            /\ mined[c].takes # NoTx => mined[c].takes.seed \in Chain[c]
        BY <1>1, <4>1 DEF NodeInv
      <4> QED BY <1>7, <3>1, <4>1, <4>2
    <3> QED BY <3>2, <3>3
  <2>2. /\ {tip, view} \subseteq Block /\ mined'[tip] # Unmined /\ mined'[view] # Unmined
        /\ \A c \in missed : c \in Block /\ mined'[c] # Unmined
        /\ job \in Opening \cup {NoTx}
    BY <1>1, <1>7 DEF NodeInv
  <2> QED BY <1>1, <1>5, <2>1, <2>2 DEF NodeInv
<1>9. ASSUME p # Gone PROVE Sound(p, view, missed, mined')
  <2>1. Sound(p, view, missed, mined)
    BY <1>9 DEF DescentInv
  <2>2. view \in Block /\ \A c \in Chain[view] \cup missed : c \in Block /\ mined[c] # Unmined
    BY <1>1, NodeIs
  <2> QED BY <1>7, <2>1, <2>2, MinedSound
<1> QED BY <1>1, <1>8, <1>9 DEF DescentInv

\* A new handler undoes what left the chain of the accepting block, then notes what
\* joined.
LEMMA ConnectDescent == ASSUME DescentInv, Connect PROVE DescentInv'
<1>1. /\ NodeInv /\ view' = tip /\ missed' = missed \cup (Chain[view] \ Chain[tip])
      /\ UNCHANGED <<tip, mined, job>>
  BY DEF DescentInv, Connect, nodeVars
<1>2. /\ tip \in Block /\ view \in Block /\ mined[tip] # Unmined
      /\ \A b \in Chain[view] \cup missed : b \in Block /\ mined[b] # Unmined
  BY <1>1, NodeIs
<1>3. NodeInv'
  BY <1>1, <1>2 DEF NodeInv
<1>4. CASE p = Gone
  <2>1. p' = Gone
    BY <1>4 DEF Connect
  <2> QED BY <1>3, <2>1 DEF DescentInv
<1>5. CASE p # Gone
  <2> DEFINE start == IF p.acc = NoBlock THEN First ELSE p.acc
             gone == Chain[start] \ Chain[tip]
             q == Restored(Trace).p
             s == Removed(Restored(Trace), gone)
  <2>1. Sound(p, view, missed, mined)
    BY <1>5 DEF DescentInv
  <2>2. p.acc \in MaybeBlock /\ p.acc \in {NoBlock, AcceptedBy[view]}
    BY <2>1, SoundIs
  <2>3. start \in Block
    BY <2>2, SetsAre DEF MaybeBlock
  <2>4. p' = Noted(s, Chain[tip] \ Chain[start], tip).p
    BY <1>5 DEF Connect, Become
  <2>5. s = Removed(State(q, Restored(Trace).f), gone)
    BY DEF Restored, State
  <2>6. gone \in SUBSET Block
    BY <2>3, ChainIs
  <2>7. CASE p.acc # NoBlock => p.acc \in Chain[tip]
    <3>1. Sound(q, tip, missed', mined)
      BY <1>1, <1>2, <2>1, <2>7, RestoredSound DEF Trace
    <3> HIDE DEF q, gone
    <3>2. Sound(s.p, tip, missed', mined)
      BY <1>2, <2>5, <2>6, <3>1, RemovedSound
    <3> QED BY <1>1, <1>2, <1>3, <2>4, <3>2, NotedAfter DEF DescentInv
  <2>8. CASE p.acc # NoBlock /\ p.acc \notin Chain[tip]
    <3>1. p.acc \in Chain[view]
      BY <1>2, <2>2, <2>8, AcceptedByIs
    <3>2. Sound(q, view, missed \cup (Chain[view] \ Chain[view]), mined)
      BY <1>2, <2>1, <3>1, RestoredSound DEF Trace
    <3>3. q \in PendingTrace
      BY <3>2, SoundIs
    <3>4. q.acc = p.acc
      <4>1. p \in PendingTrace
        BY <2>1, SoundIs
      <4> QED BY <4>1 DEF Restored, State, Trace, PendingTrace
    <3>5. q.acc \in gone
      BY <2>3, <2>8, <3>4, ChainIs
    <3> HIDE DEF q, gone
    <3>6. Sound(s.p, tip, missed', mined)
      BY <2>5, <3>3, <3>5, RemovedAll
    <3> QED BY <1>1, <1>2, <1>3, <2>4, <3>6, NotedAfter DEF DescentInv
  <2> QED BY <2>7, <2>8
<1> QED BY <1>4, <1>5

\* A step of the handler on the chain it knows.
LEMMA HandlerStep ==
    ASSUME DescentInv, UNCHANGED <<tip, mined, view, missed>>, job' \in Opening \cup {NoTx},
           p' # Gone => Sound(p', view, missed, mined)
    PROVE  DescentInv'
BY DEF DescentInv, NodeInv

\* The node names the seed block of the chain that the handler has seen.
LEMMA AwaitedDescent == ASSUME DescentInv, OnAwaited PROVE DescentInv'
<1> DEFINE q == [p EXCEPT !.awaits = IF Listed(view) THEN "yes" ELSE "no"]
           s == State(q, inflight)
           u == Applied(s, mined[view].seed, NodeDeadline(view))
<1>1. /\ NodeInv /\ p # Gone /\ p.acc # NoBlock /\ UNCHANGED <<tip, mined, view, missed, job>>
      /\ Sound(p, view, missed, mined)
  BY DEF DescentInv, OnAwaited, Polled, nodeVars
<1>2. p' = (IF Listed(view) THEN u ELSE s).p
  BY DEF OnAwaited, Become
<1>3. p \in PendingTrace /\ p.acc \in {NoBlock, AcceptedBy[view]}
  BY <1>1, SoundIs
<1>4. /\ q \in PendingTrace /\ q.acc = p.acc /\ q.opening = p.opening /\ q.draw = p.draw /\ q.attn = p.attn
  BY <1>3 DEF PendingTrace
<1> HIDE DEF q
<1>5. Sound(q, view, missed, mined)
  BY <1>1, <1>4, SameSound
<1>6. job \in Opening \cup {NoTx} /\ view \in Block
  BY <1>1 DEF NodeInv
<1>7. CASE Listed(view)
  <2> DEFINE l == mined[view]
  <2>1. l.seed # NoBlock
    BY <1>7 DEF Listed
  <2>2. l.seed \in Block /\ l.seed = FirstAfter(AcceptedBy[view], view)
    BY <1>1, <2>1, NodeIs
  <2>3. NodeDeadline(view) \in Nat
    <3>1. Daa[l.seed] \in Nat /\ Slack \in Nat /\ FirstWindow \in Nat /\ PhaseWindow \in Nat
      BY <2>2, TreeIs, SetsAre
    <3> DEFINE w == IF l.path = <<>> THEN 0 ELSE PhaseWindow
    <3>2. w \in Nat /\ NodeDeadline(view) = Slack + Daa[l.seed] + FirstWindow + w
      BY <3>1 DEF NodeDeadline
    <3> HIDE DEF w, l
    <3> QED BY <3>1, <3>2
  <2>4. q.acc # NoBlock /\ l.seed = FirstAfter(q.acc, view)
    BY <1>1, <1>3, <1>4, <2>2
  <2>5. Sound(u.p, view, missed, mined)
    BY <1>5, <1>6, <2>2, <2>3, <2>4, AppliedSound
  <2> QED BY <1>1, <1>2, <1>6, <1>7, <2>5, HandlerStep
<1>8. CASE ~Listed(view)
  <2>1. p' = q
    BY <1>2, <1>8 DEF State
  <2> QED BY <1>1, <1>5, <1>6, <2>1, HandlerStep
<1> QED BY <1>7, <1>8

\* A replay is started for the block of the draw.
LEMMA StartReplayDescent == ASSUME DescentInv, StartReplay PROVE DescentInv'
<1> DEFINE d == [p.draw EXCEPT !.started = TRUE]
           q == [p EXCEPT !.draw = d]
<1>1. /\ p # Gone /\ p.draw # None /\ UNCHANGED <<tip, mined, view, missed>>
      /\ p' = q /\ job' = Tx(p.draw.seed, <<>>) /\ Sound(p, view, missed, mined)
  BY DEF DescentInv, StartReplay, OwesFirst, nodeVars
<1>2. p \in PendingTrace /\ p.draw \in TraceDraw /\ p.draw.seed \in Block
  BY <1>1, SoundIs
<1>3. d \in TraceDraw /\ d.seed = p.draw.seed
  BY <1>2 DEF TraceDraw
<1>4. d # None
  BY <1>3, SetsAre
<1> HIDE DEF d
<1>5. /\ q \in PendingTrace /\ q.acc = p.acc /\ q.opening = p.opening /\ q.draw = d /\ q.attn = p.attn
  BY <1>2, <1>3 DEF PendingTrace
<1> HIDE DEF q
<1>6. Sound(q, view, missed, mined)
  BY <1>1, <1>3, <1>4, <1>5, SameSound
<1>7. job' \in Opening
  BY <1>1, <1>2 DEF Tx, Opening
<1> QED BY <1>1, <1>6, <1>7, HandlerStep

\* Nor does whether a replay was started for the phase.
LEMMA OpenedSound ==
    ASSUME NEW q, NEW v, NEW m, NEW M, Sound(q, v, m, M), q.attn # None, NEW o \in BOOLEAN
    PROVE  Sound([q EXCEPT !.attn.opened = o], v, m, M)
<1> DEFINE a == [q.attn EXCEPT !.opened = o]
           r == [q EXCEPT !.attn = a]
<1>1. q \in PendingTrace /\ q.attn \in AttnRecord
  BY SoundIs
<1>2. /\ a \in AttnRecord /\ a.txs = q.attn.txs /\ a.accepted = q.attn.accepted
      /\ a.path = q.attn.path /\ a.children = q.attn.children /\ a.late = q.attn.late
  BY <1>1 DEF AttnRecord
<1>3. [q EXCEPT !.attn.opened = o] = r
  OBVIOUS
<1> HIDE DEF a
<1>4. /\ r \in PendingTrace /\ r.acc = q.acc /\ r.opening = q.opening /\ r.draw = q.draw /\ r.attn = a
  BY <1>1, <1>2 DEF PendingTrace
<1> HIDE DEF r
<1>5. Sound(r, v, m, M)
  BY <1>2, <1>4, SameSound
<1> QED BY <1>3, <1>5

\* A phase kept from an earlier replay is added, or a replay is started.
LEMMA StartAttentionDescent == ASSUME DescentInv, StartAttentionPhase PROVE DescentInv'
<1> DEFINE x == Tx(p.draw.seed, p.attn.path)
           opened == [p EXCEPT !.attn.opened = TRUE]
           q == [opened EXCEPT !.phase = NoTx]
<1>1. /\ NodeInv /\ p # Gone /\ p.draw # None /\ p.attn # None /\ UNCHANGED <<tip, mined, view, missed>>
      /\ Sound(p, view, missed, mined)
      /\ \/ p' = PhaseBuilt(State(q, inflight), x).p /\ job' = job
         \/ p' = opened /\ job' = x
  BY DEF DescentInv, StartAttentionPhase, OwesPhase, Become, nodeVars
<1>2. /\ p.draw.seed \in Block /\ p.attn \in AttnRecord
  BY <1>1, SoundIs
<1>3. x \in Opening
  <2>1. p.attn.path \in Seq(Nat)
    BY <1>2 DEF AttnRecord
  <2> QED BY <1>2, <2>1 DEF Opening, Tx
<1>4. Sound(opened, view, missed, mined)
  BY <1>1, OpenedSound
<1> HIDE DEF x, opened
<1>5. Sound(q, view, missed, mined)
  <2>1. opened \in PendingTrace
    BY <1>4, SoundIs
  <2>2. /\ q \in PendingTrace /\ q.acc = opened.acc /\ q.opening = opened.opening
        /\ q.draw = opened.draw /\ q.attn = opened.attn
    BY <2>1 DEF PendingTrace
  <2> HIDE DEF q
  <2> QED BY <1>4, <2>2, SameSound
<1> HIDE DEF q
<1>6. Sound(PhaseBuilt(State(q, inflight), x).p, view, missed, mined)
  BY <1>1, <1>3, <1>5, PhaseBuiltSound, NodeIs
<1>7. job \in Opening \cup {NoTx}
  BY <1>1 DEF NodeInv
<1> QED BY <1>1, <1>3, <1>4, <1>6, <1>7, HandlerStep

\* A replay ends with an opening, for a draw or a path that may have changed meanwhile.
LEMMA ReplayDescent == ASSUME DescentInv, PollReplay PROVE DescentInv'
<1>1. /\ NodeInv /\ job \in Opening /\ job' = NoTx /\ UNCHANGED <<tip, mined, view, missed>> /\ view \in Block
  BY DEF DescentInv, PollReplay, NodeInv, nodeVars
<1>2. CASE p = Gone
  BY <1>1, <1>2, HandlerStep DEF PollReplay
<1>3. CASE p # Gone
  <2> DEFINE q == [p EXCEPT !.built = @ \cup {job.seed}]
  <2>1. Sound(p, view, missed, mined)
    BY <1>3 DEF DescentInv
  <2>2. p' = ReplayEnds(Trace, job).p
    BY <1>3 DEF PollReplay, Become
  <2>3. CASE job.path # <<>>
    <3>1. p' = PhaseBuilt(State(p, inflight), job).p
      BY <2>2, <2>3 DEF ReplayEnds, Trace
    <3> QED BY <1>1, <2>1, <3>1, PhaseBuiltSound, HandlerStep
  <2>4. CASE job.path = <<>>
    <3>1. p \in PendingTrace /\ job.seed \in Block
      BY <1>1, <2>1, SoundIs DEF Opening
    <3>2. p' = Submitted(State(q, inflight), job.seed).p
      <4>1. [Trace EXCEPT !.p.built = @ \cup {job.seed}] = State(q, inflight)
        BY DEF State, Trace
      <4> QED BY <2>2, <2>4, <4>1 DEF ReplayEnds
    <3>3. /\ q \in PendingTrace /\ q.acc = p.acc /\ q.opening = p.opening /\ q.draw = p.draw /\ q.attn = p.attn
      BY <3>1 DEF PendingTrace
    <3> HIDE DEF q
    <3>4. Sound(q, view, missed, mined)
      BY <2>1, <3>3, SameSound
    <3>5. Sound(p', view, missed, mined)
      BY <1>1, <3>2, <3>4, SubmittedSound
    <3> QED BY <1>1, <3>5, HandlerStep
  <2> QED BY <2>3, <2>4
<1> QED BY <1>2, <1>3

\* A replay that built nothing resets a mark.
LEMMA FailedDescent == ASSUME DescentInv, PollReplayFailed PROVE DescentInv'
<1> DEFINE q == [p EXCEPT !.draw.started = FALSE]
           o == [p EXCEPT !.attn.opened = FALSE]
<1>1. job' = NoTx /\ UNCHANGED <<tip, mined, view, missed>>
  BY DEF PollReplayFailed, nodeVars
<1>2. \/ p' = p
      \/ p # Gone /\ p.draw # None /\ p' = q
      \/ p # Gone /\ p.attn # None /\ p' = o
  <2>1. CASE p = Gone
    BY <2>1 DEF PollReplayFailed
  <2>2. CASE p # Gone /\ job.path = <<>> /\ p.draw # None /\ p.draw.seed = job.seed
    <3>1. p' = q
      BY <2>2 DEF PollReplayFailed
    <3> QED BY <2>2, <3>1
  <2>3. CASE p # Gone /\ job.path # <<>> /\ Current(p, job)
    <3>1. p' = o
      BY <2>3 DEF PollReplayFailed
    <3> QED BY <2>3, <3>1 DEF Current
  <2>4. CASE ~(p = Gone) /\ ~(p # Gone /\ job.path = <<>> /\ p.draw # None /\ p.draw.seed = job.seed)
             /\ ~(p # Gone /\ job.path # <<>> /\ Current(p, job))
    <3>1. p' = p
      BY <2>4 DEF PollReplayFailed
    <3> QED BY <3>1
  <2> QED BY <2>1, <2>2, <2>3, <2>4
<1>3. p # Gone => Sound(p, view, missed, mined)
  BY DEF DescentInv
<1>4. CASE p' = p
  BY <1>1, <1>3, <1>4, HandlerStep
<1>5. CASE p # Gone /\ p.draw # None /\ p' = q
  <2> DEFINE d == [p.draw EXCEPT !.started = FALSE]
             r == [p EXCEPT !.draw = d]
  <2>1. p \in PendingTrace /\ p.draw \in TraceDraw
    BY <1>3, <1>5, SoundIs
  <2>2. d \in TraceDraw /\ d.seed = p.draw.seed
    BY <2>1 DEF TraceDraw
  <2>3. d # None /\ q = r
    BY <2>2, SetsAre
  <2> HIDE DEF d
  <2>4. /\ r \in PendingTrace /\ r.acc = p.acc /\ r.opening = p.opening /\ r.draw = d /\ r.attn = p.attn
    BY <2>1, <2>2 DEF PendingTrace
  <2> HIDE DEF r, q
  <2>5. Sound(r, view, missed, mined)
    BY <1>3, <1>5, <2>2, <2>3, <2>4, SameSound
  <2> QED BY <1>1, <1>5, <2>3, <2>5, HandlerStep
<1>6. CASE p # Gone /\ p.attn # None /\ p' = o
  <2>1. Sound(o, view, missed, mined)
    BY <1>3, <1>6, OpenedSound
  <2> QED BY <1>1, <1>6, <2>1, HandlerStep
<1> QED BY <1>2, <1>4, <1>5, <1>6

\* One step per action.
LEMMA StepDescent == DescentInv /\ [Next]_vars => DescentInv'
<1> SUFFICES ASSUME DescentInv, [Next]_vars PROVE DescentInv'
  OBVIOUS
<1>1. /\ job \in Opening \cup {NoTx} /\ view \in Block /\ NodeInv
      /\ p # Gone => Sound(p, view, missed, mined)
  BY DEF DescentInv, NodeInv
<1>2. CASE OnBlock
  <2>1. /\ p # Gone /\ p' = Resolve(p) /\ UNCHANGED <<tip, mined, view, missed, job>>
    BY <1>2 DEF OnBlock, nodeVars
  <2>2. Sound(p', view, missed, mined)
    BY <1>1, <2>1, ResolveSound
  <2> QED BY <1>1, <2>1, <2>2, HandlerStep
<1>3. CASE OnAwaited
  BY <1>3, AwaitedDescent
<1>4. CASE SubmitBuilt
  <2>1. /\ p # Gone /\ p' = Submitted(State(p, inflight), p.draw.seed).p
        /\ UNCHANGED <<tip, mined, view, missed, job>>
    BY <1>4 DEF SubmitBuilt, Become, Trace, nodeVars
  <2>2. Sound(p', view, missed, mined)
    BY <1>1, <2>1, SubmittedSound
  <2> QED BY <1>1, <2>1, <2>2, HandlerStep
<1>5. CASE StartReplay
  BY <1>5, StartReplayDescent
<1>6. CASE StartAttentionPhase
  BY <1>6, StartAttentionDescent
<1>7. CASE PollReplay
  BY <1>7, ReplayDescent
<1>8. CASE PollReplayFailed
  BY <1>8, FailedDescent
<1>9. CASE \E x \in DOMAIN inflight : SendOpening(x)
  BY <1>1, <1>9, HandlerStep DEF SendOpening
<1>10. CASE DropOpenings
  BY <1>1, <1>10, HandlerStep DEF DropOpenings, nodeVars
<1>11. CASE PruneTraces
  BY <1>1, <1>11, HandlerStep DEF PruneTraces, nodeVars
<1>12. CASE \E b \in Block : NodeMines(b) \/ NodeMoves(b)
  BY <1>12, MinesDescent, MovesDescent
<1>13. CASE Disconnect
  BY <1>1, <1>13, HandlerStep DEF Disconnect, nodeVars
<1>14. CASE Connect
  BY <1>14, ConnectDescent
<1>15. CASE UNCHANGED vars
  BY <1>1, <1>15, HandlerStep DEF vars, nodeVars
<1> QED BY <1>2, <1>3, <1>4, <1>5, <1>6, <1>7, <1>8, <1>9, <1>10, <1>11, <1>12, <1>13, <1>14, <1>15 DEF Next

\* The trace of the response is Sound in every state: the block that drew the response is
\* the one the chain names, and the phases are of that opening.
THEOREM DescentHolds == Spec => []DescentInv
<1> QED BY InitDescent, StepDescent, PTL DEF Spec

-----------------------------------------------------------------------------
\* Theorems.

\* The phases the miner holds are those of the announced chain (on_removed,
\* note_phase_acceptances, resolve_traces), through reorganisations of any depth.
THEOREM PhasesOfTheChain == Spec => []PhasesAreOfTheChain
<1>1. DescentInv => PhasesAreOfTheChain
  <2> SUFFICES ASSUME DescentInv, connected, Phases # None, NEW i \in 1 .. Len(Phases.txs)
               PROVE  /\ Phases.txs[i] \in {NoTx, Tx(p.opening, SubSeq(Phases.path, 1, i - 1))}
                      /\ Phases.accepted[i] \in Block =>
                            /\ OnChain(Phases.accepted[i], view) \/ Phases.accepted[i] \in missed
                            /\ Takes(Phases.accepted[i]) = Phases.txs[i]
                      /\ i <= Len(Phases.children) /\ Phases.children[i] # NoBlock =>
                            /\ Phases.children[i] = FirstAfter(Phases.accepted[i], view)
                            /\ Phases.path[i] = ChildOf[Phases.children[i]]
    BY DEF PhasesAreOfTheChain
  <2> DEFINE a == Phases
  <2>1. p # Gone /\ a = p.attn
    BY DEF Phases
  <2>2. Held(a, p.opening, view, missed, mined) /\ a \in AttnRecord
    BY <2>1, SoundIs DEF DescentInv
  <2> HIDE DEF a
  <2>3. a.txs[i] \in {NoTx, Tx(p.opening, SubSeq(a.path, 1, i - 1))}
    BY <2>2 DEF Held, OpenedFor, a
  <2>4. a.accepted[i] \in Block =>
          /\ OnChain(a.accepted[i], view) \/ a.accepted[i] \in missed
          /\ Takes(a.accepted[i]) = a.txs[i]
    BY <2>2 DEF Held, AcceptedOn, OnChain, Takes, a
  <2>5. i <= Len(a.children) /\ a.children[i] # NoBlock =>
          /\ a.children[i] = FirstAfter(a.accepted[i], view)
          /\ a.path[i] = ChildOf[a.children[i]]
    <3>1. Len(a.children) = Len(a.path) /\ Len(a.path) \in Nat /\ i \in Nat /\ i >= 1
      BY <2>2, RecordIs DEF Held, a
    <3> QED BY <2>2, <3>1 DEF Held, DrawnOn
  <2> QED BY <2>3, <2>4, <2>5 DEF a
<1> QED BY <1>1, DescentHolds, PTL
=============================================================================
