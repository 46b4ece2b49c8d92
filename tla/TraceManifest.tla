--------------------------- MODULE TraceManifest ---------------------------
(* What the prover (src/src/trace.rs) and the verifier of an inference      *)
(* trace (src/verifiable-inference/src) share: the manifest of a model, the *)
(* leaves of a traced position, the quantised rows and what a seed draws.   *)
(*                                                                          *)
(* Lengths are in values: four bytes of the code are one value here, and a  *)
(* quantised row has one value per element.  Values are integers modulo P   *)
(* and the kernels are small integer functions with the same arguments as   *)
(* the real ones, so that a wrong operand shows; equality stands for being  *)
(* within the tolerance.  A manifest entry's bytes are the entry itself.    *)
EXTENDS Merkle, FiniteSets

CONSTANTS
    P,              \* values are 0 .. P - 1
    WChunk,         \* values of a chunk of the weight tree (32 bytes in the code)
    Block,          \* values of a quantised block (32)
    RowPad,         \* a quantised row is padded to a multiple of this (512)
    FragmentBlocks, \* NORM_FRAGMENT_BLOCKS (8)
    Ubatch,         \* UBATCH: prompt positions per batch (512)
    MmvqMaxBatch,   \* MMVQ_MAX_BATCH (8)
    PeakOverMedian, \* PEAK_OVER_MEDIAN (1024)
    WeightSteps,    \* steps of a block's weight in a draw by scale (65535)
    PrefixLen       \* PREFIX_LEN (32)

SizesAssumption ==
    /\ {P, WChunk, Block, RowPad, FragmentBlocks, Ubatch, PrefixLen} \subseteq Nat \ {0}
    /\ {MmvqMaxBatch, PeakOverMedian, WeightSteps} \subseteq Nat
    /\ B3Chunk % Block = 0

None == -1                  \* manifest::NONE, and a missing option
NoPart == <<>>              \* an optional part that is not there

CeilDiv(a, b) == (a + b - 1) \div b
Least(a, b) == IF a < b THEN a ELSE b
Most(S) == CHOOSE x \in S : \A y \in S : y <= x
Slice(s, from, len) == SubSeq(s, from + 1, from + len)

RECURSIVE Total(_)
Total(s) == IF s = <<>> THEN 0 ELSE Head(s) + Total(Tail(s))

-----------------------------------------------------------------------------
(* The kernels. *)

\* Weights of another type than F32 are decoded before use.
Dequant(wtype, row) == Eager([i \in DOMAIN row |-> (row[i] * (1 + wtype)) % P])

Dot(x, w) == Total(Eager([i \in DOMAIN x |-> x[i] * w[i]])) % P
Glu(op, g, u) == ((g + op) * u) % P

\* v / rms(v): every element depends on all of them.
RmsScaled(v, scale) == Eager([i \in DOMAIN v |-> (scale * v[i] + Total(v)) % P])
TimesWeights(v, w) == Eager([i \in DOMAIN v |-> (v[i] * w[i]) % P])
ExpectedInput(row, norm, scale) == TimesWeights(RmsScaled(row, scale), norm)

\* Neither vanishing nor out of range: RESID_RMS_MIN, RESID_RMS_MAX.
RmsInRange(v) == \E i \in DOMAIN v : v[i] # 0

-----------------------------------------------------------------------------
(* Quantised rows. *)

Layouts == [MMVQ |-> 0, MMQ_D4 |-> 1, MMQ_DS4 |-> 2]

LayoutFor(ubatch, wtype) ==
    IF ubatch <= MmvqMaxBatch THEN Layouts.MMVQ
    ELSE IF wtype = 2 THEN Layouts.MMQ_DS4 ELSE Layouts.MMQ_D4

InputLayout(role, ubatch, wtype) ==
    IF role = "OUTPUT" THEN Layouts.MMVQ ELSE LayoutFor(ubatch, wtype)

XLen(k) == CeilDiv(k, RowPad) * RowPad

\* The values as the quantiser lays them out, then zeroes.
Quantize(v, layout) ==
    Eager([i \in 1 .. XLen(Len(v)) |-> ((IF i <= Len(v) THEN v[i] ELSE 0) + layout) % P])

Decode(x, layout, k) == Eager([i \in 1 .. k |-> (x[i] + P - layout) % P])

NBlocks(k) == CeilDiv(k, Block)
BlockScale(x, layout, k, b) ==
    Most({Decode(x, layout, k)[i] : i \in b * Block + 1 .. Least((b + 1) * Block, k)})

\* Slot `slot` of an input of one row per slot; a single row serves every slot.
SlotRow(x, slot, k) == IF Len(x) = XLen(k) THEN x ELSE Slice(x, slot * XLen(k), XLen(k))

\* The blocks of x from `first` on hold v.
BlocksHold(x, layout, k, first, v) ==
    /\ v # <<>>
    /\ first * Block + Len(v) <= k
    /\ Slice(Decode(x, layout, k), first * Block, Len(v)) = v

\* The block a link looks at: drawn uniformly, or on even odds by block scale.
RECURSIVE Pick(_, _)
Pick(weights, target) ==
    IF target < Head(weights) THEN 0 ELSE 1 + Pick(Tail(weights), target - Head(weights))

LinkBlock(d, x, layout, k) ==
    LET scales == [b \in 1 .. NBlocks(k) |-> BlockScale(x, layout, k, b - 1)]
        peak == Most({scales[b] : b \in DOMAIN scales})
        weights == [b \in DOMAIN scales |->
                      1 + IF peak > 0 THEN (scales[b] * WeightSteps) \div peak ELSE 0]
    IN  IF k % Block # 0 \/ k = 0 THEN None
        ELSE IF d.uniform THEN d.link % NBlocks(k)
        ELSE Pick(weights, d.link % Total(weights))

\* First block and block count of the norm fragment that covers a block.
NormFragment(block, k) ==
    LET n == Least(FragmentBlocks, NBlocks(k))
    IN  <<Least(block, NBlocks(k) - n), n>>

FragmentStart(block, k) == NormFragment(block, k)[1] * Block
FragmentLen(block, k) == Least(NormFragment(block, k)[2] * Block, k - FragmentStart(block, k))

PeakBounded(x, layout, k, slot) ==
    LET row == SlotRow(x, slot, k)
        scales == [b \in 1 .. NBlocks(k) |-> BlockScale(row, layout, k, b - 1)]
        Below(b) == Cardinality({c \in DOMAIN scales : scales[c] < scales[b]})
        UpTo(b) == Cardinality({c \in DOMAIN scales : scales[c] <= scales[b]})
        median == scales[CHOOSE b \in DOMAIN scales : Below(b) <= Len(scales) \div 2 /\ Len(scales) \div 2 < UpTo(b)]
    IN  /\ k % Block = 0 /\ x # <<>> /\ Len(x) % XLen(k) = 0
        /\ median = 0 \/ Most({scales[b] : b \in DOMAIN scales}) <= PeakOverMedian * median

-----------------------------------------------------------------------------
(* The manifest: entries in order, the first nProducts of them products.    *)
(* m.chain is the chain context (NoPart for a stage-1 manifest).            *)

EntryAt(m, index) == m.entries[index + 1]

Chunk(m, c) == Slice(m.weights, c * WChunk, WChunk)
NWeightChunks(m) == Len(m.weights) \div WChunk
WeightLeaves(m) == Eager([c \in 1 .. NWeightChunks(m) |-> Leaf(Chunk(m, c - 1))])
EntryLeaves(m) == Eager([i \in DOMAIN m.entries |-> Leaf(m.entries[i])])

\* The manifest with the leaves of its two trees, which the miner keeps.
Indexed(m) == [entries |-> m.entries, nProducts |-> m.nProducts, chain |-> m.chain, weights |-> m.weights,
               weightLeaves |-> WeightLeaves(m), entryLeaves |-> EntryLeaves(m)]

TierCtx(m) ==
    [rT |-> MerkleRoot(m.weightLeaves), nChunks |-> NWeightChunks(m),
     mT |-> MerkleRoot(m.entryLeaves), nEntries |-> Len(m.entries), nProducts |-> m.nProducts]

\* First and last chunk of a weight row.
RowChunks(e, exp, row) ==
    LET start == (exp * e.m + row) * e.row
    IN  IF row >= e.m \/ exp >= e.nExp \/ start + e.row > (e.n \div WChunk) * WChunk THEN NoPart
        ELSE <<e.base + start \div WChunk, e.base + (start + e.row - 1) \div WChunk>>

-----------------------------------------------------------------------------
(* Leaves of a position: X and Y per product, two residuals per layer, the  *)
(* router scores per layer of a routed model, the meta leaf.                *)

NRouter(c) == IF c.nUsed > 0 THEN c.nLayers ELSE 0
NPosLeaves(np, c) == IF c = NoPart THEN 2 * np + 1 ELSE 2 * np + 2 * c.nLayers + NRouter(c) + 1
LeafX(rank) == 2 * rank
LeafY(rank) == 2 * rank + 1
ResidLeaf(np, layer, kind) == 2 * np + 2 * layer + IF kind = "Attn" THEN 0 ELSE 1
RouterLeaf(np, nLayers, layer) == 2 * np + 2 * nLayers + layer

Empty == Blake3(<<>>)
MetaHash(t, ubatch, tok) == IF tok = None THEN Leaf(<<t, ubatch>>) ELSE Leaf(<<t, ubatch, tok>>)

\* The leaf layout of a position: of stage 1, of stage 2 where tok is consumed.
PosShape(tier, c, tok) ==
    [n |-> NPosLeaves(tier.nProducts, c), tok |-> IF c = NoPart THEN None ELSE tok,
     nUsed |-> IF c = NoPart THEN 0 ELSE c.nUsed]

ExpectedUbatch(t, nPrompt) ==
    IF t >= nPrompt THEN 1 ELSE Least(Ubatch, nPrompt - (t \div Ubatch) * Ubatch)

-----------------------------------------------------------------------------
(* What a seed draws for one point: four numbers (the last used by parts),  *)
(* and how the point's link picks its block.                                *)

OutRows(e) == IF e.form = "SPLIT" THEN e.m \div 2 ELSE e.m

FirstOutput(resp) == resp.nPrompt - 1
PositionOf(resp, outputOnly, d0) ==
    IF outputOnly THEN FirstOutput(resp) + (d0 % (resp.nPos - FirstOutput(resp))) ELSE d0 % resp.nPos

\* Site 2 * layer + kind of a residual, site j with weight nSites - j.
ResidSite(d1, nSites) ==
    Pick([j \in 1 .. nSites |-> nSites - j + 1], d1 % ((nSites * (nSites + 1)) \div 2))

ResidKind(site) == IF site % 2 = 0 THEN "Attn" ELSE "Out"

Trimmed(c, layer) == c.trimLast /\ layer + 1 = c.nLayers

ResidPosition(c, resp, layer, d0) == PositionOf(resp, Trimmed(c, layer), d0)

\* The prefix: the request id, one token per byte, at a fixed place of the prompt.
Fits(nPrompt, offset) == nPrompt >= offset + PrefixLen
PrefixPosition(d, offset) == offset + (d.d0 % PrefixLen)
ExpectedToken(px, request, t) ==
    IF t < px.offset \/ t - px.offset >= PrefixLen THEN None ELSE px.table[request[t - px.offset + 1]]
=============================================================================
