----------------------------- MODULE AttnVerify -----------------------------
(* Recomputing one attention head (src/verifiable-inference/src/attn.rs)    *)
(* and opening it by blocks of positions (attn_blocks.rs): the partials of  *)
(* the blocks, the tree they form, and the checks between its levels.       *)
(*                                                                          *)
(* The three roundings of the kernels are one here, and agreement within a  *)
(* tolerance is equality.  A partial is kept before its division: the       *)
(* weighted sum of the values, then the mass, the sum of the weights; so    *)
(* the largest score, which only keeps the exponentials in range, is not    *)
(* carried, and the combination of partials is their sum.                   *)
(*                                                                          *)
(* The sequence leaves of a response (src/verifiable-inference/src/seq.rs)  *)
(* and the verifier of its attention point, one phase at a time             *)
(* (chain.rs).  A key/value cache leaf holds the rows of every position end *)
(* to end and is opened by spans of whole chunks.                           *)
EXTENDS TraceVerify

CONSTANT BlockBudget    \* values a phase may spend on cache rows or on partials (96 KiB)

BudgetAssumption == BlockBudget \in Nat

Seqs == INSTANCE SequencesExt

-----------------------------------------------------------------------------
(* From a projection to the attended query, key and value.  `a` holds the   *)
(* links of the layer, `w` the weights its entries declare.                 *)

\* Query heads per key/value head.
Group(a) ==
    IF a.nHeadKv > 0 /\ a.nHead % a.nHeadKv = 0 /\ a.nRot <= a.headDim /\ a.nRot % 2 = 0
       /\ a.ropeKind \in {"NORM", "NEOX"}
    THEN a.nHead \div a.nHeadKv ELSE None

\* Pairs of adjacent values, or of values half the rotated width apart, turn by
\* an angle of the position, the pair and the declared divisor.
Rope(a, x, pos, freqs) ==
    LET half == a.nRot \div 2
        adjacent == a.ropeKind = "NORM"
        Pair(j) == IF adjacent THEN (j - 1) \div 2 ELSE (j - 1) % half
        First(j) == IF adjacent THEN j % 2 = 1 ELSE j <= half
        apart == IF adjacent THEN 1 ELSE half
        Angle(i) == pos * (a.ropeBase + i + IF freqs = NoPart THEN 0 ELSE freqs[i + 1])
    IN  Eager([j \in DOMAIN x |->
            IF j > a.nRot THEN x[j]
            ELSE IF First(j) THEN (x[j] - x[j + apart] * Angle(Pair(j))) % P
            ELSE (x[j] + x[j - apart] * Angle(Pair(j))) % P])

Rms(x, w) == IF w = NoPart THEN x ELSE TimesWeights(RmsScaled(x, 1), w)

\* Prep::fits
WeightsFit(a, w) ==
    /\ w.q = NoPart \/ Len(w.q) = a.headDim
    /\ w.k = NoPart \/ Len(w.k) = a.headDim
    /\ w.freqs = NoPart \/ Len(w.freqs) = a.nRot \div 2

Query(a, w, raw, pos) == Rope(a, Rms(raw, w.q), pos, w.freqs)
Key(a, w, raw, pos) == Rope(a, Rms(raw, w.k), pos, w.freqs)
Value(a, raw) == IF a.vNorm THEN RmsScaled(raw, 1) ELSE raw

\* A row of the cache, in Q8_0, and back.
Q8Row(v) == Eager([i \in DOMAIN v |-> (v[i] + 3) % P])
DequantHead(row) == Eager([i \in DOMAIN row |-> (row[i] + P - 3) % P])

ApplyGate(out, gate) == Eager([i \in DOMAIN out |-> (out[i] * (1 + gate[i])) % P])

-----------------------------------------------------------------------------
(* Partials. *)

PartialLen(d) == d + 1
Mass(p) == p[Len(p)]

Partial(q, scale, keys, values) ==
    LET w == Eager([i \in DOMAIN keys |-> 1 + ((Dot(q, keys[i]) * scale) % P)])
        d == Len(values[1])
    IN  IF keys = <<>> \/ Len(keys) # Len(values) \/ \E i \in DOMAIN keys : Len(keys[i]) # Len(q)
        THEN NoPart
        ELSE Eager([j \in 1 .. d + 1 |-> IF j = d + 1 THEN Total(w)
                                         ELSE Total([i \in DOMAIN w |-> w[i] * values[i][j]]) % P])

Combine(parts) ==
    Eager([j \in DOMAIN parts[1] |->
        LET sum == Total([i \in DOMAIN parts |-> parts[i][j]]) IN IF j = Len(parts[1]) THEN sum ELSE sum % P])

\* The output of a head: the weighted sum over the mass.
Mean(p) == Eager([j \in 1 .. Len(p) - 1 |-> (p[j] + Mass(p)) % P])

CheckNode(parent, children) == Combine(children) = parent

\* The attention-output input x holds the combined head, and its mass is the committed one.
CheckRoot(x, layout, nOut, head, children, gate) ==
    LET o == Mean(Combine(children))
        d == Len(o)
    IN  /\ d % Block = 0 /\ (head + 1) * d <= nOut
        /\ BlocksHold(x, layout, nOut, (head * d) \div Block, IF gate = NoPart THEN o ELSE ApplyGate(o, gate))
\* Mutant of CheckRootLse: the committed mass is not compared.
CheckRootOnly(x, layout, nOut, head, children, gate, mass) == CheckRoot(x, layout, nOut, head, children, gate)
CheckRootLse(x, layout, nOut, head, children, gate, mass) ==
    Mass(Combine(children)) = mass /\ CheckRoot(x, layout, nOut, head, children, gate)

\* Partials end to end, and one of them under the root of their tree.
EncodePartials(parts) == Eager([i \in 1 .. Len(parts) * Len(parts[1]) |->
                            parts[(i - 1) \div Len(parts[1]) + 1][((i - 1) % Len(parts[1])) + 1]])
DecodePartials(b, d) ==
    LET n == PartialLen(d)
        parts == Eager([i \in 1 .. Len(b) \div n |-> Slice(b, (i - 1) * n, n)])
    IN  IF b = <<>> \/ Len(b) % n # 0 \/ \E i \in DOMAIN parts : Mass(parts[i]) < 1 THEN NoPart ELSE parts

PartialLeaves(b, d) == Eager([i \in 1 .. Len(b) \div PartialLen(d) |-> Blake3(Slice(b, (i - 1) * PartialLen(d), PartialLen(d)))])
PartialsRoot(b, d) == B3Root(PartialLeaves(b, d))
PartialOpening(b, d, i) ==
    [bytes |-> Slice(b, i * PartialLen(d), PartialLen(d)), path |-> B3Path(PartialLeaves(b, d), i)]
OpenPartialOk(root, n, i, bytes, path, d) ==
    /\ Len(bytes) = PartialLen(d) /\ B3Verify(root, n, i, Blake3(bytes), path)
    /\ DecodePartials(bytes, d) # NoPart

\* Weights of the children in the draw: their mass and their largest output.
ChildWeights(parts) ==
    LET Peak(p) == Most({p[j] : j \in 1 .. Len(p) - 1})
        c == Eager([i \in DOMAIN parts |-> Mass(parts[i]) * Peak(parts[i])])
    IN  IF Total(c) = 0 THEN Eager([i \in DOMAIN parts |-> 1])
        ELSE Eager([i \in DOMAIN parts |-> Most({1, (c[i] * WeightSteps) \div Total(c)})])

\* Uniformly, or in proportion to the weights.
DrawWeightedChild(r, weights) ==
    IF r.uniform THEN r.at % Len(weights) ELSE Pick(weights, r.at % Total(weights))

-----------------------------------------------------------------------------
(* The tree of blocks: leaves of c positions aligned on multiples of c over *)
(* [lo, hi), under nodes of b children.  A node is the path of children     *)
(* that leads to it.                                                        *)

\* The largest power of two of units within the budget.
Fit(unit) ==
    IF unit = 0 \/ unit > BlockBudget THEN None
    ELSE Most({n \in 1 .. BlockBudget : n * unit <= BlockBudget /\ \E i \in 0 .. n : n = 2 ^ i})

\* Positions of a leaf and children of a node; NoPart when a phase is too small.
BlockParams(rowLen, partialLen) ==
    IF Fit(rowLen) = None \/ Fit(partialLen) < 2 THEN NoPart ELSE <<Fit(rowLen), Fit(partialLen)>>

BlockTree(lo, hi, params) == [lo |-> lo, hi |-> hi, c |-> params[1], b |-> params[2]]

NLeaves(tr) == (tr.hi - 1) \div tr.c - tr.lo \div tr.c + 1
Depth(tr) == CHOOSE d \in 0 .. NLeaves(tr) : tr.b ^ d >= NLeaves(tr) /\ (d = 0 \/ tr.b ^ (d - 1) < NLeaves(tr))
LeavesPerNode(tr, level) == tr.b ^ (Depth(tr) - level)

\* First and last (excluded) position of leaves x .. z - 1.
PositionsOf(tr, x, z) ==
    LET first == tr.lo \div tr.c IN <<Most({tr.lo, (first + x) * tr.c}), Least(tr.hi, (first + z) * tr.c)>>

RECURSIVE LeafRange(_, _)
LeafRange(tr, path) ==
    LET up == LeafRange(tr, Seqs!Front(path))
        from == up[1] + Seqs!Last(path) * LeavesPerNode(tr, Len(path))
    IN  IF path = <<>> THEN <<0, NLeaves(tr)>>
        ELSE IF Len(path) > Depth(tr) \/ up = NoPart THEN NoPart
        ELSE IF from >= up[2] THEN NoPart
        ELSE <<from, Least(up[2], from + LeavesPerNode(tr, Len(path)))>>

Node(tr, path) ==
    LET r == LeafRange(tr, path) IN IF r = NoPart THEN NoPart ELSE PositionsOf(tr, r[1], r[2])

Children(tr, path) ==
    LET r == LeafRange(tr, path)
        s == LeavesPerNode(tr, Len(path) + 1)
    IN  IF Len(path) >= Depth(tr) \/ r = NoPart THEN NoPart
        ELSE Eager([i \in 1 .. CeilDiv(r[2] - r[1], s) |->
                      PositionsOf(tr, r[1] + (i - 1) * s, Least(r[2], r[1] + i * s))])

\* The partials of the children of a node, from the rows of positions lo ...
ChildrenPartials(q, scale, keys, values, lo, tr, path) ==
    Eager([i \in DOMAIN Children(tr, path) |->
        LET c == Children(tr, path)[i]
        IN  Partial(q, scale, Slice(keys, c[1] - lo, c[2] - c[1]), Slice(values, c[1] - lo, c[2] - c[1]))])

-----------------------------------------------------------------------------
(* The sequence tree; c is the chain context. *)

SeqTraceRoot(posRoot, seqRoot) == B3Root(<<posRoot, seqRoot>>)

SeqLeaves(c) == 2 * c.seqHeads * (c.nAttn + c.nRecur) + c.seqHeads * c.nAttn
KCache(c, slot, h) == IF slot < c.nAttn /\ h < c.seqHeads THEN 2 * (slot * c.seqHeads + h) ELSE None
VCache(c, slot, h) == IF KCache(c, slot, h) = None THEN None ELSE KCache(c, slot, h) + 1
RecordLeaf(c, slot, h) ==
    IF slot < c.nRecur /\ h < c.seqHeads THEN 2 * c.seqHeads * c.nAttn + 2 * (slot * c.seqHeads + h) ELSE None
CheckpointLeaf(c, slot, h) == IF RecordLeaf(c, slot, h) = None THEN None ELSE RecordLeaf(c, slot, h) + 1
LseLeaf(c, slot, h) ==
    IF slot < c.nAttn /\ h < c.seqHeads THEN 2 * c.seqHeads * (c.nAttn + c.nRecur) + slot * c.seqHeads + h ELSE None

NoSpan == [first |-> 0, bytes |-> <<>>, proof |-> <<>>, path |-> <<>>]

\* Values lo .. hi - 1 of sequence leaf `leaf` of `total` values.
SpanOk(root, c, leaf, total, lo, hi, span) ==
    LET first == lo \div B3Chunk
        h == B3LeafFromChunks(total, first, span.bytes, span.proof)
    IN  /\ leaf # None
        /\ lo < hi /\ hi <= total
        /\ span.first = first
        /\ Len(span.bytes) = Least(total, CeilDiv(hi, B3Chunk) * B3Chunk) - first * B3Chunk
        /\ h # NoHash
        /\ B3Verify(root, SeqLeaves(c), leaf, h, span.path)
SpanValues(span, lo, hi) == Slice(span.bytes, lo - span.first * B3Chunk, hi - lo)

\* Rows of `len` values of positions p0 .. p1 - 1.
RowsIn(span, len, p0, p1) ==
    Eager([i \in 1 .. p1 - p0 |-> SpanValues(span, (p0 + i - 1) * len, (p0 + i) * len)])

-----------------------------------------------------------------------------
(* Values of a leaf of a position, from some of its chunks. *)

AnchorRoot(shape, leaf, chunks, total) ==
    B3Fold(shape.n, leaf, ChunkLeaf(chunks[1], total, chunks[1].index), chunks[1].path)

AnchorRootOk(posRoot, nPos, p, shape, leaf, chunks, total, path) ==
    /\ chunks # <<>>
    /\ ChunkLeaf(chunks[1], total, chunks[1].index) # NoHash
    /\ AnchorRoot(shape, leaf, chunks, total) # NoHash
    /\ B3Verify(posRoot, nPos, p, AnchorRoot(shape, leaf, chunks, total), path)

Covers(ch, v) == ch.index * B3Chunk <= v /\ v < ch.index * B3Chunk + Len(ch.chunk)
HeadOk(root, shape, leaf, chunks, total, lo, n) ==
    /\ \A i \in DOMAIN chunks : LeafChunkOk(root, shape, leaf, chunks[i], total, chunks[i].index)
    /\ \A v \in lo .. lo + n - 1 : \E i \in DOMAIN chunks : Covers(chunks[i], v)
HeadValues(chunks, lo, n) ==
    Eager([j \in 1 .. n |->
        LET ch == chunks[CHOOSE i \in DOMAIN chunks : Covers(chunks[i], lo + j - 1)]
        IN  ch.chunk[lo + j - ch.index * B3Chunk]])

-----------------------------------------------------------------------------
(* The drawn point: layer, position, block tree.  d is what the seed draws. *)

Latent(a) == a.mlaRank # 0
PartialWidth(a) == IF Latent(a) THEN a.mlaRank ELSE a.headDim
AttnParams(a) == BlockParams(IF Latent(a) THEN a.headDim ELSE 2 * a.headDim, PartialLen(PartialWidth(a)))
AttnStart(a, t) == IF ~Latent(a) /\ a.swaWindow > 0 THEN Most({0, t + 1 - a.swaWindow}) ELSE 0
AttnTree(a, t) == BlockTree(AttnStart(a, t), t + 1, AttnParams(a))

AttnSite(c, resp, d, op) ==
    LET layer == op.layer.index - c.layerBase
        ll == op.layer.bytes.chain
        t == ResidPosition(c, resp, layer, d.d0)
    IN  [layer |-> layer, ll |-> ll, a |-> ll.attn, slot |-> d.d1 % c.nAttn, t |-> t, d |-> d,
         tree |-> AttnTree(ll.attn, t), dv |-> PartialWidth(ll.attn)]

AttnSiteOk(tier, c, resp, d, op) ==
    LET layer == op.layer.index - c.layerBase
        ll == op.layer.bytes.chain
    IN  /\ resp.nPos > 0 /\ c.nAttn \in 1 .. c.nLayers /\ c.seqHeads > 0
        /\ SeqTraceRoot(op.posRoot, op.seqRoot) = resp.traceRoot
        /\ layer \in 0 .. c.nLayers - 1
        /\ EntryOk(tier, op.layer, c.layerBase + layer)
        /\ op.layer.bytes.role = "LAYER" /\ ll.layer = layer
        /\ ll.attn # NoPart /\ ll.attn.slot = d.d1 % c.nAttn
        /\ ll.attn.headDim > 0 /\ ll.attn.headDim % Block = 0
        /\ AttnParams(ll.attn) # NoPart

-----------------------------------------------------------------------------
(* The query, and what it is checked against. *)

QWidth(a) == IF a.gated THEN 2 ELSE 1
GqaHeads(a, d) ==
    LET kv == d.d2 % a.nHeadKv
        g == Group(a)
    IN  [kv |-> kv, qh |-> kv * g + ((d.d2 \div a.nHeadKv) % g)]

\* The declared weights of the layer, in order.
DeclaredNorms(a) ==
    SelectSeq(<<<<a.qNorm, a.headDim>>, <<a.kNorm, a.headDim>>, <<a.ropeFreqs, a.nRot \div 2>>>>,
              LAMBDA w : w[1] # None)
GqaNormsOk(tier, a, norms) ==
    /\ Len(norms) = Len(DeclaredNorms(a))
    /\ \A i \in DOMAIN norms : WeightsOk(tier, norms[i], DeclaredNorms(a)[i][1], DeclaredNorms(a)[i][2], 0, DeclaredNorms(a)[i][2])
GqaNorms(a, norms) ==
    LET Of(index) == IF index = None THEN NoPart
                     ELSE LET i == CHOOSE i \in DOMAIN norms : DeclaredNorms(a)[i][1] = index
                          IN  Weights(norms[i], 0, DeclaredNorms(a)[i][2])
    IN  [q |-> Of(a.qNorm), k |-> Of(a.kNorm), freqs |-> Of(a.ropeFreqs)]

QLeaf(a) == LeafY(a.q)
ShapeAny(tier, c) == PosShape(tier, c, 0)

QueryRoot(tier, c, s, op) == AnchorRoot(ShapeAny(tier, c), QLeaf(s.a), op.q, op.qEntry.bytes.m)
QueryRootOk(tier, c, resp, s, op) ==
    AnchorRootOk(op.posRoot, resp.nPos, s.t, ShapeAny(tier, c), QLeaf(s.a), op.q, op.qEntry.bytes.m, op.posPath)

GqaQueryAt(s) == GqaHeads(s.a, s.d).qh * s.a.headDim * QWidth(s.a)
GqaQueryOk(tier, c, resp, s, op) ==
    LET a == s.a
    IN  /\ Group(a) # None
        /\ EntryOk(tier, op.qEntry, a.q) /\ op.qEntry.bytes.m = a.nHead * a.headDim * QWidth(a)
        /\ GqaNormsOk(tier, a, op.norms) /\ WeightsFit(a, GqaNorms(a, op.norms))
        /\ QueryRootOk(tier, c, resp, s, op)
        /\ HeadOk(QueryRoot(tier, c, s, op), ShapeAny(tier, c), QLeaf(a), op.q, op.qEntry.bytes.m, GqaQueryAt(s), a.headDim)
GqaQuery(s, op) == Query(s.a, GqaNorms(s.a, op.norms), HeadValues(op.q, GqaQueryAt(s), s.a.headDim), s.t)

\* The query of a latent head: its absorbed part, then its unrotated one.
MlaHead(a, d) == d.d2 % a.nHead
MlaRope(a) == a.headDim - a.mlaRank
MlaQueryAt(s, op) ==
    LET width == op.qEntry.bytes.m \div s.a.nHead IN MlaHead(s.a, s.d) * width + width - MlaRope(s.a)
MlaQueryOk(tier, c, resp, s, op) ==
    LET a == s.a
        root == QueryRoot(tier, c, s, op)
    IN  /\ QueryRootOk(tier, c, resp, s, op)
        /\ HeadOk(root, ShapeAny(tier, c), LeafY(a.absorb), op.absorb, a.nHead * a.mlaRank, MlaHead(a, s.d) * a.mlaRank, a.mlaRank)
        /\ HeadOk(root, ShapeAny(tier, c), QLeaf(a), op.q, op.qEntry.bytes.m, MlaQueryAt(s, op), MlaRope(a))
MlaQuery(s, op) ==
    HeadValues(op.absorb, MlaHead(s.a, s.d) * s.a.mlaRank, s.a.mlaRank) \o HeadValues(op.q, MlaQueryAt(s, op), MlaRope(s.a))

\* The position root reached by the attention-output input, and its layout.
OutLayout(resp, s, op) == LayoutFor(ExpectedUbatch(s.t, resp.nPrompt), op.oEntry.bytes.wtype)
OutRoot(tier, c, rank, op) == B3Fold(ShapeAny(tier, c).n, LeafX(rank), Blake3(op.out.bytes), op.out.path)
OutRootOk(tier, c, resp, s, rank, op) ==
    /\ OutRoot(tier, c, rank, op) # NoHash
    /\ B3Verify(op.posRoot, resp.nPos, s.t, OutRoot(tier, c, rank, op), op.posPath)

\* The committed mass of query head qi of the group of g of key/value head kv.
LseAt(s, g, qi) == s.t * g + qi
CommittedLseOk(c, resp, s, op, kv, g, qi) ==
    SpanOk(op.seqRoot, c, LseLeaf(c, s.slot, kv), resp.nPos * g, LseAt(s, g, qi), LseAt(s, g, qi) + 1, op.lse)
CommittedLse(s, op, g, qi) == SpanValues(op.lse, LseAt(s, g, qi), LseAt(s, g, qi) + 1)[1]

CacheRowsOk(c, resp, leaf, len, p0, p1, op, span) ==
    SpanOk(op.seqRoot, c, leaf, resp.nPos * len, p0 * len, p1 * len, span)
CacheRows(span, len, p0, p1) == RowsIn(span, len, p0, p1)
Dequanted(rows) == Eager([i \in DOMAIN rows |-> DequantHead(rows[i])])

-----------------------------------------------------------------------------
(* A phase of a grouped-query layer: the output against its children or the *)
(* whole range (the root), or a leaf against its parent; a leaf also shows  *)
(* that one drawn row of the cache is of the committed projections.         *)

AnchorOf(s, p0, p1) == p0 + (s.d.d3 % (p1 - p0))

GqaAnchorOk(tier, c, resp, s, op, krows, vrows, p0, p1) ==
    LET a == s.a
        w == GqaNorms(a, op.norms)
        shape == ShapeAny(tier, c)
        ps == AnchorOf(s, p0, p1)
        total == a.nHeadKv * a.headDim
        at == GqaHeads(a, s.d).kv * a.headDim
        root == AnchorRoot(shape, LeafY(a.k), op.anchorK, total)
        kProj == HeadValues(op.anchorK, at, a.headDim)
        vProj == IF a.v = a.k THEN kProj ELSE HeadValues(op.anchorV, at, a.headDim)
    IN  /\ AnchorRootOk(op.posRoot, resp.nPos, ps, shape, LeafY(a.k), op.anchorK, total, op.anchorPosPath)
        /\ HeadOk(root, shape, LeafY(a.k), op.anchorK, total, at, a.headDim)
        /\ IF a.v = a.k THEN op.anchorV = <<>>
           ELSE HeadOk(root, shape, LeafY(a.v), op.anchorV, total, at, a.headDim)
        /\ krows[ps - p0 + 1] = Q8Row(Key(a, w, kProj, ps))
        /\ vrows[ps - p0 + 1] = Q8Row(Value(a, vProj))

GqaOutOk(tier, c, resp, s, op, parts) ==
    LET a == s.a
        h == GqaHeads(a, s.d)
        g == Group(a)
        root == OutRoot(tier, c, s.ll.proj, op)
        at == GqaQueryAt(s) + a.headDim
        GateOk == HeadOk(root, ShapeAny(tier, c), QLeaf(a), op.q, op.qEntry.bytes.m, at, a.headDim)
    IN  /\ EntryOk(tier, op.oEntry, s.ll.proj) /\ op.oEntry.bytes.k = a.nHead * a.headDim
        /\ OutRootOk(tier, c, resp, s, s.ll.proj, op)
        /\ Len(op.out.bytes) = XLen(op.oEntry.bytes.k)
        /\ a.gated => GateOk
        /\ CommittedLseOk(c, resp, s, op, h.kv, g, h.qh - h.kv * g)
        /\ CheckRootLse(op.out.bytes, OutLayout(resp, s, op), a.nHead * a.headDim, h.qh, parts,
                        IF a.gated THEN HeadValues(op.q, at, a.headDim) ELSE NoPart,
                        CommittedLse(s, op, g, h.qh - h.kv * g))

GqaLeafOk(tier, c, resp, s, op, path, parent) ==
    LET a == s.a
        kv == GqaHeads(a, s.d).kv
        node == Node(s.tree, path)
        krows == CacheRows(op.kcache, a.headDim, node[1], node[2])
        vrows == CacheRows(op.vcache, a.headDim, node[1], node[2])
        own == Partial(GqaQuery(s, op), a.kqScale, Dequanted(krows), Dequanted(vrows))
    IN  /\ GqaQueryOk(tier, c, resp, s, op)
        /\ CacheRowsOk(c, resp, KCache(c, s.slot, kv), a.headDim, node[1], node[2], op, op.kcache)
        /\ CacheRowsOk(c, resp, VCache(c, s.slot, kv), a.headDim, node[1], node[2], op, op.vcache)
        /\ IF parent # NoPart THEN own = parent
           ELSE GqaOutOk(tier, c, resp, s, op, <<own>>) /\ OutRoot(tier, c, s.ll.proj, op) = QueryRoot(tier, c, s, op)
        /\ GqaAnchorOk(tier, c, resp, s, op, krows, vrows, node[1], node[2])

GqaPhaseOk(tier, c, resp, s, op, path, parent, children) ==
    /\ s.a.absorb = None /\ s.a.out = None /\ op.absorb = <<>>
    /\ Group(s.a) # None
    /\ EntryOk(tier, op.qEntry, s.a.q) /\ op.qEntry.bytes.m = s.a.nHead * s.a.headDim * QWidth(s.a)
    /\ IF children # NoPart THEN GqaOutOk(tier, c, resp, s, op, children)
       ELSE GqaLeafOk(tier, c, resp, s, op, path, parent)

-----------------------------------------------------------------------------
(* A phase of a latent-cache layer: one query head against one cache whose  *)
(* row is the normed latent, the value, then the shared key part.           *)

MlaOutRank(s) == IF s.a.out = None THEN s.ll.proj ELSE s.a.out

MlaOutOk(tier, c, resp, s, op, parts) ==
    LET a == s.a
        oe == op.oEntry.bytes
        one == XLen(oe.k)
    IN  /\ EntryOk(tier, op.oEntry, MlaOutRank(s))
        /\ oe.k = a.mlaRank /\ oe.nExp = a.nHead /\ oe.role = "HEADS"
        /\ OutRootOk(tier, c, resp, s, MlaOutRank(s), op)
        /\ Len(op.out.bytes) = a.nHead * one
        /\ CommittedLseOk(c, resp, s, op, 0, a.nHead, MlaHead(a, s.d))
        /\ CheckRootLse(Slice(op.out.bytes, MlaHead(a, s.d) * one, one), OutLayout(resp, s, op), a.mlaRank, 0, parts,
                        NoPart, CommittedLse(s, op, a.nHead, MlaHead(a, s.d)))

LatentKey(a, kvA, norm) == Rms(Slice(kvA, 0, a.mlaRank), norm) \o Slice(kvA, a.mlaRank, MlaRope(a))

MlaLeafOk(tier, c, resp, s, op, path, parent) ==
    LET a == s.a
        r == a.mlaRank
        node == Node(s.tree, path)
        rows == CacheRows(op.kcache, a.headDim, node[1], node[2])
        keys == Dequanted(rows)
        own == Partial(MlaQuery(s, op), a.kqScale, keys, Eager([i \in DOMAIN keys |-> Slice(keys[i], 0, r)]))
        shape == ShapeAny(tier, c)
        ps == AnchorOf(s, node[1], node[2])
        root == AnchorRoot(shape, LeafY(a.k), op.anchorK, a.headDim)
    IN  /\ Len(op.norms) = 1 /\ WeightsOk(tier, op.norms[1], a.kNorm, r, 0, r)
        /\ MlaQueryOk(tier, c, resp, s, op)
        /\ CacheRowsOk(c, resp, KCache(c, s.slot, 0), a.headDim, node[1], node[2], op, op.kcache)
        /\ IF parent # NoPart THEN own = parent ELSE MlaOutOk(tier, c, resp, s, op, <<own>>)
        /\ AnchorRootOk(op.posRoot, resp.nPos, ps, shape, LeafY(a.k), op.anchorK, a.headDim, op.anchorPosPath)
        /\ HeadOk(root, shape, LeafY(a.k), op.anchorK, a.headDim, 0, a.headDim)
        /\ rows[ps - node[1] + 1] = Q8Row(LatentKey(a, HeadValues(op.anchorK, 0, a.headDim), Weights(op.norms[1], 0, r)))

LatentShape(a) ==
    /\ a.mlaRank % Block = 0 /\ a.mlaRank <= a.headDim
    /\ a.nHeadKv = 1 /\ a.nRot = 0 /\ a.swaWindow = 0 /\ ~a.gated /\ ~a.vNorm /\ a.qNorm = None /\ a.ropeFreqs = None
    /\ a.v = None /\ a.kNorm # None /\ a.absorb # None /\ a.nHead > 0

MlaPhaseOk(tier, c, resp, s, op, path, parent, children) ==
    /\ LatentShape(s.a)
    /\ EntryOk(tier, op.qEntry, s.a.q)
    /\ op.qEntry.bytes.m % s.a.nHead = 0 /\ op.qEntry.bytes.m \div s.a.nHead > MlaRope(s.a)
    /\ op.anchorV = <<>> /\ op.vcache = NoSpan
    /\ IF children # NoPart THEN MlaOutOk(tier, c, resp, s, op, children)
       ELSE MlaLeafOk(tier, c, resp, s, op, path, parent)

-----------------------------------------------------------------------------
(* A phase: it carries its own fields and no others, shows the parent that  *)
(* the previous phase committed, and commits its children unless it is a    *)
(* leaf.                                                                    *)

OwnFields(op, first, last) ==
    /\ ~first /\ ~last => op.qEntry = NoPart /\ op.posPath = <<>> /\ op.q = <<>>
    /\ ~first => op.oEntry = NoPart /\ op.out = NoPart /\ op.lse = NoSpan
    /\ ~last => /\ op.norms = <<>> /\ op.kcache = NoSpan /\ op.vcache = NoSpan
                /\ op.anchorPosPath = <<>> /\ op.anchorK = <<>> /\ op.anchorV = <<>> /\ op.absorb = <<>>
    /\ last => op.partials = <<>>

ParentOk(s, op, path, parentRoot) ==
    IF path = <<>> THEN parentRoot = NoHash /\ op.parent = <<>> /\ op.parentPath = <<>>
    ELSE /\ parentRoot # NoHash
         /\ Children(s.tree, Seqs!Front(path)) # NoPart
         /\ OpenPartialOk(parentRoot, Len(Children(s.tree, Seqs!Front(path))), Seqs!Last(path),
                          op.parent, op.parentPath, s.dv)

AttnPhaseOk(tier, c, resp, d, path, parentRoot, op) ==
    LET s == AttnSite(c, resp, d, op)
        last == Len(path) = Depth(s.tree)
        parent == IF path = <<>> THEN NoPart ELSE op.parent
        children == IF last THEN NoPart ELSE DecodePartials(op.partials, s.dv)
    IN  /\ AttnSiteOk(tier, c, resp, d, op)
        /\ op.path = path /\ Len(path) <= Depth(s.tree)
        /\ ParentOk(s, op, path, parentRoot)
        /\ OwnFields(op, path = <<>>, last)
        /\ ~last => children # NoPart /\ Len(children) = Len(Children(s.tree, path))
        /\ IF parent # NoPart /\ children # NoPart THEN CheckNode(parent, children)
           ELSE IF Latent(s.a) THEN MlaPhaseOk(tier, c, resp, s, op, path, parent, children)
           ELSE GqaPhaseOk(tier, c, resp, s, op, path, parent, children)

\* What an accepted phase leaves: NoPart when done, or what the next one opens.
AttnStep(c, resp, d, path, op) ==
    LET s == AttnSite(c, resp, d, op)
    IN  IF Len(path) = Depth(s.tree) THEN NoPart
        ELSE [root |-> PartialsRoot(op.partials, s.dv), n |-> Len(DecodePartials(op.partials, s.dv)),
              weights |-> ChildWeights(DecodePartials(op.partials, s.dv))]
=============================================================================
