---------------------------- MODULE RecurVerify ----------------------------
(* The verifier of a recurrent layer (src/verifiable-inference/src/recur.rs) *)
(* and what a manifest must look like for the sequence points to be         *)
(* verifiable at all (support.rs).                                          *)
(*                                                                          *)
(* A head keeps a state of headDim rows, one per value dimension.  Its      *)
(* record of a position holds what the delta rule read and gave; the state  *)
(* is committed every `interval` positions.  A point recomputes some rows   *)
(* over one such segment and ties one record to the committed projections.  *)
(* Values have no size here, so the bounds on them are left out.            *)
EXTENDS AttnVerify

CONSTANT RecurRows      \* RECUR_ROWS: state rows recomputed per point (16)

RecurRowsAssumption == RecurRows \in Nat \ {0}

-----------------------------------------------------------------------------
(* Kernels. *)

Exp(x) == (1 + x * x) % P
Sigmoid(x) == (2 * x + 1) % P
Silu(x) == (x * Sigmoid(x)) % P
Softplus(x) == (x + 5) % P
L2Norm(v) == RmsScaled(v, 1)

-----------------------------------------------------------------------------
(* Records and checkpoints in their leaves. *)

Kda(r) == r.kind = "KDA"
DecayWidth(r) == IF Kda(r) THEN r.headDim ELSE 1
RecordLen(r) == 4 * r.headDim + 1 + DecayWidth(r)

RecordBytes(rec) == rec.q \o rec.k \o rec.v \o rec.o \o <<rec.beta>> \o rec.g
RecordAt(r, b) ==
    LET hd == r.headDim
    IN  [q |-> Slice(b, 0, hd), k |-> Slice(b, hd, hd), v |-> Slice(b, 2 * hd, hd), o |-> Slice(b, 3 * hd, hd),
         beta |-> b[4 * hd + 1], g |-> Slice(b, 4 * hd + 1, DecayWidth(r))]

\* The state after every interval, a last partial one excluded.
CheckpointLen(hd, nPos, interval) == (nPos \div interval) * hd * hd

\* Where rows r0 .. r0 + RecurRows - 1 of checkpoint m >= 1 lie.
CheckpointRows(hd, m, r0) == <<((m - 1) * hd + r0) * hd, ((m - 1) * hd + r0 + RecurRows) * hd>>

-----------------------------------------------------------------------------
(* The delta rule. *)

\* A row of the state (of value dimension col) after one more record.
DeltaRow(r, rec, row, col) ==
    LET decayed == Eager([i \in DOMAIN row |-> (Exp(rec.g[IF Kda(r) THEN i ELSE 1]) * row[i]) % P])
        delta == ((rec.v[col] + P - Dot(decayed, rec.k)) * rec.beta) % P
    IN  Eager([i \in DOMAIN row |-> (decayed[i] + rec.k[i] * delta) % P])

\* Rows r0 .. of the state after the records, or NoPart where an output differs.
RECURSIVE Replayed(_, _, _, _)
Replayed(r, recs, state, r0) ==
    LET rec == Head(recs)
        next == Eager([i \in DOMAIN state |-> DeltaRow(r, rec, state[i], r0 + i)])
    IN  IF recs = <<>> THEN state
        ELSE IF \E i \in DOMAIN next : Dot(next[i], rec.q) # rec.o[r0 + i] THEN NoPart
        ELSE Replayed(r, Tail(recs), next, r0)

-----------------------------------------------------------------------------
(* What the record of a position is made from. *)

\* Values of a leaf of a position that lie in one chunk, and the root they reach.
InOneChunk(off, n) == (off % B3Chunk) + n <= B3Chunk
ChunkRoot(shape, leaf, ch, total, off, n) ==
    IF ~InOneChunk(off, n) \/ ChunkLeaf(ch, total, off \div B3Chunk) = NoHash THEN NoHash
    ELSE B3Fold(shape.n, leaf, ChunkLeaf(ch, total, off \div B3Chunk), ch.path)
ChunkOk(root, shape, leaf, ch, total, off, n) ==
    root # NoHash /\ ChunkRoot(shape, leaf, ch, total, off, n) = root
ChunkValues(ch, off, n) == Slice(ch.chunk, off % B3Chunk, n)

\* Where the query, key and value channels of head h start in their projections.
Sources(r) == <<r.q, r.k, r.v>>
Convs(r) == <<r.convQ, r.convK, r.convV>>
Channels(r, h) ==
    LET hd == r.headDim
        hk == h % r.nK
    IN  IF Kda(r) THEN <<h * hd, h * hd, h * hd>>
        ELSE <<hk * hd, (r.nK + hk) * hd, 2 * r.nK * hd + h * hd>>
ChannelTotal(r) == IF Kda(r) THEN r.nV * r.headDim ELSE (2 * r.nK + r.nV) * r.headDim

\* Positions the convolution at p reaches.
NTaps(r, p) == Least(p + 1, r.convLen)

\* The convolution of window x (one row per tap, the earliest first), w in rows of convLen.
Convolved(r, window, w) ==
    LET missing == r.convLen - Len(window)
        At(i) == Total([j \in DOMAIN window |-> w[(i - 1) * r.convLen + missing + j] * window[j][i]]) % P
    IN  Eager([i \in 1 .. r.headDim |-> Silu(At(i))])

\* The gated norm of the record's output.
GatedOut(r, o, norm, gate) ==
    LET n == RmsScaled(o, 1)
    IN  Eager([i \in DOMAIN o |-> (n[i] * norm[i] * IF Kda(r) THEN Sigmoid(gate[i]) ELSE Silu(gate[i])) % P])

-----------------------------------------------------------------------------
(* The point. *)

RecurSite(c, resp, d, op) ==
    LET layer == op.layer.index - c.layerBase
        ll == op.layer.bytes.chain
        r == ll.recur
        s == d.d0 % CeilDiv(resp.nPos, r.interval)
        end == Least((s + 1) * r.interval, resp.nPos)
    IN  [ll |-> ll, r |-> r, slot |-> d.d1 % c.nRecur, h |-> d.d2 % r.nV,
         s |-> s, first |-> s * r.interval, end |-> end,
         r0 |-> (d.d3 % (r.headDim \div RecurRows)) * RecurRows,
         p |-> s * r.interval + (d.hi % (end - s * r.interval))]

RecurShapeOk(c, r) ==
    /\ r.kind \in {"GDA", "KDA"} /\ r.convLen \in 1 .. 8 /\ r.interval > 0
    /\ r.headDim > 0 /\ r.headDim % Block = 0 /\ r.headDim % RecurRows = 0
    /\ r.nK > 0 /\ r.nV % r.nK = 0 /\ r.nV <= c.seqHeads
    /\ Kda(r) => r.nK = r.nV

RecurSiteOk(tier, c, resp, d, op) ==
    LET layer == op.layer.index - c.layerBase
        ll == op.layer.bytes.chain
    IN  /\ resp.nPos > 0 /\ c.nRecur > 0 /\ c.seqHeads > 0
        /\ SeqTraceRoot(op.posRoot, op.seqRoot) = resp.traceRoot
        /\ layer \in 0 .. c.nLayers - 1
        /\ EntryOk(tier, op.layer, c.layerBase + layer)
        /\ op.layer.bytes.role = "LAYER" /\ ll.layer = layer
        /\ ll.recur # NoPart /\ ll.recur.slot = d.d1 % c.nRecur
        /\ RecurShapeOk(c, ll.recur)

RecordsOk(c, resp, s, op) ==
    LET len == RecordLen(s.r)
    IN  SpanOk(op.seqRoot, c, RecordLeaf(c, s.slot, s.h), resp.nPos * len, s.first * len, s.end * len, op.records)
Records(s, op) ==
    LET rows == RowsIn(op.records, RecordLen(s.r), s.first, s.end)
    IN  Eager([i \in DOMAIN rows |-> RecordAt(s.r, rows[i])])

StateRowsOk(c, resp, s, m, op, span) ==
    LET at == CheckpointRows(s.r.headDim, m, s.r0)
    IN  SpanOk(op.seqRoot, c, CheckpointLeaf(c, s.slot, s.h), CheckpointLen(s.r.headDim, resp.nPos, s.r.interval),
               at[1], at[2], span)
StateRows(s, m, span) ==
    LET at == CheckpointRows(s.r.headDim, m, s.r0)[1]
    IN  Eager([i \in 1 .. RecurRows |-> SpanValues(span, at + (i - 1) * s.r.headDim, at + i * s.r.headDim)])

\* The rows replayed from the start of the segment give its outputs and its end.
SegmentOk(c, resp, s, op) ==
    LET zero == Eager([i \in 1 .. RecurRows |-> Eager([j \in 1 .. s.r.headDim |-> 0])])
        start == IF s.s = 0 THEN zero ELSE StateRows(s, s.s, op.startRows)
        after == Replayed(s.r, Records(s, op), start, s.r0)
    IN  /\ RecordsOk(c, resp, s, op)
        /\ IF s.s = 0 THEN op.startRows = NoSpan ELSE StateRowsOk(c, resp, s, s.s, op, op.startRows)
        /\ after # NoPart
        /\ IF s.end - s.first = s.r.interval
           THEN StateRowsOk(c, resp, s, s.s + 1, op, op.endRows) /\ after = StateRows(s, s.s + 1, op.endRows)
           ELSE op.endRows = NoSpan

\* The root of position p, which every leaf of it reaches.
AnchoredRoot(shape, s, op) ==
    ChunkRoot(shape, LeafY(s.r.q), op.taps[NTaps(s.r, s.p)].q, ChannelTotal(s.r), Channels(s.r, s.h)[1], s.r.headDim)

TapsOk(resp, shape, s, op) ==
    LET n == NTaps(s.r, s.p)
        at == Channels(s.r, s.h)
        Root(tap) == ChunkRoot(shape, LeafY(s.r.q), tap.q, ChannelTotal(s.r), at[1], s.r.headDim)
    IN  /\ Len(op.taps) = n
        /\ \A j \in 1 .. n :
             LET tap == op.taps[j]
             IN  /\ ChunkOk(Root(tap), shape, LeafY(s.r.k), tap.k, ChannelTotal(s.r), at[2], s.r.headDim)
                 /\ ChunkOk(Root(tap), shape, LeafY(s.r.v), tap.v, ChannelTotal(s.r), at[3], s.r.headDim)
                 /\ B3Verify(op.posRoot, resp.nPos, s.p + j - n, Root(tap), tap.posPath)

\* Query, key and value of the record come from the convolved projections.
InputsOk(tier, s, op, rec) ==
    LET r == s.r
        at == Channels(r, s.h)
        weights == r.headDim * r.convLen
        Window(x) == Eager([j \in DOMAIN op.taps |->
                        ChunkValues(<<op.taps[j].q, op.taps[j].k, op.taps[j].v>>[x], at[x], r.headDim)])
        Conv(x) == Convolved(r, Window(x), Weights(op.weights[x], at[x] * r.convLen, weights))
    IN  /\ \A x \in 1 .. 3 :
             WeightsOk(tier, op.weights[x], Convs(r)[x], r.convLen * ChannelTotal(r), at[x] * r.convLen, weights)
        /\ rec.q = L2Norm(Conv(1)) /\ rec.k = L2Norm(Conv(2)) /\ rec.v = Conv(3)

\* Its rate and its decay come from theirs; the bias of the decay is added here
\* unless its product adds it.
RatesOk(tier, c, shape, s, op, root, rec) ==
    LET r == s.r
        gw == DecayWidth(r)
        beta == ChunkValues(op.beta, s.h, 1)
        raw == ChunkValues(op.decay, s.h * gw, gw)
        dt == Weights(op.weights[4], s.h * gw, gw)
        a == Weights(op.weights[5], s.h, 1)[1]
        bias(i) == IF op.decayEntry.bytes.bias = None THEN dt[i] ELSE 0
    IN  /\ ChunkOk(root, shape, LeafY(r.beta), op.beta, r.nV, s.h, 1)
        /\ rec.beta = Sigmoid(beta[1])
        /\ EntryOk(tier, op.decayEntry, r.decay) /\ op.decayEntry.bytes.role = "PRODUCT"
        /\ ChunkOk(root, shape, LeafY(r.decay), op.decay, r.nV * gw, s.h * gw, gw)
        /\ WeightsOk(tier, op.weights[4], r.dt, r.nV * gw, s.h * gw, gw)
        /\ WeightsOk(tier, op.weights[5], r.a, r.nV, s.h, 1)
        /\ rec.g = Eager([i \in 1 .. gw |-> (a * Softplus(raw[i] + bias(i))) % P])

\* Its output, normed and gated, is the head's part of the output projection's input.
GatedOutOk(tier, resp, shape, s, op, root, rec) ==
    LET r == s.r
        width == r.nV * r.headDim
        oe == op.outEntry.bytes
        layout == LayoutFor(ExpectedUbatch(s.p, resp.nPrompt), oe.wtype)
        y == GatedOut(r, rec.o, Weights(op.weights[6], 0, r.headDim), ChunkValues(op.gate, s.h * r.headDim, r.headDim))
    IN  /\ ChunkOk(root, shape, LeafY(r.gate), op.gate, width, s.h * r.headDim, r.headDim)
        /\ WeightsOk(tier, op.weights[6], r.norm, r.headDim, 0, r.headDim)
        /\ EntryOk(tier, op.outEntry, s.ll.proj) /\ oe.k = width
        /\ WholeLeafOk(root, shape, LeafX(s.ll.proj), op.out, XLen(oe.k))
        /\ BlocksHold(op.out.bytes, layout, width, (s.h * r.headDim) \div Block, y)

RecurPointOk(tier, c, resp, d, op) ==
    LET s == RecurSite(c, resp, d, op)
        shape == ShapeAny(tier, c)
        rec == Records(s, op)[s.p - s.first + 1]
        root == AnchoredRoot(shape, s, op)
    IN  /\ RecurSiteOk(tier, c, resp, d, op)
        /\ SegmentOk(c, resp, s, op)
        /\ Len(op.weights) = 6
        /\ TapsOk(resp, shape, s, op)
        /\ InputsOk(tier, s, op, rec)
        /\ RatesOk(tier, c, shape, s, op, root, rec)
        /\ GatedOutOk(tier, resp, shape, s, op, root, rec)

-----------------------------------------------------------------------------
(* Whether every sequence point that can be drawn of a manifest has a shape *)
(* the verifiers accept: a matter of the manifest and the draw alone.       *)

NormShape(m, index, k) ==
    index = None \/ (EntryAt(m, index).role = "NORM" /\ EntryAt(m, index).wtype = 0 /\ EntryAt(m, index).k = k)

AttnLayerOk(m, ll, a) ==
    LET c == m.chain
        qm == EntryAt(m, a.q).m
        oe == EntryAt(m, IF a.out = None THEN ll.proj ELSE a.out)
    IN  /\ c.nAttn \in 1 .. c.nLayers /\ c.seqHeads > 0 /\ a.slot < c.nAttn
        /\ a.headDim > 0 /\ a.headDim % Block = 0 /\ AttnParams(a) # NoPart
        /\ IF Latent(a)
           THEN /\ LatentShape(a)
                /\ qm % a.nHead = 0 /\ qm \div a.nHead > MlaRope(a)
                /\ oe.k = a.mlaRank /\ oe.nExp = a.nHead /\ oe.role = "HEADS"
                /\ KCache(c, a.slot, 0) # None
           ELSE /\ a.absorb = None /\ a.out = None
                /\ Group(a) # None
                /\ qm = a.nHead * a.headDim * QWidth(a) /\ EntryAt(m, ll.proj).k = a.nHead * a.headDim
                /\ NormShape(m, a.qNorm, a.headDim) /\ NormShape(m, a.kNorm, a.headDim)
                /\ NormShape(m, a.ropeFreqs, a.nRot \div 2)
                /\ \A kv \in 0 .. a.nHeadKv - 1 : KCache(c, a.slot, kv) # None

\* A head whose values straddle two chunks cannot be opened by one.
OpensInChunks(r, h) ==
    /\ \A x \in 1 .. 3 : InOneChunk(Channels(r, h)[x], r.headDim)
    /\ InOneChunk(h * DecayWidth(r), DecayWidth(r)) /\ InOneChunk(h * r.headDim, r.headDim)

RecurLayerOk(m, ll, r) ==
    LET c == m.chain
        gw == DecayWidth(r)
    IN  /\ c.nRecur > 0 /\ c.seqHeads > 0 /\ r.slot < c.nRecur
        /\ RecurShapeOk(c, r)
        /\ EntryAt(m, r.decay).role = "PRODUCT"
        /\ EntryAt(m, ll.proj).k = r.nV * r.headDim
        /\ \A x \in 1 .. 3 : NormShape(m, Convs(r)[x], r.convLen * ChannelTotal(r))
        /\ NormShape(m, r.dt, r.nV * gw) /\ NormShape(m, r.a, r.nV) /\ NormShape(m, r.norm, r.headDim)
        /\ \A h \in 0 .. r.nV - 1 : OpensInChunks(r, h) /\ RecordLeaf(c, r.slot, h) # None

Supported(m) ==
    LET c == m.chain
        Links(l) == EntryAt(m, c.layerBase + l).chain
        layers == 0 .. c.nLayers - 1
    IN  /\ \A l \in layers :
             /\ EntryAt(m, c.layerBase + l).role = "LAYER" /\ Links(l).layer = l
             /\ Links(l).attn # NoPart => AttnLayerOk(m, Links(l), Links(l).attn)
             /\ Links(l).recur # NoPart => RecurLayerOk(m, Links(l), Links(l).recur)
        /\ Cardinality({l \in layers : Links(l).attn # NoPart}) = c.nAttn
        /\ Cardinality({l \in layers : Links(l).recur # NoPart}) = c.nRecur
=============================================================================
