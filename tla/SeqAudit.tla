------------------------------ MODULE SeqAudit ------------------------------
(* The audit of the sequence leaves of one response: its attention point,   *)
(* opened in phases, each one below the last until a block of the cache is  *)
(* reached, or its recurrent point.                                         *)
(*                                                                          *)
(* The engine is external: the outputs of its products are arbitrary        *)
(* values, and the caches, masses, records, states and attention outputs    *)
(* follow from them as the test engine of the verifier computes them        *)
(* (chainkit.rs).  A run may deviate in one value; what comes after is      *)
(* computed from the deviating value, and so are the partials shown.        *)
EXTENDS SeqRecord, TLC

VARIABLES
    case,       \* what is audited: [m, tier, nPrompt, nPos]
    dev,        \* the deviating value, or NoDev
    rows,       \* the sequence leaves of the run
    outs,       \* the inputs of the output projections, by <<position, rank>>
    record,     \* what the miner keeps: the record of the positions
    sq,         \* and the sequence leaves, committed with it
    draw,       \* what the seed drew
    path,       \* the children drawn so far, by the node
    step,       \* what the last accepted phase left it
    mine,       \* the children drawn so far, by the miner
    prev,       \* the partials of the last phase it sent
    verdict

vars == <<case, dev, rows, outs, record, sq, draw, path, step, mine, prev, verdict>>

-----------------------------------------------------------------------------
(* Deviations. *)

NoDev == [kind |-> "none", slot |-> None, head |-> None, t |-> None, j |-> None]
IsDev(d, kind, slot, head, t) == d.kind = kind /\ d.slot = slot /\ d.head = head /\ d.t = t
Bent(v, j) == [v EXCEPT ![j] = (@ + 1) % P]
Deviate(d, kind, slot, head, t, v) == IF IsDev(d, kind, slot, head, t) THEN Bent(v, d.j) ELSE v

-----------------------------------------------------------------------------
(* The engine (external): what follows from the outputs of the products. *)

Flatten(s) == IF s = <<>> THEN <<>> ELSE Seqs!FlattenSeq(s)

Output(m, t, rank) ==
    Eager([i \in 1 .. EntryAt(m, rank).m * EntryAt(m, rank).nExp |-> (13 * t * t + 29 * rank + 7 * i * i + 5 * t * i + 3) % P])
F32Weights(m, index, off, n) ==
    IF index = None THEN NoPart ELSE Slice(m.weights, EntryAt(m, index).base * WChunk + off, n)
Declared(m, a) == [q |-> F32Weights(m, a.qNorm, 0, a.headDim), k |-> F32Weights(m, a.kNorm, 0, a.headDim),
                   freqs |-> F32Weights(m, a.ropeFreqs, 0, a.nRot \div 2)]

Layers(m) == 0 .. m.chain.nLayers - 1
LinksOf(m, layer) == EntryAt(m, m.chain.layerBase + layer).chain
AttnOfSlot(m, slot) == CHOOSE ll \in {LinksOf(m, l) : l \in Layers(m)} : ll.attn # NoPart /\ ll.attn.slot = slot
RecurOfSlot(m, slot) == CHOOSE ll \in {LinksOf(m, l) : l \in Layers(m)} : ll.recur # NoPart /\ ll.recur.slot = slot

CacheRow(c, a, head, t, isKey) ==
    LET k == Slice(Output(c.m, t, a.k), head * a.headDim, a.headDim)
        v == Slice(Output(c.m, t, a.v), head * a.headDim, a.headDim)
    IN  Q8Row(IF Latent(a) THEN LatentKey(a, Output(c.m, t, a.k), F32Weights(c.m, a.kNorm, 0, a.mlaRank))
              ELSE IF isKey THEN Key(a, Declared(c.m, a), k, t) ELSE Value(a, v))
CacheLeaf(c, d, a, head, isKey) ==
    IF head >= a.nHeadKv \/ (Latent(a) /\ ~isKey) THEN <<>>
    ELSE Flatten(Eager([i \in 1 .. c.nPos |->
            Deviate(d, IF isKey THEN "key" ELSE "value", a.slot, head, i - 1, CacheRow(c, a, head, i - 1, isKey))]))

\* What the delta rule reads at t, its output still zero.
RecordInputs(c, r, h, t) ==
    LET at == Channels(r, h)
        n == r.headDim
        gw == DecayWidth(r)
        Window(x) == Eager([j \in 1 .. NTaps(r, t) |-> Slice(Output(c.m, t - NTaps(r, t) + j, Sources(r)[x]), at[x], n)])
        Conv(x) == Convolved(r, Window(x), F32Weights(c.m, Convs(r)[x], at[x] * r.convLen, n * r.convLen))
        Added(i) == IF EntryAt(c.m, r.decay).bias = None THEN F32Weights(c.m, r.dt, h * gw, gw)[i] ELSE 0
        raw == Slice(Output(c.m, t, r.decay), h * gw, gw)
    IN  [q |-> L2Norm(Conv(1)), k |-> L2Norm(Conv(2)), v |-> Conv(3), o |-> Eager([i \in 1 .. n |-> 0]),
         beta |-> Sigmoid(Output(c.m, t, r.beta)[h + 1]),
         g |-> Eager([i \in 1 .. gw |-> (F32Weights(c.m, r.a, h, 1)[1] * Softplus(raw[i] + Added(i))) % P])]

\* Record and state of each position from t on.
RECURSIVE Unrolled(_, _, _, _, _, _)
Unrolled(c, d, r, h, state, t) ==
    LET read == RecordAt(r, Deviate(d, "record", r.slot, h, t, RecordBytes(RecordInputs(c, r, h, t))))
        next == Eager([i \in DOMAIN state |-> DeltaRow(r, read, state[i], i)])
        rec == [read EXCEPT !.o = Eager([i \in DOMAIN @ |-> (@[i] + Dot(next[i], read.q)) % P])]
        kept == Deviate(d, "state", r.slot, h, t, Flatten(next))
    IN  IF t = c.nPos THEN <<>>
        ELSE <<[rec |-> RecordBytes(rec), state |-> kept]>>
             \o Unrolled(c, d, r, h, Eager([i \in DOMAIN state |-> Slice(kept, (i - 1) * r.headDim, r.headDim)]), t + 1)

RecurLeaf(c, d, r, h, isRecord) ==
    LET zero == Eager([i \in 1 .. r.headDim |-> Eager([j \in 1 .. r.headDim |-> 0])])
        all == Unrolled(c, d, r, h, zero, 0)
    IN  IF h >= r.nV THEN <<>>
        ELSE IF isRecord THEN Flatten(Eager([i \in DOMAIN all |-> all[i].rec]))
        ELSE Flatten(Eager([i \in 1 .. c.nPos \div r.interval |-> all[i * r.interval].state]))

\* Leaf i of the sequence tree; the masses are not known yet.
Prefilled(c, d, i) ==
    LET ch == c.m.chain
        nKv == 2 * ch.seqHeads * ch.nAttn
        At(k) == <<(k \div 2) \div ch.seqHeads, (k \div 2) % ch.seqHeads>>
    IN  IF i < nKv THEN CacheLeaf(c, d, AttnOfSlot(c.m, At(i)[1]).attn, At(i)[2], i % 2 = 0)
        ELSE IF i < nKv + 2 * ch.seqHeads * ch.nRecur
        THEN RecurLeaf(c, d, RecurOfSlot(c.m, At(i - nKv)[1]).recur, At(i - nKv)[2], i % 2 = 0)
        ELSE <<>>

HeadQuery(c, a, t, qh) ==
    LET width == EntryAt(c.m, a.q).m \div a.nHead
    IN  IF Latent(a)
        THEN Slice(Output(c.m, t, a.absorb), qh * a.mlaRank, a.mlaRank)
             \o Slice(Output(c.m, t, a.q), qh * width + width - MlaRope(a), MlaRope(a))
        ELSE Query(a, Declared(c.m, a), Slice(Output(c.m, t, a.q), qh * width, a.headDim), t)

\* The partial of query head qh over everything it attends to at t.
Attended(c, d, cells, a, t, qh) ==
    LET kv == IF Latent(a) THEN 0 ELSE qh \div Group(a)
        p0 == AttnStart(a, t)
        Cells(leaf) == Eager([i \in 1 .. t + 1 - p0 |-> DequantHead(Slice(cells[leaf + 1], (p0 + i - 1) * a.headDim, a.headDim))])
        keys == Cells(KCache(c.m.chain, a.slot, kv))
        values == IF Latent(a) THEN Eager([i \in DOMAIN keys |-> Slice(keys[i], 0, a.mlaRank)])
                  ELSE Cells(VCache(c.m.chain, a.slot, kv))
        p == Partial(HeadQuery(c, a, t, qh), a.kqScale, keys, values)
    IN  IF IsDev(d, "block", a.slot, qh, t) THEN Bent(p, 1) ELSE p

HeadsPer(a) == IF Latent(a) THEN a.nHead ELSE Group(a)

MassLeaf(c, d, cells, slot, kv) ==
    LET a == AttnOfSlot(c.m, slot).attn
        g == HeadsPer(a)
    IN  IF kv >= a.nHeadKv THEN <<>>
        ELSE Eager([i \in 1 .. c.nPos * g |->
                LET t == (i - 1) \div g
                    qh == kv * g + ((i - 1) % g)
                IN  Mass(Attended(c, d, cells, a, t, qh)) + IF IsDev(d, "mass", slot, qh, t) THEN 1 ELSE 0])

WithMasses(c, d, cells) ==
    LET ch == c.m.chain
        from == 2 * ch.seqHeads * (ch.nAttn + ch.nRecur)
    IN  Eager([i \in DOMAIN cells |->
            IF i <= from THEN cells[i]
            ELSE MassLeaf(c, d, cells, (i - 1 - from) \div ch.seqHeads, (i - 1 - from) % ch.seqHeads)])

OutRank(ll) == IF ll.attn = NoPart THEN ll.proj ELSE IF ll.attn.out = None THEN ll.proj ELSE ll.attn.out

\* The input of the output projection: its heads, quantised, each apart when latent.
LayerOutput(c, d, cells, ll, t) ==
    LET a == ll.attn
        r == ll.recur
        layout == LayoutFor(ExpectedUbatch(t, c.nPrompt), EntryAt(c.m, OutRank(ll)).wtype)
        Gate(qh) == Slice(Output(c.m, t, a.q), (2 * qh + 1) * a.headDim, a.headDim)
        Attn(qh) == LET o == Mean(Attended(c, d, cells, a, t, qh))
                    IN  Deviate(d, "out", a.slot, qh, t, IF a.gated THEN ApplyGate(o, Gate(qh)) ELSE o)
        Recur(h) == GatedOut(r, RecordAt(r, Slice(cells[RecordLeaf(c.m.chain, r.slot, h) + 1], t * RecordLen(r), RecordLen(r))).o,
                             F32Weights(c.m, r.norm, 0, r.headDim), Slice(Output(c.m, t, r.gate), h * r.headDim, r.headDim))
    IN  IF a = NoPart THEN Quantize(Flatten(Eager([h \in 1 .. r.nV |-> Recur(h - 1)])), layout)
        ELSE IF Latent(a) THEN Flatten(Eager([h \in 1 .. a.nHead |-> Quantize(Attn(h - 1), layout)]))
        ELSE Quantize(Flatten(Eager([h \in 1 .. a.nHead |-> Attn(h - 1)])), layout)

\* The bytes of a leaf of a position; those no sequence point opens are any.
PosLeaf(c, outputs, t, leaf) ==
    IF leaf < 2 * c.m.nProducts /\ leaf % 2 = 1 THEN Output(c.m, t, leaf \div 2)
    ELSE IF leaf % 2 = 0 /\ <<t, leaf \div 2>> \in DOMAIN outputs THEN outputs[<<t, leaf \div 2>>]
    ELSE <<t, leaf>>

-----------------------------------------------------------------------------
(* The audit. *)

Resp == SeqResponseCtx(record, sq)
Captured(wanted) == [w \in wanted |-> PosLeaf(case, outs, w[1], w[2])]
CapturedSpans(plans) ==
    Eager([i \in DOMAIN plans |-> [bytes |-> Slice(rows[plans[i].leaf + 1], plans[i].lo, plans[i].hi - plans[i].lo),
                                   cvs |-> ChunkCvs(rows[plans[i].leaf + 1], 0)]])

\* A case about to run, with a deviation or none.
Start(c, d) ==
    /\ case = c
    /\ dev = d
    /\ rows = NoPart /\ outs = NoPart /\ record = NoPart /\ sq = NoPart
    /\ draw = NoPart /\ path = <<>> /\ step = NoPart /\ mine = <<>> /\ prev = NoPart
    /\ verdict = "none"

\* The engine runs.
Prefill ==
    /\ rows = NoPart
    /\ rows' = Eager([i \in 1 .. SeqLeaves(case.m.chain) |-> Prefilled(case, dev, i - 1)])
    /\ UNCHANGED <<case, dev, outs, record, sq, draw, path, step, mine, prev, verdict>>

Attend ==
    /\ rows # NoPart /\ outs = NoPart
    /\ rows' = WithMasses(case, dev, rows)
    /\ outs' = [p \in {<<t, OutRank(LinksOf(case.m, l))>> : t \in 0 .. case.nPos - 1, l \in Layers(case.m)} |->
                  LayerOutput(case, dev, rows, CHOOSE ll \in {LinksOf(case.m, l) : l \in Layers(case.m)} : OutRank(ll) = p[2], p[1])]
    /\ UNCHANGED <<case, dev, record, sq, draw, path, step, mine, prev, verdict>>

\* The root over both trees is committed; the leaves' hashes are kept.
Commit ==
    /\ outs # NoPart /\ record = NoPart
    /\ record' = NewRecord(case.m, case.nPrompt, [i \in 1 .. case.nPos |-> ExpectedUbatch(i - 1, case.nPrompt)],
                           [i \in 1 .. case.nPos |-> 0],
                           [i \in 1 .. case.nPos |->
                              [l \in 1 .. NPosLeaves(case.m.nProducts, case.m.chain) |-> Blake3(PosLeaf(case, outs, i - 1, l - 1))]])
    /\ sq' = SeqTraceOf(Eager([i \in DOMAIN rows |-> Blake3(rows[i])]))
    /\ UNCHANGED <<case, dev, rows, outs, draw, path, step, mine, prev, verdict>>

\* The seed of the response is known; it draws d.
Seed(d) ==
    /\ record # NoPart /\ draw = NoPart
    /\ draw' = d
    /\ verdict' = "open"
    /\ UNCHANGED <<case, dev, rows, outs, record, sq, path, step, mine, prev>>

\* The partials the miner shows of the children of a node.
Shown(w, full) ==
    LET s == AttnSite(case.m.chain, Resp, draw, full)
        node == NodeRows(w, full, mine)
        honest == ChildrenPartials(IF Latent(w.links) THEN MlaQuery(s, full) ELSE GqaQuery(s, full),
                                   w.links.kqScale, node.keys, node.values, Node(w.tree, mine)[1], w.tree, mine)
        Holds(i) == LET range == LeafRange(w.tree, Append(mine, i - 1)) IN range[1] <= dev.j /\ dev.j < range[2]
    IN  IF ~IsDev(dev, "block", w.slot, w.qh, w.t) THEN honest
        ELSE Eager([i \in DOMAIN honest |-> IF Holds(i) THEN Bent(honest[i], 1) ELSE honest[i]])

\* The opening of a phase, with what the replay captured; its fields alone.
Opened(w, caps) ==
    AttnOpening(case.m, record, sq, w, caps, CapturedSpans(AttnSpans(case.m, w, case.nPos, mine)), mine, prev)

Sent(w, full) == PhaseFields(w, full, mine, IF OpensLeaf(w, mine) THEN <<>> ELSE EncodePartials(Shown(w, full)))

\* What the node makes of the phase; a phase accepted leaves a step but at a leaf.
PhaseAccepted(op) ==
    AttnPhaseOk(case.tier, case.m.chain, Resp, draw, path, IF path = <<>> THEN NoHash ELSE step.root, op)

Judge(accepted, left, op) ==
    IF ~accepted THEN verdict' = "rejected" /\ UNCHANGED <<step, prev>>
    ELSE IF left = NoPart THEN verdict' = "done" /\ UNCHANGED <<step, prev>>
    ELSE verdict' = "drawing" /\ step' = left /\ prev' = op.partials

JudgeSent(op) == Judge(PhaseAccepted(op), AttnStep(case.m.chain, Resp, draw, path, op), op)

\* Nothing is sent when a capture is not the one recorded or a part is missing.
SendOpened(w, caps, full) ==
    IF CapturesMatch(record, caps) /\ full # NoPart THEN JudgeSent(Sent(w, full)) ELSE Judge(FALSE, NoPart, NoPart)

\* A phase: replayed, opened below the children drawn so far, and judged.
Phase ==
    /\ draw # NoPart /\ verdict = "open"
    /\ draw.kind = "attn"
    /\ LET w == DrawAttn(case.m, record, draw)
           caps == Captured(AttnCaptures(w, mine))
       IN  SendOpened(w, caps, Opened(w, caps))
    /\ UNCHANGED <<case, dev, rows, outs, record, sq, draw, path, mine>>

\* The seed of the next phase draws a child; the miner draws it as well.
DrawChild(r) ==
    /\ verdict = "drawing"
    /\ path' = Append(path, DrawWeightedChild(r, step.weights))
    /\ mine' = Append(mine, DrawWeightedChild(r, AttnChildWeights(case.m, record, draw, [partials |-> prev])))
    /\ verdict' = "open"
    /\ UNCHANGED <<case, dev, rows, outs, record, sq, draw, step, prev>>

RecurVerdict(caps, op) ==
    IF CapturesMatch(record, caps) /\ op # NoPart /\ RecurPointOk(case.tier, case.m.chain, Resp, draw, op)
    THEN "done" ELSE "rejected"

\* The recurrent point is opened at once.
Recurrent ==
    /\ draw # NoPart /\ verdict = "open"
    /\ draw.kind = "recur"
    /\ LET w == DrawRecur(case.m, record, draw)
           caps == Captured(RecurCaptures(w))
       IN  verdict' = RecurVerdict(caps,
                        RecurOpening(case.m, record, sq, w, caps, CapturedSpans(RecurSpans(case.m, w, case.nPos))))
    /\ UNCHANGED <<case, dev, rows, outs, record, sq, draw, path, step, mine, prev>>

-----------------------------------------------------------------------------
\* Of a manifest whose shapes check_manifest supports, every phase on every
\* path of children and every recurrent segment of an honest run is accepted.
HonestPointsAreAccepted == dev = NoDev /\ Supported(case.m) => verdict # "rejected"

\* Whether the points opened so far are about the deviating value.
Lands ==
    LET w == DrawAttn(case.m, record, draw)
        r == DrawRecur(case.m, record, draw)
        ofSlot == draw.d1 % (IF draw.kind = "attn" THEN case.m.chain.nAttn ELSE case.m.chain.nRecur) = dev.slot
        isOutput == dev.j \in 3 * r.links.headDim + 1 .. 4 * r.links.headDim
        Drawn(col) == col \in r.row0 .. r.row0 + RecurRows - 1
    IN  ofSlot /\
        CASE dev.kind \in {"key", "value"} -> (Latent(w.links) \/ w.head = dev.head) /\ Anchor(w, path) = dev.t
          [] dev.kind = "block" ->
                w.t = dev.t /\ w.qh = dev.head /\ dev.j = LeafRange(w.tree, path)[1]
          [] dev.kind \in {"out", "mass"} -> w.t = dev.t /\ w.qh = dev.head
          [] dev.kind = "record" ->
                /\ r.head = dev.head /\ dev.t \in r.first .. r.end - 1
                /\ IF isOutput THEN Drawn(dev.j - 3 * r.links.headDim - 1) ELSE r.anchor = dev.t
          [] dev.kind = "state" -> r.head = dev.head /\ r.end = dev.t + 1 /\ Drawn((dev.j - 1) \div r.links.headDim)

\* A point that reaches the deviating value - the cache row at its anchor, the
\* block at the end of its path, its output or mass, its record, the state its
\* segment ends with - is not accepted, however well all the rest fits it.
DeviationIsCaught == dev # NoDev /\ verdict = "done" => ~Lands
=============================================================================
