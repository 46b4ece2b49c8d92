----------------------------- MODULE SeqRecord -----------------------------
(* The miner's side of the sequence points (src/src/trace_seq.rs, and       *)
(* open_attention and open_recurrent of src/src/llm.rs): what a draw points *)
(* at, what the replay must capture of it, and the opening built from that. *)
(* A capture is checked against the record before it is used; what cannot   *)
(* be built is NoPart.                                                      *)
EXTENDS TraceRecord, RecurVerify

-----------------------------------------------------------------------------
(* Spans of sequence leaves.  sq is the SeqTrace: leaf hashes and root.     *)

SeqTraceOf(leaves) == IF leaves = <<>> THEN NoPart ELSE [leaves |-> leaves, root |-> B3Root(leaves)]

\* The whole chunks that cover values lo .. hi - 1 of a leaf of `total`.
SpanPlan(leaf, total, lo, hi) ==
    IF leaf = None \/ lo >= hi \/ hi > total THEN NoPart
    ELSE [leaf |-> leaf, total |-> total, lo |-> (lo \div B3Chunk) * B3Chunk,
          hi |-> Least(total, CeilDiv(hi, B3Chunk) * B3Chunk)]

\* The span of a plan from what the replay captured of it; NoPart if that is
\* not the committed leaf.
Span(plan, cap, sq) ==
    LET n == Most({1, B3Chunks(plan.total)})
        first == plan.lo \div B3Chunk
        single == Leaf(cap.bytes) = sq.leaves[plan.leaf + 1]
        several == /\ Len(cap.cvs) = n /\ B3Root(cap.cvs) = sq.leaves[plan.leaf + 1]
                   /\ \A i \in 1 .. B3Chunks(Len(cap.bytes)) : ChunkCvs(cap.bytes, first)[i] = cap.cvs[first + i]
    IN  IF Len(cap.bytes) # plan.hi - plan.lo \/ ~(IF n = 1 THEN single ELSE several) THEN NoPart
        ELSE [first |-> first, bytes |-> cap.bytes,
              proof |-> IF n = 1 THEN <<>> ELSE B3RangeProof(cap.cvs, first, B3Chunks(Len(cap.bytes))),
              path |-> B3Path(sq.leaves, plan.leaf)]

\* Chunks of a leaf of position t that cover values lo .. lo + n - 1.
ValueChunks(rec, t, leaf, b, lo, n) ==
    LET first == lo \div B3Chunk
    IN  Eager([i \in 1 .. (lo + n - 1) \div B3Chunk - first + 1 |-> LeafChunk(rec, t, leaf, b, first + i - 1)])

\* The first layer whose links hold; None when there is none.
FindLayer(m, Holds(_)) ==
    LET found == {l \in 0 .. m.chain.nLayers - 1 : Holds(EntryAt(m, m.chain.layerBase + l).chain)}
    IN  IF found = {} THEN None ELSE CHOOSE l \in found : \A other \in found : l <= other

-----------------------------------------------------------------------------
(* The attention point of a draw. *)

DrawAttn(m, rec, d) ==
    LET c == m.chain
        slot == d.d1 % c.nAttn
        layer == FindLayer(m, LAMBDA ll : ll.attn # NoPart /\ ll.attn.slot = slot)
        ll == EntryAt(m, c.layerBase + layer).chain
        a == ll.attn
        t == ResidPosition(c, ResponseCtx(rec), layer, d.d0)
        mla == a.mlaRank > 0
        g == a.nHead \div a.nHeadKv
        kv == d.d2 % a.nHeadKv
        start == IF ~mla /\ a.swaWindow > 0 THEN Most({0, t + 1 - a.swaWindow}) ELSE 0
        dv == IF mla THEN a.mlaRank ELSE a.headDim
        params == BlockParams(IF mla THEN a.headDim ELSE 2 * a.headDim, PartialLen(dv))
    IN  IF c.nAttn = 0 THEN NoPart
        ELSE IF layer = None \/ params = NoPart THEN NoPart
        ELSE [layer |-> layer, slot |-> slot, t |-> t, links |-> a, dv |-> dv, anchorDraw |-> d.d3,
              head |-> IF mla THEN d.d2 % a.nHead ELSE kv,
              qh |-> IF mla THEN d.d2 % a.nHead ELSE kv * g + ((d.d2 \div a.nHeadKv) % g),
              tree |-> BlockTree(start, t + 1, params),
              proj |-> IF mla /\ a.out # None THEN a.out ELSE ll.proj]

OpensLeaf(w, path) == Len(path) = Depth(w.tree)

\* Mutant of Anchor: a position of the attended range, not of the opened block.
AnchorAnywhere(w, path) == w.tree.lo + (w.anchorDraw % (w.tree.hi - w.tree.lo))
Anchor(w, path) ==
    LET node == Node(w.tree, path) IN node[1] + (w.anchorDraw % (node[2] - node[1]))

\* The leaves of positions that a phase needs.
AttnCaptures(w, path) ==
    LET a == w.links
    IN  {<<w.t, LeafY(a.q)>>}
        \cup (IF path = <<>> THEN {<<w.t, LeafX(w.proj)>>} ELSE {})
        \cup (IF a.mlaRank > 0 THEN {<<w.t, LeafY(a.absorb)>>} ELSE {})
        \cup IF ~OpensLeaf(w, path) THEN {}
             ELSE {<<Anchor(w, path), LeafY(a.k)>>}
                  \cup IF a.mlaRank = 0 /\ a.v # a.k THEN {<<Anchor(w, path), LeafY(a.v)>>} ELSE {}

\* The cache spans of the node: keys, values of a cache by head, the mass at the root.
AttnSpans(m, w, nPos, path) ==
    LET a == w.links
        hd == a.headDim
        mla == a.mlaRank > 0
        kv == IF mla THEN 0 ELSE w.head
        node == Node(w.tree, path)
        g == IF mla THEN a.nHead ELSE a.nHead \div a.nHeadKv
        at == w.t * g + IF mla THEN w.qh ELSE w.qh - kv * g
        Cache(leaf) == SpanPlan(leaf, nPos * hd, node[1] * hd, node[2] * hd)
    IN  <<Cache(KCache(m.chain, w.slot, kv))>>
        \o (IF mla THEN <<>> ELSE <<Cache(VCache(m.chain, w.slot, kv))>>)
        \o IF path = <<>> THEN <<SpanPlan(LseLeaf(m.chain, w.slot, kv), nPos * g, at, at + 1)>> ELSE <<>>

\* Keys and values of the node, from the spans of an opening.
NodeRows(w, op, path) ==
    LET node == Node(w.tree, path)
        Rows(span) == Dequanted(RowsIn(span, w.links.headDim, node[1], node[2]))
        keys == Rows(op.kcache)
    IN  [keys |-> keys,
         values |-> IF w.links.mlaRank > 0 THEN Eager([i \in DOMAIN keys |-> Slice(keys[i], 0, w.dv)]) ELSE Rows(op.vcache)]

\* What a phase carries of all the fields that were built for it.
PhaseFields(w, op, path, partials) ==
    IF OpensLeaf(w, path) THEN op
    ELSE LET base == [op EXCEPT !.partials = partials, !.norms = <<>>, !.kcache = NoSpan, !.vcache = NoSpan,
                                !.anchorPosPath = <<>>, !.anchorK = <<>>, !.anchorV = <<>>, !.absorb = <<>>]
         IN  IF path = <<>> THEN base
             ELSE [base EXCEPT !.qEntry = NoPart, !.oEntry = NoPart, !.posPath = <<>>, !.q = <<>>, !.out = NoPart, !.lse = NoSpan]

\* Every field the phase may need; spans as captured, prev the partials of the
\* phase before.
AttnOpening(m, rec, sq, w, caps, spans, path, prev) ==
    LET a == w.links
        hd == a.headDim
        r == a.mlaRank
        mla == r > 0
        leaf == OpensLeaf(w, path)
        ps == Anchor(w, path)
        qY == caps[<<w.t, LeafY(a.q)>>]
        width == EntryAt(m, a.q).m \div a.nHead
        rope == hd - r
        qw == IF a.gated THEN 2 ELSE 1
        AnchorChunks(rank, lo) == ValueChunks(rec, ps, LeafY(rank), caps[<<ps, LeafY(rank)>>], lo, hd)
        declared == SelectSeq(<<<<a.qNorm, hd>>, <<a.kNorm, hd>>, <<a.ropeFreqs, a.nRot \div 2>>>>, LAMBDA x : x[1] # None)
        plans == AttnSpans(m, w, rec.nPos, path)
        opened == IF Len(spans) # Len(plans) THEN <<NoPart>>
                  ELSE Eager([i \in DOMAIN plans |-> Span(plans[i], spans[i], sq)])
        parent == PartialOpening(prev, w.dv, path[Len(path)])
    IN  IF NoPart \in ToSet(plans) \/ NoPart \in ToSet(opened) \/ (path = <<>>) # (prev = NoPart) THEN NoPart
        ELSE [posRoot |-> rec.traceRoot, seqRoot |-> sq.root,
              layer |-> EntryOpening(m, m.chain.layerBase + w.layer),
              qEntry |-> EntryOpening(m, a.q),
              oEntry |-> IF path = <<>> THEN EntryOpening(m, w.proj) ELSE NoPart,
              norms |-> IF mla THEN <<BytesRange(m, a.kNorm, 0, r)>>
                        ELSE Eager([i \in DOMAIN declared |-> BytesRange(m, declared[i][1], 0, declared[i][2])]),
              posPath |-> PosPath(rec, w.t),
              q |-> IF mla THEN ValueChunks(rec, w.t, LeafY(a.q), qY, w.head * width + width - rope, rope)
                    ELSE ValueChunks(rec, w.t, LeafY(a.q), qY, w.qh * hd * qw, hd * qw),
              out |-> IF path = <<>> THEN LeafBytes(rec, w.t, LeafX(w.proj), caps[<<w.t, LeafX(w.proj)>>]) ELSE NoPart,
              kcache |-> opened[1],
              vcache |-> IF mla THEN NoSpan ELSE opened[2],
              anchorPosPath |-> IF leaf THEN PosPath(rec, ps) ELSE <<>>,
              anchorK |-> IF ~leaf THEN <<>> ELSE AnchorChunks(a.k, IF mla THEN 0 ELSE w.head * hd),
              anchorV |-> IF ~leaf \/ mla \/ a.v = a.k THEN <<>> ELSE AnchorChunks(a.v, w.head * hd),
              absorb |-> IF ~mla THEN <<>>
                         ELSE ValueChunks(rec, w.t, LeafY(a.absorb), caps[<<w.t, LeafY(a.absorb)>>], w.head * r, r),
              path |-> path,
              parent |-> IF path = <<>> THEN <<>> ELSE parent.bytes,
              parentPath |-> IF path = <<>> THEN <<>> ELSE parent.path,
              partials |-> <<>>,
              lse |-> IF path = <<>> THEN opened[Len(opened)] ELSE NoSpan]

\* Weights of the children a phase committed, as the miner draws among them.
AttnChildWeights(m, rec, d, op) == ChildWeights(DecodePartials(op.partials, DrawAttn(m, rec, d).dv))

-----------------------------------------------------------------------------
(* The recurrent point of a draw. *)

DrawRecur(m, rec, d) ==
    LET c == m.chain
        slot == d.d1 % c.nRecur
        layer == FindLayer(m, LAMBDA ll : ll.recur # NoPart /\ ll.recur.slot = slot)
        ll == EntryAt(m, c.layerBase + layer).chain
        r == ll.recur
        segment == d.d0 % CeilDiv(rec.nPos, r.interval)
        first == segment * r.interval
        end == Least((segment + 1) * r.interval, rec.nPos)
    IN  IF c.nRecur = 0 THEN NoPart
        ELSE IF layer = None THEN NoPart
        ELSE [layer |-> layer, slot |-> slot, head |-> d.d2 % r.nV, segment |-> segment, first |-> first, end |-> end,
              row0 |-> (d.d3 % (r.headDim \div RecurRows)) * RecurRows,
              anchor |-> first + (d.hi % (end - first)), links |-> r, proj |-> ll.proj]

Offsets(w) ==
    LET r == w.links
        hk == w.head % r.nK
    IN  IF Kda(r) THEN <<w.head * r.headDim, w.head * r.headDim, w.head * r.headDim>>
        ELSE <<hk * r.headDim, (r.nK + hk) * r.headDim, (2 * r.nK + w.head) * r.headDim>>

Taps(w) == w.anchor + 1 - Least(w.anchor + 1, w.links.convLen) .. w.anchor

RecurCaptures(w) ==
    LET r == w.links
    IN  {<<p, LeafY(src)>> : p \in Taps(w), src \in IF Kda(r) THEN {r.q, r.k, r.v} ELSE {r.q}}
        \cup {<<w.anchor, LeafY(r.beta)>>, <<w.anchor, LeafY(r.decay)>>, <<w.anchor, LeafY(r.gate)>>, <<w.anchor, LeafX(w.proj)>>}

\* Records, then the rows at the start and at the end of the segment that exist.
RecurSpans(m, w, nPos) ==
    LET r == w.links
        len == RecordLen(r)
        Rows(ck) == LET at == CheckpointRows(r.headDim, ck, w.row0)
                    IN  SpanPlan(CheckpointLeaf(m.chain, w.slot, w.head), CheckpointLen(r.headDim, nPos, r.interval), at[1], at[2])
    IN  <<SpanPlan(RecordLeaf(m.chain, w.slot, w.head), nPos * len, w.first * len, w.end * len)>>
        \o (IF w.segment > 0 THEN <<Rows(w.segment)>> ELSE <<>>)
        \o IF w.end - w.first = r.interval THEN <<Rows(w.segment + 1)>> ELSE <<>>

RecurOpening(m, rec, sq, w, caps, spans) ==
    LET r == w.links
        hd == r.headDim
        gw == DecayWidth(r)
        n == Cardinality(Taps(w))
        ChunkAt(p, rank, off) == LeafChunk(rec, p, LeafY(rank), caps[<<p, LeafY(rank)>>], off \div B3Chunk)
        Tap(p) == [posPath |-> PosPath(rec, p), q |-> ChunkAt(p, r.q, Offsets(w)[1]),
                   k |-> ChunkAt(p, r.k, Offsets(w)[2]), v |-> ChunkAt(p, r.v, Offsets(w)[3])]
        conv == Eager([x \in 1 .. 3 |-> BytesRange(m, Convs(r)[x], Offsets(w)[x] * r.convLen, hd * r.convLen)])
        plans == RecurSpans(m, w, rec.nPos)
        opened == IF Len(spans) # Len(plans) THEN <<NoPart>>
                  ELSE Eager([i \in DOMAIN plans |-> Span(plans[i], spans[i], sq)])
        full == w.end - w.first = r.interval
    IN  IF NoPart \in ToSet(plans) \/ NoPart \in ToSet(opened) THEN NoPart
        ELSE [posRoot |-> rec.traceRoot, seqRoot |-> sq.root,
              layer |-> EntryOpening(m, m.chain.layerBase + w.layer),
              outEntry |-> EntryOpening(m, w.proj), decayEntry |-> EntryOpening(m, r.decay),
              weights |-> conv \o <<BytesRange(m, r.dt, w.head * gw, gw), BytesRange(m, r.a, w.head, 1),
                                    BytesRange(m, r.norm, 0, hd)>>,
              records |-> opened[1],
              startRows |-> IF w.segment > 0 THEN opened[2] ELSE NoSpan,
              endRows |-> IF full THEN opened[Len(opened)] ELSE NoSpan,
              taps |-> Eager([j \in 1 .. n |-> Tap(w.anchor - n + j)]),
              beta |-> ChunkAt(w.anchor, r.beta, w.head), decay |-> ChunkAt(w.anchor, r.decay, w.head * gw),
              gate |-> ChunkAt(w.anchor, r.gate, w.head * hd),
              out |-> LeafBytes(rec, w.anchor, LeafX(w.proj), caps[<<w.anchor, LeafX(w.proj)>>])]

\* What the node checks the sequence points against.
SeqResponseCtx(rec, sq) ==
    [traceRoot |-> SeqTraceRoot(rec.traceRoot, sq.root), nPrompt |-> rec.nPrompt, nPos |-> rec.nPos]
=============================================================================
