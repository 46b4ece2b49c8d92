---------------------------- MODULE TraceVerify ----------------------------
(* The verifier of an opened trace: src/verifiable-inference/src verify.rs, *)
(* prefix.rs and chain.rs.  A check that fails in any way is FALSE here:    *)
(* the kind of failure is only reported.                                    *)
EXTENDS TraceManifest

-----------------------------------------------------------------------------
(* Openings of the manifest, of the weights and of a position's leaves. *)

EntryOk(tier, o, index) ==
    o.index = index /\ RtVerifyRange(tier.mT, tier.nEntries, index, <<Leaf(o.bytes)>>, o.path)

\* `len` values of entry e from `off` on.
BytesOk(tier, e, r, off, len) ==
    LET first == e.base + off \div WChunk
        last == e.base + (off + len - 1) \div WChunk
    IN  /\ len > 0 /\ off + len <= (e.n \div WChunk) * WChunk
        /\ r.first = first /\ Len(r.chunks) = last - first + 1
        /\ RtVerifyRange(tier.rT, tier.nChunks, first, [i \in DOMAIN r.chunks |-> Leaf(r.chunks[i])], r.proof)

Flat(chunks) == [i \in 1 .. WChunk * Len(chunks) |-> chunks[(i - 1) \div WChunk + 1][((i - 1) % WChunk) + 1]]
Bytes(r, off, len) == Slice(Flat(r.chunks), off % WChunk, len)

RowOk(tier, e, r, exp, row) ==
    row < e.m /\ exp < e.nExp /\ BytesOk(tier, e, r, (exp * e.m + row) * e.row, e.row)
Row(e, r, exp, row) == Dequant(e.wtype, Bytes(r, (exp * e.m + row) * e.row, e.row))

\* F32 weights of a norm-role entry.
WeightsOk(tier, w, index, k, off, n) ==
    /\ EntryOk(tier, w.entry, index)
    /\ w.entry.bytes.role = "NORM" /\ w.entry.bytes.wtype = 0 /\ w.entry.bytes.k = k
    /\ BytesOk(tier, w.entry.bytes, w.range, off, n)
Weights(w, off, n) == Bytes(w.range, off, n)

EmbeddingOk(tier, embdEntry, w, tok, k) ==
    LET e == w.entry.bytes
    IN  /\ EntryOk(tier, w.entry, embdEntry)
        /\ e.role = "EMBD" /\ e.k = k /\ e.nExp = 1
        /\ RowOk(tier, e, w.range, 0, tok)
Embedding(w, tok) == Row(w.entry.bytes, w.range, 0, tok)

WholeLeafOk(root, shape, index, l, len) ==
    Len(l.bytes) = len /\ B3Verify(root, shape.n, index, Blake3(l.bytes), l.path)

ChunkLeaf(c, total, index) ==
    IF c.total # total \/ c.index # index THEN NoHash
    ELSE B3LeafFromChunk(total, index, c.chunk, c.chunkPath)

LeafChunkOk(root, shape, leaf, c, total, index) ==
    /\ ChunkLeaf(c, total, index) # NoHash
    /\ B3Verify(root, shape.n, leaf, ChunkLeaf(c, total, index), c.path)

LeafChunks(total) == IF total = 0 THEN 1 ELSE B3Chunks(total)

\* The expert ids that close an output leaf of `total` values.
IdsLeaf(ids, total, body) == B3LeafFromChunk(total, body \div B3Chunk, ids.chunk, ids.chunkPath)

-----------------------------------------------------------------------------
(* A point: one output row of one product at one position. *)

BiasOk(tier, e, bias, row) ==
    IF e.bias = None THEN bias = NoPart
    ELSE /\ bias # NoPart
         /\ EntryOk(tier, bias.entry, e.bias)
         /\ bias.entry.bytes.role = "BIAS" /\ bias.entry.bytes.wtype = 0 /\ bias.entry.bytes.k = e.m
         /\ BytesOk(tier, bias.entry.bytes, bias.range, row, 1)
Bias(bias, row) == IF bias = NoPart THEN 0 ELSE Bytes(bias.range, row, 1)[1]

\* What the drawn numbers and the opened entries say a point is about.
PointView(tier, resp, d, p, shape) ==
    LET rank == d.d1 % tier.nProducts
        first == p.entry.bytes
        paired == first.form \in {"GATE", "UP"}
        g == IF first.form = "UP" THEN p.partner.bytes ELSE first
        heads == first.role = "HEADS"
        experts == g.nExp > 1 /\ ~heads
        nUsed == IF experts THEN shape.nUsed ELSE IF heads THEN g.nExp ELSE 1
    IN  [rank |-> rank, first |-> first, paired |-> paired, g |-> g, heads |-> heads,
         gRank |-> IF first.form = "UP" THEN first.partner ELSE rank,
         up |-> IF ~paired THEN NoPart ELSE IF first.form = "GATE" THEN p.partner.bytes ELSE first,
         t |-> PositionOf(resp, first.role = "OUTPUT", d.d0),
         experts |-> experts, nUsed |-> nUsed,
         slot |-> IF nUsed > 1 THEN d.hi % nUsed ELSE 0,
         row |-> d.d2 % OutRows(g),
         layout |-> InputLayout(first.role, p.ubatch, g.wtype)]

RespShapeOk(tier, resp) ==
    /\ 0 < resp.nPrompt /\ resp.nPrompt <= resp.nPos
    /\ 0 < tier.nProducts /\ tier.nProducts <= tier.nEntries

EntriesOk(tier, d, p, shape, ids) ==
    LET rank == d.d1 % tier.nProducts
        first == p.entry.bytes
    IN  /\ EntryOk(tier, p.entry, rank)
        /\ first.role \in {"PRODUCT", "OUTPUT", "HEADS"}
        /\ IF first.form \in {"GATE", "UP"}
           THEN /\ p.partner # NoPart /\ EntryOk(tier, p.partner, first.partner)
                /\ p.partner.bytes.partner = rank
                /\ p.partner.bytes.k = first.k /\ p.partner.bytes.m = first.m
                /\ p.partner.bytes.nExp = first.nExp
           ELSE p.partner = NoPart
        /\ (first.nExp > 1 /\ first.role # "HEADS") = (ids # NoPart)
        /\ ids # NoPart => shape.nUsed > 0
        /\ first.role = "HEADS" => first.nExp >= 2 /\ first.form \notin {"GATE", "UP"}

\* Root of the point's position, from its input leaf.
PointRoot(v, p, shape) == B3Fold(shape.n, LeafX(v.gRank), Blake3(p.x), p.xPath)

\* The position is in the trace, with the batch size its place calls for.
PositionOk(resp, shape, root, t, ubatch, posPath, metaPath) ==
    /\ root # NoHash
    /\ B3Verify(resp.traceRoot, resp.nPos, t, root, posPath)
    /\ ubatch = ExpectedUbatch(t, resp.nPrompt)
    /\ B3Verify(root, shape.n, shape.n - 1, MetaHash(t, ubatch, shape.tok), metaPath)

OutputBody(v) == v.nUsed * OutRows(v.g)
OutputTotal(v) == OutputBody(v) + IF v.experts THEN v.nUsed ELSE 0
OutputPlace(v) == v.slot * OutRows(v.g) + v.row

OutputOk(v, p, shape, root) ==
    LET leaf == B3LeafFromChunk(p.yTotal, p.yIndex, p.yChunk, p.yChunkPath)
    IN  /\ v.experts => OutputBody(v) % B3Chunk = 0
        /\ p.yTotal = OutputTotal(v) /\ p.yIndex = OutputPlace(v) \div B3Chunk
        /\ leaf # NoHash /\ B3Verify(root, shape.n, LeafY(v.gRank), leaf, p.yPath)

IdsOk(v, p, ids) ==
    ids # NoPart =>
        /\ IdsLeaf(ids, OutputTotal(v), OutputBody(v)) = B3LeafFromChunk(p.yTotal, p.yIndex, p.yChunk, p.yChunkPath)
        /\ ids.chunk[v.slot + 1] < v.g.nExp
ExpertOf(v, ids) == IF ids = NoPart THEN v.slot ELSE ids.chunk[v.slot + 1]

\* The recomputed output row.
RowsOk(tier, v, p, exp) ==
    IF v.g.form = "NONE"
    THEN /\ Len(p.rows) = 1 /\ RowOk(tier, v.g, p.rows[1], exp, v.row)
         /\ BiasOk(tier, v.g, p.bias, v.row)
    ELSE /\ Len(p.rows) = 2 /\ p.bias = NoPart
         /\ RowOk(tier, v.g, p.rows[1], exp, v.row)
         /\ IF v.g.form = "SPLIT" THEN RowOk(tier, v.g, p.rows[2], exp, v.row + OutRows(v.g))
            ELSE RowOk(tier, v.up, p.rows[2], exp, v.row)

Recomputed(v, p, exp) ==
    LET x == Decode(SlotRow(p.x, v.slot, v.g.k), v.layout, v.g.k)
        first == Dot(x, Row(v.g, p.rows[1], exp, v.row))
        second == IF v.g.form = "SPLIT" THEN Dot(x, Row(v.g, p.rows[2], exp, v.row + OutRows(v.g)))
                  ELSE Dot(x, Row(v.up, p.rows[2], exp, v.row))
    IN  IF v.g.form = "NONE" THEN (first + Bias(p.bias, v.row)) % P ELSE Glu(v.g.op, first, second)

PointOk(tier, resp, d, p, shape, ids) ==
    LET v == PointView(tier, resp, d, p, shape)
        root == PointRoot(v, p, shape)
    IN  /\ RespShapeOk(tier, resp)
        /\ EntriesOk(tier, d, p, shape, ids)
        /\ OutRows(v.g) > 0
        /\ Len(p.x) = XLen(v.g.k) \/ (v.nUsed > 1 /\ Len(p.x) = v.nUsed * XLen(v.g.k))
        /\ PositionOk(resp, shape, root, v.t, p.ubatch, p.posPath, p.metaPath)
        /\ OutputOk(v, p, shape, root)
        /\ IdsOk(v, p, ids)
        /\ RowsOk(tier, v, p, ExpertOf(v, ids))
        /\ p.yChunk[(OutputPlace(v) % B3Chunk) + 1] = Recomputed(v, p, ExpertOf(v, ids))

\* x is the norm of h from lo on, over len values.
FragmentOk(tier, x, layout, k, h, scale, norm, index, lo, len) ==
    /\ WeightsOk(tier, norm, index, k, lo, len)
    /\ BlocksHold(x, layout, k, lo \div Block,
                  TimesWeights(Slice(RmsScaled(h, scale), lo, len), Weights(norm, lo, len)))

-----------------------------------------------------------------------------
(* The prefix point: the first product's input at a position of the request *)
(* id is the normed embedding of the token the id puts there.               *)

PrefixOk(tier, px, c, resp, d, request, p) ==
    LET t == PrefixPosition(d, px.offset)
        tok == ExpectedToken(px, request, t)
        shape == PosShape(tier, c, tok)
        e == p.entry.bytes
        layout == LayoutFor(p.ubatch, e.wtype)
        block == LinkBlock(d, p.x, layout, e.k)
        \* the whole row in stage 1, the fragment of a drawn block in stage 2
        lo == IF c = NoPart THEN 0 ELSE FragmentStart(block, e.k)
        len == IF c = NoPart THEN e.k ELSE FragmentLen(block, e.k)
    IN  /\ RespShapeOk(tier, resp) /\ Fits(resp.nPrompt, px.offset)
        /\ tok # None
        /\ EntryOk(tier, p.entry, 0) /\ e.role = "PRODUCT" /\ e.nExp = 1
        /\ EntryOk(tier, p.norm.entry, px.norm) /\ p.norm.entry.bytes.nExp = 1
        /\ Len(p.x) = XLen(e.k)
        /\ PositionOk(resp, shape, B3Fold(shape.n, 0, Blake3(p.x), p.xPath), t, p.ubatch, p.posPath, p.metaPath)
        /\ EmbeddingOk(tier, px.embd, p.embd, tok, e.k)
        /\ c # NoPart => block # None
        /\ FragmentOk(tier, p.x, layout, e.k, Embedding(p.embd, tok), px.scale, p.norm, px.norm, lo, len)

-----------------------------------------------------------------------------
(* The link of a point's input: where it was computed from. *)

\* On the fragment of the drawn block.
NormedOk(tier, x, layout, k, h, scale, norm, index, block) ==
    /\ block # None /\ Len(h) = k
    /\ FragmentOk(tier, x, layout, k, h, scale, norm, index, FragmentStart(block, k), FragmentLen(block, k))

\* The residual leaf a normed input comes from.
NormSource(np, c, pl) ==
    IF pl.link = "ATTN_IN" THEN IF pl.layer > 0 THEN ResidLeaf(np, pl.layer - 1, "Out") ELSE None
    ELSE IF pl.link = "FFN_IN" THEN ResidLeaf(np, pl.layer, "Attn")
    ELSE IF c.nLayers > 0 THEN ResidLeaf(np, c.nLayers - 1, "Out") ELSE None

\* Rows of the source of a GLU or direct link; None when the source does not fit.
SourceRows(pl, se) ==
    IF pl.link = "GLU" /\ se.form \in {"GATE", "SPLIT"} THEN OutRows(se)
    ELSE IF pl.link = "DIRECT" /\ se.form = "NONE" /\ se.role = "PRODUCT" THEN se.m
    ELSE IF pl.link = "DIRECT" /\ se.form = "NONE" /\ se.role = "HEADS" THEN se.m * se.nExp
    ELSE None

ExpertGluOk(tier, c, d, p, v, root, shape, exp, link, pl) ==
    LET se == link.src.bytes
        k == v.g.k
        body == c.nUsed * k
        perSlot == k \div B3Chunk
        xs == SlotRow(p.x, v.slot, k)
        at == v.slot * perSlot + LinkBlock(d, xs, v.layout, k) \div (B3Chunk \div Block)
    IN  /\ EntryOk(tier, link.src, pl.src)
        /\ se.form = "GATE" /\ se.nExp = v.g.nExp /\ se.m = k
        /\ perSlot > 0 /\ k % B3Chunk = 0
        /\ IdsLeaf(link.ids, body + c.nUsed, body) # NoHash
        /\ B3Verify(root, shape.n, LeafY(pl.src), IdsLeaf(link.ids, body + c.nUsed, body), link.y.path)
        /\ link.ids.chunk[v.slot + 1] = exp
        /\ Len(p.x) >= (v.slot + 1) * XLen(k) /\ LinkBlock(d, xs, v.layout, k) # None
        /\ LeafChunkOk(root, shape, LeafY(pl.src), link.y, body + c.nUsed, at)
        /\ BlocksHold(xs, v.layout, k, ((at - v.slot * perSlot) * B3Chunk) \div Block, link.y.chunk)

SourceOk(tier, d, p, v, root, shape, link, pl) ==
    LET se == link.src.bytes
        k == v.g.k
        at == LinkBlock(d, p.x, v.layout, k) \div (B3Chunk \div Block)
    IN  /\ EntryOk(tier, link.src, pl.src)
        /\ SourceRows(pl, se) = k /\ (se.nExp = 1 \/ se.role = "HEADS")
        /\ LinkBlock(d, p.x, v.layout, k) # None
        /\ LeafChunkOk(root, shape, LeafY(pl.src), link.y, k, at)
        /\ BlocksHold(p.x, v.layout, k, (at * B3Chunk) \div Block, link.y.chunk)

\* Head h of a per-head product reads its slice of the source's output.
HeadSliceOk(tier, p, v, root, shape, link, pl, xs, block) ==
    LET se == link.src.bytes
        k == v.g.k
        stride == se.m \div v.g.nExp
        start == v.slot * stride
        at == (start + block * Block) \div B3Chunk
        lo == Most({at * B3Chunk, start})
        hi == Least((at + 1) * B3Chunk, start + k)
    IN  /\ EntryOk(tier, link.src, pl.src)
        /\ se.role = "PRODUCT" /\ se.nExp = 1 /\ v.g.nExp >= 2 /\ se.m % v.g.nExp = 0
        /\ k <= stride /\ k % Block = 0 /\ stride % Block = 0
        /\ Len(p.x) >= (v.slot + 1) * XLen(k) /\ block # None
        /\ LeafChunkOk(root, shape, LeafY(pl.src), link.y, se.m, at)
        /\ BlocksHold(xs, v.layout, k, (lo - start) \div Block, Slice(link.y.chunk, lo - at * B3Chunk, hi - lo))

ChainPointOk(tier, c, resp, d, p, tok, link, ids) ==
    LET shape == PosShape(tier, c, tok)
        v == PointView(tier, resp, d, p, shape)
        root == PointRoot(v, p, shape)
        pl == v.g.chain
        exp == ExpertOf(v, ids)
        xs == SlotRow(p.x, v.slot, v.g.k)
        source == NormSource(tier.nProducts, c, pl)
    IN  /\ PointOk(tier, resp, d, p, shape, ids)
        /\ pl.tag = "product"
        /\ pl.link # "HEAD" => pl.layer < c.nLayers
        /\ CASE link.tag = "None" ->
                    pl.link = "NONE" /\ PeakBounded(p.x, v.layout, v.g.k, v.slot)
             [] link.tag = "Token" ->
                    /\ pl.link = "ATTN_IN" /\ pl.layer = 0
                    /\ EmbeddingOk(tier, c.embd, link.embd, tok, v.g.k)
                    /\ NormedOk(tier, p.x, v.layout, v.g.k, Embedding(link.embd, tok), c.scale, link.norm, pl.norm,
                                LinkBlock(d, p.x, v.layout, v.g.k))
             [] link.tag = "Norm" ->
                    /\ pl.link \in {"ATTN_IN", "FFN_IN", "HEAD"} /\ source # None
                    /\ WholeLeafOk(root, shape, source, link.src, v.g.k)
                    /\ RmsInRange(link.src.bytes)
                    /\ NormedOk(tier, xs, v.layout, v.g.k, link.src.bytes, 1, link.norm, pl.norm,
                                LinkBlock(d, xs, v.layout, v.g.k))
             [] link.tag = "Source" /\ pl.link = "GLU" /\ v.g.nExp > 1 ->
                    link.ids # NoPart /\ ExpertGluOk(tier, c, d, p, v, root, shape, exp, link, pl)
             [] link.tag = "Source" /\ pl.link \in {"GLU", "DIRECT"} /\ v.g.nExp = 1 ->
                    link.ids = NoPart /\ SourceOk(tier, d, p, v, root, shape, link, pl)
             [] link.tag = "Source" /\ pl.link = "HEAD_SLICE" /\ v.g.role = "HEADS" ->
                    link.ids = NoPart /\ HeadSliceOk(tier, p, v, root, shape, link, pl, xs, LinkBlock(d, xs, v.layout, v.g.k))
             [] OTHER -> FALSE

-----------------------------------------------------------------------------
(* The residual point: one chunk of a residual is the sum it stands for. *)

\* Mixing weights of the chosen experts.
RouteWeights(scores, ids, scale) ==
    LET sum == Total([s \in DOMAIN ids |-> scores[ids[s] + 1]])
    IN  [s \in DOMAIN ids |-> ((scores[ids[s] + 1] + sum) * scale) % P]

\* Mutant of RouteOk: the ids are ranked among themselves only.
RouteOkUnranked(scores, bias, ids) ==
    LET sel == [i \in DOMAIN scores |-> scores[i] + bias[i]]
    IN  /\ ids # <<>> /\ {ids[s] + 1 : s \in DOMAIN ids} \subseteq DOMAIN scores
        /\ \A s \in DOMAIN ids : s > 1 => sel[ids[s] + 1] <= sel[ids[s - 1] + 1]

\* ids are the best experts by biased score, best first.
RouteOk(scores, bias, ids) ==
    LET sel == [i \in DOMAIN scores |-> scores[i] + bias[i]]
        chosen == {ids[s] + 1 : s \in DOMAIN ids}
    IN  /\ ids # <<>> /\ chosen \subseteq DOMAIN scores
        /\ Cardinality(chosen) = Len(ids)
        /\ \A s \in DOMAIN ids : s > 1 => sel[ids[s] + 1] <= sel[ids[s - 1] + 1]
        /\ \A i \in DOMAIN scores \ chosen, j \in chosen : sel[i] <= sel[j]

\* A residual of a routed layer: the shared expert and the routed ones.
MoeOk(tier, c, shape, root, layer, down, dim, chunk, d, moe, a, dst, src) ==
    LET re == a.routerRow.entry.bytes
        body == c.nUsed * dim
        ids == Slice(a.ids.chunk, 0, c.nUsed)
        w == RouteWeights(a.scores.bytes, ids, moe.wScale)
        row == d.lo % re.m
        v == ExpectedInput(a.resid.bytes, Weights(a.norm, 0, dim), 1)
        Added(j) == Total([s \in DOMAIN ids |-> w[s] * a.slots[s].chunk[j]])
    IN  /\ c.nUsed > 0 /\ Len(a.slots) = c.nUsed
        /\ EntryOk(tier, a.routerRow.entry, moe.router) /\ re.role = "ROUTER" /\ re.wtype = 0 /\ re.k = dim
        /\ WholeLeafOk(root, shape, RouterLeaf(tier.nProducts, c.nLayers, layer), a.scores, re.m)
        /\ WeightsOk(tier, a.bias, moe.bias, re.m, 0, re.m)
        /\ dim % B3Chunk = 0
        /\ IdsLeaf(a.ids, body + c.nUsed, body) # NoHash
        /\ B3Verify(root, shape.n, LeafY(moe.down), IdsLeaf(a.ids, body + c.nUsed, body), a.slots[1].path)
        /\ RouteOk(a.scores.bytes, Weights(a.bias, 0, re.m), ids)
        /\ WholeLeafOk(root, shape, ResidLeaf(tier.nProducts, layer, "Attn"), a.resid, dim)
        /\ WeightsOk(tier, a.norm, moe.norm, dim, 0, dim)
        /\ BytesOk(tier, re, a.routerRow.range, row * dim, dim)
        /\ a.scores.bytes[row + 1] = Dot(v, Bytes(a.routerRow.range, row * dim, dim))
        /\ \A s \in DOMAIN ids :
              LeafChunkOk(root, shape, LeafY(moe.down), a.slots[s], body + c.nUsed, (s - 1) * (dim \div B3Chunk) + chunk)
        /\ LeafChunkOk(root, shape, LeafY(down), a.shexp, dim, chunk)
        /\ \A j \in DOMAIN dst : dst[j] = (a.shexp.chunk[j] + src[j] + Added(j)) % P

ResidView(tier, c, resp, d, p) ==
    LET site == ResidSite(d.d1, 2 * c.nLayers)
        layer == site \div 2
        kind == ResidKind(site)
        ll == p.layer.bytes.chain
        shape == PosShape(tier, c, p.tok)
        dim == p.product.bytes.m
        chunk == d.d2 % LeafChunks(dim)
    IN  [layer |-> layer, kind |-> kind, ll |-> ll, shape |-> shape, dim |-> dim, chunk |-> chunk,
         t |-> ResidPosition(c, resp, layer, d.d0),
         rank |-> IF kind = "Attn" THEN ll.proj ELSE ll.down,
         post |-> IF kind = "Attn" THEN ll.postAttn ELSE ll.postFfn,
         root |-> B3Fold(shape.n, ResidLeaf(tier.nProducts, layer, kind), ChunkLeaf(p.dst, dim, chunk), p.dst.path)]

\* What a routed layer adds to its output residual.
Routed(v) == IF v.kind = "Out" /\ v.post = None THEN v.ll.moe ELSE NoPart

ResidSrcOk(tier, c, v, p) ==
    IF v.kind = "Attn" /\ v.layer = 0
    THEN p.src.tag = "Token" /\ EmbeddingOk(tier, c.embd, p.src, p.tok, v.dim)
    ELSE /\ p.src.tag = "Chunk"
         /\ LeafChunkOk(v.root, v.shape,
                        IF v.kind = "Attn" THEN ResidLeaf(tier.nProducts, v.layer - 1, "Out")
                        ELSE ResidLeaf(tier.nProducts, v.layer, "Attn"),
                        p.src.c, v.dim, v.chunk)
ResidSrc(c, v, p) ==
    IF p.src.tag = "Chunk" THEN p.src.c.chunk
    ELSE [j \in DOMAIN p.dst.chunk |-> (c.scale * Embedding(p.src, p.tok)[v.chunk * B3Chunk + j]) % P]

LayerRole(role, trimmed) == role = "PRODUCT" \/ (trimmed /\ role = "OUTPUT")

\* v: what the draw d points at.
ResidPointOk(tier, c, resp, d, p, v) ==
    LET pe == p.product.bytes
        off == v.chunk * B3Chunk
        dst == p.dst.chunk
        src == ResidSrc(c, v, p)
        n == Len(dst)
        scale == IF v.ll.scale = None \/ v.kind = "Attn" THEN 1 ELSE v.ll.scale
        normed == TimesWeights(Slice(RmsScaled(p.add.y.bytes, 1), off, n), Weights(p.add.norm, off, n))
        Sums(add) == \A j \in 1 .. n : dst[j] = (scale * (add[j] + src[j])) % P
    IN  /\ resp.nPos > 0 /\ c.nLayers > 0
        /\ EntryOk(tier, p.layer, c.layerBase + v.layer)
        /\ p.layer.bytes.role = "LAYER" /\ v.ll.layer = v.layer
        /\ EntryOk(tier, p.product, v.rank)
        /\ LayerRole(pe.role, Trimmed(c, v.layer)) /\ pe.form = "NONE" /\ pe.nExp = 1
        /\ ChunkLeaf(p.dst, v.dim, v.chunk) # NoHash
        /\ PositionOk(resp, v.shape, v.root, v.t, p.ubatch, p.posPath, p.metaPath)
        /\ RmsInRange(dst)
        /\ ResidSrcOk(tier, c, v, p)
        /\ (Routed(v) # NoPart) = (p.add.tag = "Moe")
        /\ CASE p.add.tag = "Moe" ->
                    MoeOk(tier, c, v.shape, v.root, v.layer, v.rank, v.dim, v.chunk, d, Routed(v), p.add, dst, src)
             [] p.add.tag = "Chunk" ->
                    /\ v.post = None
                    /\ LeafChunkOk(v.root, v.shape, LeafY(v.rank), p.add.c, v.dim, v.chunk)
                    /\ Sums(p.add.c.chunk)
             [] p.add.tag = "Normed" ->
                    /\ v.post # None
                    /\ WholeLeafOk(v.root, v.shape, LeafY(v.rank), p.add.y, v.dim)
                    /\ WeightsOk(tier, p.add.norm, v.post, v.dim, off, n)
                    /\ Sums(normed)

\* One row of the product whose output is added, over its committed input.
FeedRowOk(tier, v, e, rank, ubatch, exp, slot, nSlots, row, y, f) ==
    LET layout == InputLayout(e.role, ubatch, e.wtype)
        x == Decode(SlotRow(f.x, slot, e.k), layout, e.k)
    IN  /\ Len(f.x) = XLen(e.k) \/ (nSlots > 1 /\ Len(f.x) = nSlots * XLen(e.k))
        /\ B3Verify(v.root, v.shape.n, LeafX(rank), Blake3(f.x), f.path)
        /\ RowOk(tier, e, f.row, exp, row)
        /\ BiasOk(tier, e, f.bias, row)
        /\ y = (Dot(x, Row(e, f.row, exp, row)) + Bias(f.bias, row)) % P

\* The row the residual piece opens, among the rows of the drawn chunk.
FeedRow(chunk, dim, hi) == chunk * B3Chunk + (hi % Least(B3Chunk, dim - chunk * B3Chunk))

ResidOpeningOk(tier, c, resp, d, o, v) ==
    LET p == o.resid
        lo == v.chunk * B3Chunk
        row == FeedRow(v.chunk, v.dim, d.hi)
        y == IF p.add.tag = "Chunk" THEN p.add.c.chunk[row - lo + 1]
             ELSE IF p.add.tag = "Normed" THEN p.add.y.bytes[row + 1] ELSE p.add.shexp.chunk[row - lo + 1]
        slot == d.top % Most({c.nUsed, 1})
        de == o.expert.entry.bytes
    IN  /\ ResidPointOk(tier, c, resp, d, p, v)
        /\ FeedRowOk(tier, v, p.product.bytes, v.rank, p.ubatch, 0, 0, 1, row, y, o.feed)
        /\ (p.add.tag = "Moe") = (o.expert # NoPart)
        /\ o.expert # NoPart =>
              /\ EntryOk(tier, o.expert.entry, v.ll.moe.down)
              /\ LayerRole(de.role, Trimmed(c, v.layer)) /\ de.form = "NONE" /\ de.nExp >= 2 /\ de.m = v.dim
              /\ FeedRowOk(tier, v, de, v.ll.moe.down, p.ubatch, p.add.ids.chunk[slot + 1], slot, c.nUsed, row,
                           p.add.slots[slot + 1].chunk[row - lo + 1], o.expert)

-----------------------------------------------------------------------------
(* A whole stage-2 opening, and the task of a block, whose tokens are known. *)

\* draws: the draws of the two points, of the prefix point and of the residual.
ChainOpeningOk(tier, c, px, resp, draws, request, o, r) ==
    /\ Len(o.points) = 2 /\ Len(o.links) = 2 /\ Len(o.experts) = 2
    /\ \A i \in 1 .. 2 :
          ChainPointOk(tier, c, resp, draws.points[i], o.points[i], o.links[i].tok, o.links[i].link, o.experts[i])
    /\ o.prefix # NoPart /\ PrefixOk(tier, px, c, resp, draws.prefix, request, o.prefix)
    /\ ResidOpeningOk(tier, c, resp, draws.resid, r, ResidView(tier, c, resp, draws.resid, r.resid))

BlockTaskOk(tier, c, px, root, task, draws, o) ==
    LET resp == [traceRoot |-> root, nPrompt |-> PrefixLen, nPos |-> PrefixLen]
        at0 == [px EXCEPT !.offset = 0]
        v == ResidView(tier, c, resp, draws.resid, o.resid)
    IN  /\ o.prefix # NoPart /\ o.resid # NoPart
        /\ Len(o.points) = 2 /\ Len(o.links) = 2 /\ Len(o.experts) = 2
        /\ \A i \in 1 .. 2 :
              /\ ChainPointOk(tier, c, resp, draws.points[i], o.points[i], o.links[i].tok, o.links[i].link, o.experts[i])
              /\ o.links[i].tok = ExpectedToken(at0, task,
                    PointView(tier, resp, draws.points[i], o.points[i], PosShape(tier, c, o.links[i].tok)).t)
        /\ PrefixOk(tier, at0, c, resp, draws.prefix, task, o.prefix)
        /\ ResidPointOk(tier, c, resp, draws.resid, o.resid, v)
        /\ o.resid.tok = ExpectedToken(at0, task, v.t)
=============================================================================
