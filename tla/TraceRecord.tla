---------------------------- MODULE TraceRecord ----------------------------
(* The miner's side of an audited response (src/src/trace.rs): the record   *)
(* of a traced run, what a draw needs of it, and the openings built from    *)
(* the captured leaves.  A part that cannot be built is NoPart, and what    *)
(* needs it is not built either.                                            *)
EXTENDS TraceManifest

ToSet(s) == {s[i] : i \in DOMAIN s}

-----------------------------------------------------------------------------
(* The record.  `leaves` are those the engine wrote, one sequence per       *)
(* position, NoHash where it wrote none; the others are filled in here.     *)

Filled(m, nPrompt, ubatch, tokens, leaves, t) ==
    LET c == m.chain
        np == m.nProducts
        before == t + 1 < nPrompt
        last == c.nLayers - 1
        \* leaves the run never writes: of a paired product, of the output
        \* before the last prompt position, of what the last layer trims
        emptyProducts == UNION {
            LET e == EntryAt(m, r)
            IN  IF e.role = "OUTPUT" /\ before THEN {LeafX(r), LeafY(r)}
                ELSE IF e.form = "UP" THEN {LeafY(r)} ELSE {}
            : r \in 0 .. np - 1}
        emptyResid == IF c # NoPart /\ c.trimLast /\ before
                      THEN {ResidLeaf(np, last, "Attn"), ResidLeaf(np, last, "Out")} ELSE {}
        emptyRouter == IF c = NoPart \/ NRouter(c) = 0 THEN {}
                       ELSE {RouterLeaf(np, c.nLayers, l) : l \in {l \in 0 .. last :
                                \/ EntryAt(m, c.layerBase + l).chain.moe = NoPart
                                \/ Trimmed(c, l) /\ before}}
        meta == MetaHash(t, ubatch[t + 1], IF c = NoPart THEN None ELSE tokens[t + 1])
    IN  Eager([i \in DOMAIN leaves |->
            IF i = Len(leaves) THEN meta
            ELSE IF i - 1 \in emptyProducts \cup emptyResid \cup emptyRouter THEN Empty ELSE leaves[i]])

NewRecord(m, nPrompt, ubatch, tokens, leaves) ==
    LET nPos == Len(ubatch)
        filled == Eager([t \in 1 .. nPos |-> Filled(m, nPrompt, ubatch, tokens, leaves[t], t - 1)])
        roots == Eager([t \in 1 .. nPos |-> B3Root(filled[t])])
    IN  IF \/ nPos = 0 \/ nPrompt = 0 \/ nPrompt > nPos \/ Len(leaves) # nPos
           \/ m.chain # NoPart /\ Len(tokens) # nPos
           \/ \E t \in 1 .. nPos : NoHash \in ToSet(filled[t])
        THEN NoPart
        ELSE [nPrompt |-> nPrompt, nPos |-> nPos, ubatch |-> ubatch, leaves |-> filled,
              roots |-> roots, traceRoot |-> B3Root(roots)]

ResponseCtx(rec) == [traceRoot |-> rec.traceRoot, nPrompt |-> rec.nPrompt, nPos |-> rec.nPos]

LeavesAt(rec, t) == rec.leaves[t + 1]
LeafPath(rec, t, leaf) == B3Path(LeavesAt(rec, t), leaf)
PosPath(rec, t) == B3Path(rec.roots, t)
MetaPath(rec, t) == LeafPath(rec, t, Len(LeavesAt(rec, t)) - 1)

-----------------------------------------------------------------------------
(* Parts of an opening. *)

EntryOpening(m, index) ==
    [index |-> index, bytes |-> EntryAt(m, index), path |-> RtRangeProof(m.entryLeaves, index, 1)]

\* The nodes a verifier lacks, read off the paths of the first and last chunk.
RECURSIVE FromPaths(_, _, _, _, _)
FromPaths(ofFirst, ofLast, lo, hi, n) ==
    IF n = 1 THEN <<>>
    ELSE (IF lo % 2 = 1 THEN <<Head(ofFirst)>> ELSE <<>>)
         \o (IF hi % 2 = 0 /\ hi + 1 < n THEN <<Head(ofLast)>> ELSE <<>>)
         \o FromPaths(Tail(ofFirst), Tail(ofLast), lo \div 2, hi \div 2, CeilDiv(n, 2))

RangeProof(m, first, last) ==
    IF first > last \/ last >= NWeightChunks(m) THEN NoPart
    ELSE [first |-> first, chunks |-> [i \in 1 .. last - first + 1 |-> Chunk(m, first + i - 1)],
          proof |-> FromPaths(MerkleProof(m.weightLeaves, first), MerkleProof(m.weightLeaves, last),
                              first, last, NWeightChunks(m))]

BytesRange(m, index, off, len) ==
    LET e == EntryAt(m, index)
        r == RangeProof(m, e.base + off \div WChunk, e.base + (off + len - 1) \div WChunk)
    IN  IF len = 0 \/ r = NoPart THEN NoPart ELSE [entry |-> EntryOpening(m, index), range |-> r]

RowRange(m, e, exp, row) ==
    LET rc == RowChunks(e, exp, row) IN IF rc = NoPart THEN NoPart ELSE RangeProof(m, rc[1], rc[2])

RowOpening(m, index, row) ==
    LET r == RowRange(m, EntryAt(m, index), 0, row)
    IN  IF r = NoPart THEN NoPart ELSE [entry |-> EntryOpening(m, index), range |-> r]

FragmentOpening(m, index, block) ==
    LET k == EntryAt(m, index).k IN BytesRange(m, index, FragmentStart(block, k), FragmentLen(block, k))

ChunkWithPath(b, i) ==
    LET n == IF b = <<>> THEN 1 ELSE B3Chunks(Len(b))
    IN  IF i >= n THEN NoPart
        ELSE [chunk |-> Slice(b, i * B3Chunk, Least(B3Chunk, Len(b) - i * B3Chunk)),
              chunkPath |-> IF n = 1 THEN <<>> ELSE B3Path(ChunkCvs(b, 0), i)]

LeafBytes(rec, t, leaf, b) == [bytes |-> b, path |-> LeafPath(rec, t, leaf)]

LeafChunk(rec, t, leaf, b, i) ==
    LET w == ChunkWithPath(b, i)
    IN  IF w = NoPart THEN NoPart
        ELSE [total |-> Len(b), index |-> i, chunk |-> w.chunk, chunkPath |-> w.chunkPath,
              path |-> LeafPath(rec, t, leaf)]

ExpertIds(y, nUsed) ==
    LET body == Len(y) - nUsed
    IN  IF body < 0 \/ body % B3Chunk # 0 THEN NoPart ELSE ChunkWithPath(y, body \div B3Chunk)

-----------------------------------------------------------------------------
(* What the draws point at. *)

DrawPoint(m, nPrompt, nPos, d) ==
    LET resp == [nPrompt |-> nPrompt, nPos |-> nPos]
        rank == d.d1 % m.nProducts
        e0 == EntryAt(m, rank)
        gRank == IF e0.form = "UP" THEN e0.partner ELSE rank
        g == EntryAt(m, gRank)
        heads == e0.role = "HEADS"
        experts == g.nExp > 1 /\ ~heads
        nUsed == IF experts THEN m.chain.nUsed ELSE IF heads THEN g.nExp ELSE 1
    IN  IF \/ nPrompt = 0 \/ nPrompt > nPos
           \/ g.nExp # 1 /\ m.chain = NoPart
           \/ OutRows(g) = 0 \/ nUsed = 0
        THEN NoPart
        ELSE [rank |-> rank, gRank |-> gRank, t |-> PositionOf(resp, e0.role = "OUTPUT", d.d0),
              row |-> d.d2 % OutRows(g), nUsed |-> nUsed, experts |-> experts,
              slot |-> IF nUsed > 1 THEN d.hi % nUsed ELSE 0]

\* Mutant of LinkLeaf: the residual of the layer's own output.
LinkLeafSameLayer(m, gRank) ==
    LET pl == EntryAt(m, gRank).chain
        np == m.nProducts
    IN  CASE pl.link = "NONE" \/ (pl.link = "ATTN_IN" /\ pl.layer = 0) -> None
          [] pl.link = "ATTN_IN" /\ pl.layer > 0 -> ResidLeaf(np, pl.layer, "Out")
          [] pl.link = "FFN_IN" -> ResidLeaf(np, pl.layer, "Attn")
          [] pl.link = "HEAD" -> ResidLeaf(np, m.chain.nLayers - 1, "Out")
          [] pl.link \in {"GLU", "DIRECT", "HEAD_SLICE"} -> LeafY(pl.src)

\* The leaf a point's input was computed from; None when it is no leaf.
LinkLeaf(m, gRank) ==
    LET pl == EntryAt(m, gRank).chain
        np == m.nProducts
    IN  CASE pl.link = "NONE" -> None
          [] pl.link = "ATTN_IN" /\ pl.layer = 0 -> None
          [] pl.link = "ATTN_IN" /\ pl.layer > 0 -> ResidLeaf(np, pl.layer - 1, "Out")
          [] pl.link = "FFN_IN" -> ResidLeaf(np, pl.layer, "Attn")
          [] pl.link = "HEAD" -> ResidLeaf(np, m.chain.nLayers - 1, "Out")
          [] pl.link \in {"GLU", "DIRECT", "HEAD_SLICE"} -> LeafY(pl.src)

DrawResid(m, rec, d) ==
    LET c == m.chain
        site == ResidSite(d.d1, 2 * c.nLayers)
        layer == site \div 2
        kind == ResidKind(site)
        ll == EntryAt(m, c.layerBase + layer).chain
        rank == IF kind = "Attn" THEN ll.proj ELSE ll.down
        dim == EntryAt(m, rank).m
    IN  [t |-> ResidPosition(c, ResponseCtx(rec), layer, d.d0), layer |-> layer, kind |-> kind, ll |-> ll,
         rank |-> rank, dim |-> dim, c |-> d.d2 % (IF dim = 0 THEN 1 ELSE B3Chunks(dim)),
         moe |-> IF kind = "Out" /\ ll.postFfn = None THEN ll.moe ELSE NoPart,
         dst |-> ResidLeaf(m.nProducts, layer, kind),
         src |-> IF kind = "Out" THEN ResidLeaf(m.nProducts, layer, "Attn")
                 ELSE IF layer = 0 THEN None ELSE ResidLeaf(m.nProducts, layer - 1, "Out")]

\* The (position, leaf) pairs whose bytes a replay must capture.
PointCaptures(m, p) ==
    {<<p.t, leaf>> : leaf \in {LeafX(p.gRank), LeafY(p.gRank)} \cup
        IF m.chain = NoPart THEN {} ELSE {LinkLeaf(m, p.gRank)} \ {None}}

ResidCaptures(m, r) ==
    {<<r.t, leaf>> : leaf \in
        {r.dst, LeafX(r.rank), LeafY(r.rank)} \cup ({r.src} \ {None}) \cup
        IF r.moe = NoPart THEN {}
        ELSE {LeafX(r.moe.down), LeafY(r.moe.down), RouterLeaf(m.nProducts, m.chain.nLayers, r.layer)}}

\* caps: bytes by (position, leaf); each must hash to its committed leaf.
CapturesMatch(rec, caps) ==
    \A p \in DOMAIN caps : p[1] < rec.nPos /\ Blake3(caps[p]) = LeavesAt(rec, p[1])[p[2] + 1]

-----------------------------------------------------------------------------
(* The openings. *)

BuildPoint(m, rec, p, x, y) ==
    LET g == EntryAt(m, p.gRank)
        rows == OutRows(g)
        body == p.nUsed * rows
        exp == IF p.experts THEN y[body + p.slot + 1] ELSE IF p.nUsed > 1 THEN p.slot ELSE 0
        place == p.slot * rows + p.row
        w == ChunkWithPath(y, place \div B3Chunk)
        second == CASE g.form = "NONE" -> <<>>
                    [] g.form = "SPLIT" -> <<RowRange(m, g, exp, p.row + rows)>>
                    [] g.form = "GATE" -> <<RowRange(m, EntryAt(m, g.partner), exp, p.row)>>
        all == <<RowRange(m, g, exp, p.row)>> \o second
        bias == IF g.bias = None THEN NoPart ELSE BytesRange(m, g.bias, p.row, 1)
    IN  IF \/ Len(y) # body + IF p.experts THEN p.nUsed ELSE 0
           \/ p.t >= rec.nPos \/ p.slot >= p.nUsed
           \/ exp >= g.nExp
           \/ NoPart \in ToSet(all) \/ w = NoPart \/ (g.bias # None /\ bias = NoPart)
        THEN NoPart
        ELSE [ubatch |-> rec.ubatch[p.t + 1], posPath |-> PosPath(rec, p.t), metaPath |-> MetaPath(rec, p.t),
              entry |-> EntryOpening(m, p.rank),
              partner |-> IF g.form # "GATE" THEN NoPart
                          ELSE EntryOpening(m, IF p.rank = p.gRank THEN g.partner ELSE p.gRank),
              bias |-> bias, rows |-> all, x |-> x, xPath |-> LeafPath(rec, p.t, LeafX(p.gRank)),
              yTotal |-> Len(y), yIndex |-> place \div B3Chunk, yChunk |-> w.chunk, yChunkPath |-> w.chunkPath,
              yPath |-> LeafPath(rec, p.t, LeafY(p.gRank))]

BuildLink(m, rec, p, point, d, tok, caps) ==
    LET g == EntryAt(m, p.gRank)
        pl == g.chain
        leaf == LinkLeaf(m, p.gRank)
        layout == InputLayout(g.role, point.ubatch, g.wtype)
        block == LinkBlock(d, SlotRow(point.x, p.slot, g.k), layout, g.k)
        b == caps[<<p.t, leaf>>]
        at == IF p.experts /\ pl.link = "GLU" THEN p.slot * (g.k \div B3Chunk) + block \div (B3Chunk \div Block)
              ELSE IF pl.link = "HEAD_SLICE"
              THEN (p.slot * (EntryAt(m, pl.src).m \div g.nExp) + block * Block) \div B3Chunk
              ELSE block \div (B3Chunk \div Block)
    IN  CASE leaf = None /\ pl.link = "NONE" -> [tag |-> "None"]
          [] leaf = None /\ pl.link = "ATTN_IN" ->
                [tag |-> "Token", embd |-> RowOpening(m, m.chain.embd, tok),
                 norm |-> FragmentOpening(m, pl.norm, LinkBlock(d, point.x, layout, g.k))]
          [] leaf # None /\ pl.link \in {"GLU", "DIRECT", "HEAD_SLICE"} ->
                [tag |-> "Source", src |-> EntryOpening(m, pl.src), y |-> LeafChunk(rec, p.t, leaf, b, at),
                 ids |-> IF p.experts /\ pl.link = "GLU" THEN ExpertIds(b, p.nUsed) ELSE NoPart]
          [] OTHER ->
                [tag |-> "Norm", src |-> LeafBytes(rec, p.t, leaf, b), norm |-> FragmentOpening(m, pl.norm, block)]

BuildPrefix(m, rec, px, request, d, caps) ==
    LET t == PrefixPosition(d, px.offset)
        tok == ExpectedToken(px, request, t)
        x == caps[<<t, 0>>]
        e0 == EntryAt(m, 0)
        block == LinkBlock(d, x, InputLayout(e0.role, rec.ubatch[t + 1], e0.wtype), e0.k)
    IN  IF t >= rec.nPos \/ tok = None THEN NoPart
        ELSE [ubatch |-> rec.ubatch[t + 1], posPath |-> PosPath(rec, t), metaPath |-> MetaPath(rec, t),
              entry |-> EntryOpening(m, 0), x |-> x, xPath |-> LeafPath(rec, t, 0),
              embd |-> RowOpening(m, px.embd, tok),
              norm |-> IF m.chain = NoPart THEN BytesRange(m, px.norm, 0, EntryAt(m, px.norm).k)
                       ELSE FragmentOpening(m, px.norm, block)]

BuildMoe(m, rec, r, d, caps) ==
    LET nUsed == m.chain.nUsed
        downY == caps[<<r.t, LeafY(r.moe.down)>>]
        router == RouterLeaf(m.nProducts, m.chain.nLayers, r.layer)
        attn == ResidLeaf(m.nProducts, r.layer, "Attn")
        nExp == EntryAt(m, r.moe.router).m
    IN  [tag |-> "Moe", scores |-> LeafBytes(rec, r.t, router, caps[<<r.t, router>>]),
         bias |-> BytesRange(m, r.moe.bias, 0, nExp), ids |-> ExpertIds(downY, nUsed),
         slots |-> [s \in 1 .. nUsed |->
                      LeafChunk(rec, r.t, LeafY(r.moe.down), downY, (s - 1) * (r.dim \div B3Chunk) + r.c)],
         shexp |-> LeafChunk(rec, r.t, LeafY(r.rank), caps[<<r.t, LeafY(r.rank)>>], r.c),
         routerRow |-> BytesRange(m, r.moe.router, (d.lo % nExp) * r.dim, r.dim),
         resid |-> LeafBytes(rec, r.t, attn, caps[<<r.t, attn>>]),
         norm |-> BytesRange(m, r.moe.norm, 0, r.dim)]

BuildResid(m, rec, tokens, r, d, caps) ==
    LET c == m.chain
        tok == tokens[r.t + 1]
        dst == caps[<<r.t, r.dst>>]
        y == caps[<<r.t, LeafY(r.rank)>>]
        post == IF r.kind = "Attn" THEN r.ll.postAttn ELSE r.ll.postFfn
        off == r.c * B3Chunk
        pe == EntryAt(m, r.rank)
        lo == r.c * B3Chunk
        row == lo + (d.hi % Least(B3Chunk, pe.m - lo))
        slot == d.top % Most({c.nUsed, 1})
        downY == caps[<<r.t, LeafY(r.moe.down)>>]
        id == downY[Len(downY) - c.nUsed + slot + 1]
        embd == RowOpening(m, c.embd, tok)
    IN  [resid |->
           [ubatch |-> rec.ubatch[r.t + 1], tok |-> tok, posPath |-> PosPath(rec, r.t), metaPath |-> MetaPath(rec, r.t),
            layer |-> EntryOpening(m, c.layerBase + r.layer), product |-> EntryOpening(m, r.rank),
            dst |-> LeafChunk(rec, r.t, r.dst, dst, r.c),
            src |-> IF r.src = None THEN [tag |-> "Token", entry |-> embd.entry, range |-> embd.range]
                    ELSE [tag |-> "Chunk", c |-> LeafChunk(rec, r.t, r.src, caps[<<r.t, r.src>>], r.c)],
            add |-> IF r.moe # NoPart THEN BuildMoe(m, rec, r, d, caps)
                    ELSE IF post = None THEN [tag |-> "Chunk", c |-> LeafChunk(rec, r.t, LeafY(r.rank), y, r.c)]
                    ELSE [tag |-> "Normed", y |-> LeafBytes(rec, r.t, LeafY(r.rank), y),
                          norm |-> BytesRange(m, post, off, Least(B3Chunk, Len(dst) - off))]],
         feed |->
           [x |-> caps[<<r.t, LeafX(r.rank)>>], path |-> LeafPath(rec, r.t, LeafX(r.rank)),
            row |-> RowRange(m, pe, 0, row), bias |-> IF pe.bias = None THEN NoPart ELSE BytesRange(m, pe.bias, row, 1)],
         expert |-> IF r.moe = NoPart THEN NoPart
                    ELSE [entry |-> EntryOpening(m, r.moe.down), x |-> caps[<<r.t, LeafX(r.moe.down)>>],
                          path |-> LeafPath(rec, r.t, LeafX(r.moe.down)),
                          row |-> RowRange(m, EntryAt(m, r.moe.down), id, row), bias |-> NoPart]]
=============================================================================
