---------------------------- MODULE MCTraceAudit ----------------------------
(* Three small models: a dense one of two layers with every kind of product *)
(* and link, audited in both stages and as the task of a block, and one     *)
(* with heads and routed experts whose last layer is trimmed.               *)
EXTENDS TraceAudit, MCManifest

\* The same model before the chain leaves: its entries carry no links.
StageOne(m) ==
    Indexed([m EXCEPT !.chain = NoPart,
                      !.entries = Eager([i \in DOMAIN m.entries |-> [m.entries[i] EXCEPT !.chain = [tag |-> "none"]]])])

Dense == Manifest(<<
    Product(4, 4, 1, "NONE", None, 17, "PRODUCT", 2, Link(0, "ATTN_IN", 11, None)),
    Plain(4, 4, Link(0, "NONE", None, 0)),
    Product(4, 2, 1, "GATE", 3, None, "PRODUCT", 1, Link(0, "FFN_IN", 12, None)),
    Product(4, 2, 1, "UP", 2, None, "PRODUCT", 2, Link(0, "FFN_IN", 12, None)),
    Plain(2, 4, Link(0, "GLU", None, 2)),
    Plain(4, 4, Link(1, "ATTN_IN", 13, None)),
    Plain(4, 4, Link(1, "DIRECT", None, 5)),
    Product(4, 4, 1, "SPLIT", None, None, "PRODUCT", 2, Link(1, "FFN_IN", 14, None)),
    Plain(2, 4, Link(1, "GLU", None, 7)),
    Product(4, 4, 1, "NONE", None, None, "OUTPUT", 1, Link(1, "HEAD", 15, None)),
    Table("EMBD", 4, 4, 1),
    Norm(4), Norm(4), Norm(4), Norm(4), Norm(4), Norm(4),
    Table("BIAS", 4, 1, 0),
    LayerEntry(0, 1, 4, None, None, 2, NoPart), LayerEntry(1, 6, 8, 16, None, None, NoPart)>>,
    10, [nLayers |-> 2, layerBase |-> 18, embd |-> 10, scale |-> 2, trimLast |-> FALSE, nUsed |-> 0])

Routed4(k, m, form, partner, link) ==
    Product(k, m, 4, form, partner, None, "OUTPUT", 1, link)

\* One layer, trimmed: its products after attention are kept at the output positions only.
Experts == Manifest(<<
    Plain(4, 4, Link(0, "ATTN_IN", 10, None)),
    Product(2, 2, 2, "NONE", None, None, "HEADS", 1, Link(0, "HEAD_SLICE", None, 0)),
    Product(4, 4, 1, "NONE", None, None, "OUTPUT", 1, Link(0, "DIRECT", None, 1)),
    Routed4(4, 2, "GATE", 4, Link(0, "FFN_IN", 11, None)),
    Routed4(4, 2, "UP", 3, Link(0, "FFN_IN", 11, None)),
    Routed4(2, 4, "NONE", None, Link(0, "GLU", None, 3)),
    Product(4, 4, 1, "SPLIT", None, None, "OUTPUT", 1, Link(0, "FFN_IN", 11, None)),
    Product(2, 4, 1, "NONE", None, None, "OUTPUT", 1, Link(0, "GLU", None, 6)),
    Product(4, 4, 1, "NONE", None, None, "OUTPUT", 1, Link(0, "HEAD", 12, None)),
    Table("EMBD", 4, 4, 1),
    Norm(4), Norm(4), Norm(4),
    Table("ROUTER", 4, 4, 0), Norm(4),
    LayerEntry(0, 2, 7, None, None, None,
        [down |-> 5, router |-> 13, bias |-> 14, wScale |-> 3, norm |-> 11, gate |-> 3])>>,
    9, [nLayers |-> 1, layerBase |-> 15, embd |-> 9, scale |-> 1, trimLast |-> TRUE, nUsed |-> 2])

\* The order in which the leaves of a position are computed.
DenseOrder == <<0, 1, 2, 3, 20, 4, 6, 5, 8, 9, 21, 10, 11, 12, 13, 22, 14, 15, 16, 17, 23, 18, 19>>
ExpertsOrder == <<0, 1, 2, 3, 4, 5, 18, 20, 6, 8, 7, 10, 11, 12, 13, 14, 15, 19, 16, 17>>

MCPrefix(m, norm, offset) ==
    [table |-> <<2, 0, 3, 1>>, offset |-> offset, embd |-> m.chain.embd, norm |-> norm, scale |-> m.chain.scale]

Case(engine, order, m, norm, offset, tokens, nPrompt, task) ==
    [engine |-> engine, order |-> order, m |-> m, tier |-> TierCtx(m), prefix |-> MCPrefix(engine, norm, offset), request |-> <<3, 1>>,
     tokens |-> tokens, nPrompt |-> nPrompt, task |-> task]

MCCases ==
    {Case(Dense, DenseOrder, Dense, 11, 1, <<0, 1, 2, 3>>, 3, FALSE),
     Case(Dense, DenseOrder, StageOne(Dense), 11, 0, <<0, 0, 1>>, 2, FALSE),
     Case(Dense, DenseOrder, Dense, 11, 0, <<0, 0>>, 2, TRUE),
     Case(Experts, ExpertsOrder, Experts, 10, 1, <<3, 1, 2, 1>>, 3, FALSE)}

-----------------------------------------------------------------------------
(* Deviations: the first or the last value of any leaf whose making is       *)
(* audited, any value of those of the residual stream's norms.              *)

Ends(n) == {1, n}

Meta(c) == NPosLeaves(c.m.nProducts, c.m.chain) - 1

PointsAt(c, t, leaf) ==
    LET r == leaf \div 2
        e == EntryAt(c.m, r)
        slots == SlotsOf(c.engine, r)
        oneRow == EntryAt(c.engine, r).chain.link \in {"ATTN_IN", "FFN_IN", "HEAD", "NONE"}
    IN  IF leaf < 2 * c.m.nProducts /\ leaf % 2 = 0
        \* the input of a paired product is opened at its gate, attention's output by other points
        THEN IF e.form = "UP" \/ EntryAt(c.engine, r).chain.link = "NONE" \/ c.m.chain = NoPart THEN {}
             ELSE Ends(e.k * (IF oneRow THEN 1 ELSE slots))
        ELSE IF leaf < 2 * c.m.nProducts
        THEN IF e.form = "UP" THEN {} ELSE Ends(slots * OutRows(e))
        ELSE IF leaf < 2 * c.m.nProducts + 2 * c.m.chain.nLayers THEN Ends(4)
        ELSE 0 .. 4

MCDeviations(c) ==
    UNION {{[t |-> t, leaf |-> leaf, j |-> j] : j \in PointsAt(c, t, leaf)} :
              t \in Positions(c), leaf \in UNION {Written(c.m, c.nPrompt, u) : u \in Positions(c)}}

AuditedDeviations(c) ==
    {d \in MCDeviations(c) : d.leaf \in Written(c.m, c.nPrompt, d.t)}
    \cup {[t |-> t, leaf |-> Meta(c), j |-> 1] : t \in Positions(c)}
    \cup {[t |-> t, leaf |-> Meta(c), j |-> 2] : t \in c.prefix.offset .. c.prefix.offset + PrefixLen - 1}

-----------------------------------------------------------------------------
(* Draws: for an honest run, and for a deviation those that land on it.      *)

Rows(c, r) == OutRows(EntryAt(c.m, IF EntryAt(c.m, r).form = "UP" THEN EntryAt(c.m, r).partner ELSE r))
Drawn(d0, d1, d2, hi, lo, top, uniform, link) ==
    [d0 |-> d0, d1 |-> d1, d2 |-> d2, hi |-> hi, lo |-> lo, top |-> top, uniform |-> uniform, link |-> link]

PointDraws(c, r, uniform, links) ==
    {Drawn(d0, r, d2, hi, hi, 0, u, l) :
        d0 \in Positions(c), d2 \in 0 .. Rows(c, r) - 1, hi \in 0 .. SlotsOf(c.engine, r) - 1,
        u \in uniform, l \in links \cap 0 .. NBlocks(EntryAt(c.m, r).k) - 1}

ResidDraws(c, chunks, los) ==
    IF c.m.chain = NoPart THEN {}
    ELSE {Drawn(d0, d1, d2, hi, lo, top, TRUE, 0) :
            d0 \in Positions(c), d1 \in 0 .. c.m.chain.nLayers * (2 * c.m.chain.nLayers + 1) - 1,
            d2 \in chunks, hi \in 0 .. B3Chunk - 1,
            lo \in los \cap 0 .. IF c.m.chain.nUsed > 0 THEN 3 ELSE 0, top \in 0 .. Most({c.m.chain.nUsed, 1}) - 1}

\* Every row, every block and every slot, the pairs in which one is the first
\* or both are the same.
HonestDraws(c) ==
    {dr \in UNION {PointDraws(c, r, {TRUE}, 0 .. 3) \cup PointDraws(c, r, {FALSE}, {1}) : r \in 0 .. c.m.nProducts - 1} :
        0 \in {dr.d2, dr.link} \/ dr.d2 = dr.link}
    \cup {dr \in ResidDraws(c, {0, 1}, 0 .. 3) : 0 \in {dr.lo, dr.top}}

\* Draws of the kind of point that opens the deviating leaf.
Towards(c, d) ==
    LET r == d.leaf \div 2
        np == c.m.nProducts
    IN  CASE d.leaf = Meta(c) -> PointDraws(c, 0, {TRUE}, {0})
          [] d.leaf < 2 * np /\ d.leaf % 2 = 0 -> PointDraws(c, r, {TRUE}, {(d.j - 1) % EntryAt(c.m, r).k})
          [] d.leaf < 2 * np /\ d.leaf % 2 = 1 -> PointDraws(c, r, BOOLEAN, {0})
          [] d.leaf >= 2 * np /\ d.leaf < 2 * np + 2 * c.m.chain.nLayers -> ResidDraws(c, {(d.j - 1) \div B3Chunk}, {0})
          [] OTHER -> ResidDraws(c, {0, 1}, IF d.j > 0 THEN {d.j - 1} ELSE 0 .. 3)

\* Whether the draw opens the deviating value.
Lands(c, d, dr) ==
    LET m == c.m
        np == m.nProducts
        resp == [nPrompt |-> c.nPrompt, nPos |-> Len(c.tokens)]
        p == DrawPoint(m, c.nPrompt, Len(c.tokens), dr)
        r == d.leaf \div 2
        e == EntryAt(m, r)
        site == ResidSite(dr.d1, 2 * m.chain.nLayers)
        layer == site \div 2
        residT == ResidPosition(m.chain, resp, layer, dr.d0)
        oneRow == EntryAt(c.engine, r).chain.link \in {"ATTN_IN", "FFN_IN", "HEAD"}
    IN  CASE d.leaf = Meta(c) /\ d.j = 1 -> p.t = d.t
          [] d.leaf = Meta(c) /\ d.j = 2 -> PrefixPosition(dr, c.prefix.offset) = d.t
          [] d.leaf < 2 * np /\ d.leaf % 2 = 0 -> p.gRank = r /\ p.t = d.t /\ (oneRow \/ p.slot = (d.j - 1) \div e.k)
          [] d.leaf < 2 * np /\ d.leaf % 2 = 1 -> p.gRank = r /\ p.t = d.t /\ p.slot * OutRows(e) + p.row = d.j - 1
          [] d.leaf >= 2 * np /\ d.leaf < 2 * np + 2 * m.chain.nLayers ->
                ResidLeaf(np, layer, ResidKind(site)) = d.leaf /\ residT = d.t
          [] OTHER -> ResidKind(site) = "Out" /\ residT = d.t

MCDraws(c, d) == IF d = NoDev THEN HonestDraws(c) ELSE {dr \in Towards(c, d) : Lands(c, d, dr)}

-----------------------------------------------------------------------------
Init == \E c \in MCCases : \E d \in {NoDev} \cup AuditedDeviations(c) : Start(c, d)

Next == Run \/ Commit \/ (\E d \in MCDraws(case, dev) : Seed(d)) \/ Open

Spec == Init /\ [][Next]_vars
=============================================================================
