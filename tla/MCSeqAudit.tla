----------------------------- MODULE MCSeqAudit -----------------------------
(* Small models: plain grouped-query attention, one with norms, rotary      *)
(* divisors, a window and shared projections, a hybrid whose last layer is  *)
(* gated and trimmed, a latent cache, a per-channel recurrent layer, and    *)
(* one whose heads straddle chunks, which is not supported.                 *)
EXTENDS SeqAudit, MCManifest

SeqLayer(layer, proj, attn, recur) ==
    LET e == LayerEntry(layer, proj, None, None, None, None, NoPart)
    IN  [e EXCEPT !.chain = @ @@ [attn |-> attn, recur |-> recur]]

ChainOf(nLayers, layerBase, trimLast, nAttn, nRecur, seqHeads) ==
    [nLayers |-> nLayers, layerBase |-> layerBase, embd |-> None, scale |-> 1, trimLast |-> trimLast, nUsed |-> 0,
     nAttn |-> nAttn, nRecur |-> nRecur, seqHeads |-> seqHeads]

P1(k, m) == Plain(k, m, [tag |-> "none"])
HeadsOf(k, m, n) == Product(k, m, n, "NONE", None, None, "HEADS", 1, [tag |-> "none"])

\* Links of an attention layer without norms, gate, window or latent cache.
Attn(q, k, v, nHead, nHeadKv, headDim) ==
    [q |-> q, k |-> k, v |-> v, qNorm |-> None, kNorm |-> None, nHead |-> nHead, nHeadKv |-> nHeadKv, headDim |-> headDim,
     ropeKind |-> "NORM", nRot |-> 2, ropeBase |-> 3, kqScale |-> 2, swaWindow |-> 0, ropeFreqs |-> None,
     vNorm |-> FALSE, gated |-> FALSE, slot |-> 0, mlaRank |-> 0, absorb |-> None, out |-> None]

Recur(kind, nV, nK, headDim, q, k, v, beta, decay, gate, convs, dt, interval) ==
    [kind |-> kind, slot |-> 0, nV |-> nV, nK |-> nK, headDim |-> headDim, q |-> q, k |-> k, v |-> v,
     convQ |-> convs[1], convK |-> convs[2], convV |-> convs[3], beta |-> beta, decay |-> decay, dt |-> dt, a |-> dt + 1,
     norm |-> dt + 2, gate |-> gate, interval |-> interval, convLen |-> 2]

GroupedModel == Manifest(<<P1(4, 8), P1(4, 4), P1(4, 4), P1(8, 4),
    SeqLayer(0, 3, Attn(0, 1, 2, 4, 2, 2), NoPart)>>, 4, ChainOf(1, 4, FALSE, 1, 0, 2))

WindowModel == Manifest(<<P1(4, 8), P1(4, 4), P1(8, 4), Norm(4), Norm(4), Norm(2),
    SeqLayer(0, 2, [Attn(0, 1, 1, 2, 1, 4) EXCEPT !.qNorm = 3, !.kNorm = 4, !.ropeFreqs = 5, !.ropeKind = "NEOX",
                                                  !.nRot = 4, !.vNorm = TRUE, !.swaWindow = 5], NoPart)>>,
    3, ChainOf(1, 6, FALSE, 1, 0, 1))

HybridModel == Manifest(<<P1(4, 8), P1(4, 2), P1(4, 2), P1(4, 4), P1(4, 4), P1(4, 8), P1(4, 2), P1(4, 2), P1(4, 4),
    Norm(16), Norm(2), Norm(2), Norm(2),
    SeqLayer(0, 4, NoPart, Recur("GDA", 2, 1, 2, 0, 0, 0, 1, 2, 3, <<9, 9, 9>>, 10, 2)),
    SeqLayer(1, 8, [Attn(5, 6, 7, 2, 1, 2) EXCEPT !.gated = TRUE], NoPart)>>,
    9, ChainOf(2, 13, TRUE, 1, 1, 2))

LatentModel == Manifest(<<P1(4, 6), P1(4, 4), HeadsOf(1, 2, 2), HeadsOf(2, 2, 2), P1(4, 4), Norm(2),
    SeqLayer(0, 4, [Attn(0, 1, None, 2, 1, 4) EXCEPT !.nRot = 0, !.mlaRank = 2, !.absorb = 2, !.out = 3, !.kNorm = 5],
             NoPart)>>,
    5, ChainOf(1, 6, FALSE, 1, 0, 1))

ChannelModel == Manifest(<<P1(4, 4), P1(4, 4), P1(4, 4), P1(4, 2),
    Product(4, 4, 1, "NONE", None, 7, "PRODUCT", 1, [tag |-> "none"]),
    P1(4, 4), P1(4, 4), Table("BIAS", 4, 1, 0), Norm(8), Norm(8), Norm(8), Norm(4), Norm(2), Norm(2),
    SeqLayer(0, 6, NoPart, Recur("KDA", 2, 2, 2, 0, 1, 2, 3, 4, 5, <<8, 9, 10>>, 11, 2))>>,
    7, ChainOf(1, 14, FALSE, 0, 1, 2))

StraddlingModel == Manifest(<<P1(4, 4), P1(4, 4), P1(4, 4), P1(4, 2), P1(4, 4), P1(4, 4), P1(4, 4),
    Norm(8), Norm(8), Norm(8), Norm(4), Norm(2), Norm(4),
    SeqLayer(0, 6, NoPart, Recur("KDA", 1, 1, 4, 0, 1, 2, 3, 4, 5, <<7, 8, 9>>, 10, 2))>>,
    7, ChainOf(1, 13, FALSE, 0, 1, 1))

Case(m, nPrompt, nPos) == [m |-> m, tier |-> TierCtx(m), nPrompt |-> nPrompt, nPos |-> nPos]

MCCases == {Case(GroupedModel, 3, 5), Case(WindowModel, 6, 7), Case(HybridModel, 3, 4), Case(LatentModel, 3, 5),
            Case(ChannelModel, 4, 5), Case(StraddlingModel, 1, 2)}

-----------------------------------------------------------------------------
(* Deviations: the first or the last value of a row of what is committed    *)
(* for the sequence.                                                        *)

Ends(n) == {1, n}

Deviation(kind, heads, ts, js) == {[kind |-> kind, slot |-> 0, head |-> h, t |-> t, j |-> j] : h \in heads, t \in ts, j \in js}

\* The positions of an attention layer that a draw can reach.
Reached(c, layer) == IF Trimmed(c.m.chain, layer) THEN c.nPrompt - 1 .. c.nPos - 1 ELSE 0 .. c.nPos - 1

AttnDeviations(c, layer) ==
    LET a == LinksOf(c.m, layer).attn
        heads == 0 .. a.nHead - 1
        ts == Reached(c, layer)
    IN  Deviation("key", 0 .. a.nHeadKv - 1, 0 .. c.nPos - 1, Ends(a.headDim))
        \cup Deviation("out", heads, ts, Ends(PartialWidth(a)))
        \cup Deviation("mass", heads, ts, {1})
        \cup UNION {Deviation("block", heads, {t}, 0 .. NLeaves(AttnTree(a, t)) - 1) : t \in ts}
        \cup IF Latent(a) THEN {} ELSE Deviation("value", 0 .. a.nHeadKv - 1, 0 .. c.nPos - 1, Ends(a.headDim))

RecurDeviations(c, layer) ==
    LET r == LinksOf(c.m, layer).recur
        ends == {t \in 0 .. c.nPos - 1 : (t + 1) % r.interval = 0}
    IN  Deviation("record", 0 .. r.nV - 1, 0 .. c.nPos - 1, 1 .. RecordLen(r))
        \cup Deviation("state", 0 .. r.nV - 1, ends, Ends(r.headDim * r.headDim))

MCDeviations(c) ==
    IF ~Supported(c.m) THEN {}
    ELSE UNION {IF LinksOf(c.m, l).attn # NoPart THEN AttnDeviations(c, l)
                ELSE IF LinksOf(c.m, l).recur # NoPart THEN RecurDeviations(c, l) ELSE {} : l \in Layers(c.m)}

-----------------------------------------------------------------------------
(* Draws: all that differ for an honest run; against a deviation, those of  *)
(* its head at its position, or at the last for a row of the cache.         *)

Drawn(kind, d0, d2, d3, hi) == [kind |-> kind, d0 |-> d0, d1 |-> 0, d2 |-> d2, d3 |-> d3, hi |-> hi]

Aimed(c, d, l, dr) ==
    LET a == LinksOf(c.m, l).attn
        qh == IF Latent(a) THEN MlaHead(a, dr) ELSE GqaHeads(a, dr).qh
    IN  IF d.kind = "none" THEN TRUE
        ELSE IF d.kind \in {"key", "value"}
        THEN ResidPosition(c.m.chain, c, l, dr.d0) = c.nPos - 1 /\ (Latent(a) \/ GqaHeads(a, dr).kv = d.head)
        ELSE d.kind \in {"block", "mass", "out"} /\ dr.d3 = 0 /\ qh = d.head /\ ResidPosition(c.m.chain, c, l, dr.d0) = d.t

AttnDraws(c, d, l) ==
    {dr \in {Drawn("attn", d0, d2, d3, 0) : d0 \in 0 .. c.nPos - 1, d2 \in 0 .. LinksOf(c.m, l).attn.nHead - 1, d3 \in {0, 1}} :
        Aimed(c, d, l, dr)}
RecurDraws(c, d, r) ==
    {dr \in {Drawn("recur", d0, d2, d3, hi) :
                d0 \in 0 .. CeilDiv(c.nPos, r.interval) - 1, d2 \in 0 .. r.nV - 1,
                d3 \in 0 .. CeilDiv(r.headDim, RecurRows) - 1, hi \in 0 .. r.interval - 1} :
        d.kind = "none" \/ (d.kind \in {"record", "state"} /\ dr.d2 = d.head /\ dr.d0 = d.t \div r.interval)}

MCDraws(c, d) ==
    UNION {LET ll == LinksOf(c.m, l)
           IN  (IF ll.attn = NoPart THEN {} ELSE AttnDraws(c, d, l))
               \cup IF ll.recur = NoPart THEN {} ELSE RecurDraws(c, d, ll.recur)
           : l \in Layers(c.m)}

MCChildDraws(n) ==
    [uniform : {TRUE}, at : 0 .. n - 1] \cup [uniform : {FALSE}, at : {2}]

-----------------------------------------------------------------------------
Init == \E c \in MCCases : \E d \in {NoDev} \cup MCDeviations(c) : Start(c, d)

Next ==
    \/ Prefill \/ Attend \/ Commit \/ Phase \/ Recurrent
    \/ \E d \in MCDraws(case, dev) : Seed(d)
    \/ verdict = "drawing" /\ \E r \in MCChildDraws(step.n) : DrawChild(r)

Spec == Init /\ [][Next]_vars
=============================================================================
