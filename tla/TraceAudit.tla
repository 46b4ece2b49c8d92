---------------------------- MODULE TraceAudit -----------------------------
(* The audit of one response: a traced run, honest or with one value that   *)
(* is not what the model computes, its commitment, a drawn part, the        *)
(* opening the miner builds from a replay and the verdict.                  *)
(*                                                                          *)
(* The engine that runs the model is external: here it evaluates the        *)
(* manifest's links.  After a deviation it goes on from the deviating       *)
(* value, so every other step of the run is what the model computes.        *)
EXTENDS TraceRecord, TraceVerify, TLC

VARIABLES
    case,       \* what is audited: [engine, order, m, tier, prefix, request, tokens, nPrompt, task]
    dev,        \* the deviating value, or NoDev
    trace,      \* the values of the leaves the run wrote, by <<position, leaf>>
    record,     \* what the miner keeps of the run, its root committed
    draw,       \* what the seed drew
    verdict

vars == <<case, dev, trace, record, draw, verdict>>

NoDev == [t |-> None, leaf |-> None, j |-> None]

Positions(c) == 0 .. Len(c.tokens) - 1

\* A run: the wiring of the model, its tokens and the deviation.
RunOf(c, d) == [m |-> c.engine, c |-> c, dev |-> d, meta |-> NPosLeaves(c.m.nProducts, c.m.chain) - 1]

-----------------------------------------------------------------------------
(* The engine (external). *)

\* The tokens fed: the request's at the prefix positions.
Fed(run) ==
    LET Honest(t) == ExpectedToken(run.c.prefix, run.c.request, t)
        tokens == [i \in DOMAIN run.c.tokens |-> IF Honest(i - 1) = None THEN run.c.tokens[i] ELSE Honest(i - 1)]
    IN  IF run.dev.leaf = run.meta /\ run.dev.j = 2 THEN [tokens EXCEPT ![run.dev.t + 1] = (@ + 1) % EntryAt(run.m, run.m.chain.embd).m]
        ELSE tokens

UbatchOf(run, t) ==
    ExpectedUbatch(t, run.c.nPrompt) + IF run.dev.leaf = run.meta /\ run.dev.j = 1 /\ run.dev.t = t THEN 1 ELSE 0

WeightRow(m, index, exp, row) ==
    LET e == EntryAt(m, index) IN Dequant(e.wtype, Slice(m.weights, e.base * WChunk + (exp * e.m + row) * e.row, e.row))

\* The value with the run's deviation, where it is the deviating one.
Deviate(run, t, leaf, v) ==
    IF run.dev.t = t /\ run.dev.leaf = leaf /\ run.dev.j > 0 THEN [v EXCEPT ![run.dev.j] = (@ + 1) % P] ELSE v

SlotsOf(m, r) ==
    LET e == EntryAt(m, r) IN IF e.role = "HEADS" THEN e.nExp ELSE IF e.nExp > 1 THEN m.chain.nUsed ELSE 1

\* `done` holds the values of the leaves computed so far, by <<position, leaf>>.
ResidAt(run, done, t, layer, kind) == done[<<t, ResidLeaf(run.m.nProducts, layer, kind)>>]

Scores(run, done, t, layer) == done[<<t, RouterLeaf(run.m.nProducts, run.m.chain.nLayers, layer)>>]

NewScores(run, done, t, layer) ==
    LET moe == EntryAt(run.m, run.m.chain.layerBase + layer).chain.moe
        h == ExpectedInput(ResidAt(run, done, t, layer, "Attn"), WeightRow(run.m, moe.norm, 0, 0), 1)
    IN  [e \in 1 .. EntryAt(run.m, moe.router).m |-> Dot(h, WeightRow(run.m, moe.router, 0, e - 1))]

\* The routed experts, best first; the worst ones in a run that misroutes.
Ids(run, done, t, layer) ==
    LET moe == EntryAt(run.m, run.m.chain.layerBase + layer).chain.moe
        s == Scores(run, done, t, layer)
        sel == Eager([e \in DOMAIN s |-> s[e] + WeightRow(run.m, moe.bias, 0, 0)[e]])
        Better(a, b) == sel[a] > sel[b] \/ (sel[a] = sel[b] /\ a < b)
        Rank(e) == Cardinality({a \in DOMAIN s : Better(a, e)}) + 1
        misroutes == run.dev.t = t /\ run.dev.j = 0
    IN  Eager([i \in 1 .. run.m.chain.nUsed |->
                (CHOOSE e \in DOMAIN s : Rank(e) = IF misroutes THEN Len(s) - run.m.chain.nUsed + i ELSE i) - 1])

\* The input of product r: one row, or one row per slot, end to end.
NewX(run, done, t, r) ==
    LET m == run.m
        e == EntryAt(m, r)
        pl == e.chain
        src == done[<<t, LeafY(pl.src)>>]
        past == done[<<0, LeafY(pl.src)>>]
        Normed(h, scale) == ExpectedInput(h, WeightRow(m, pl.norm, 0, 0), scale)
        stride == EntryAt(m, pl.src).m \div e.nExp
    IN  CASE pl.link = "ATTN_IN" /\ pl.layer = 0 -> Normed(WeightRow(m, m.chain.embd, 0, Fed(run)[t + 1]), m.chain.scale)
          [] pl.link = "ATTN_IN" /\ pl.layer > 0 -> Normed(ResidAt(run, done, t, pl.layer - 1, "Out"), 1)
          [] pl.link = "FFN_IN" -> Normed(ResidAt(run, done, t, pl.layer, "Attn"), 1)
          [] pl.link = "HEAD" -> Normed(ResidAt(run, done, t, m.chain.nLayers - 1, "Out"), 1)
          [] pl.link \in {"GLU", "DIRECT"} -> Slice(src, 0, SlotsOf(m, r) * e.k)
          [] pl.link = "HEAD_SLICE" ->
                [i \in 1 .. e.nExp * e.k |-> src[((i - 1) \div e.k) * stride + ((i - 1) % e.k) + 1]]
          \* the output of attention over the positions so far
          [] pl.link = "NONE" -> [i \in 1 .. e.k |-> (src[i] + past[i]) % P]

\* The output leaf of product r: its rows per slot, then the expert ids.
NewY(run, done, t, r) ==
    LET m == run.m
        e == EntryAt(m, r)
        x == done[<<t, LeafX(r)>>]
        experts == e.nExp > 1 /\ e.role # "HEADS"
        ids == IF experts THEN Ids(run, done, t, e.chain.layer) ELSE <<>>
        Out(s, row) ==
            LET xs == Slice(x, IF Len(x) = e.k THEN 0 ELSE (s - 1) * e.k, e.k)
                exp == IF experts THEN ids[s] ELSE s - 1
                first == Dot(xs, WeightRow(m, r, exp, row))
            IN  CASE e.form = "NONE" -> (first + IF e.bias = None THEN 0 ELSE WeightRow(m, e.bias, 0, 0)[row + 1]) % P
                  [] e.form = "SPLIT" -> Glu(e.op, first, Dot(xs, WeightRow(m, r, exp, row + OutRows(e))))
                  [] e.form = "GATE" -> Glu(e.op, first, Dot(xs, WeightRow(m, e.partner, exp, row)))
    IN  [i \in 1 .. SlotsOf(m, r) * OutRows(e) |-> Out((i - 1) \div OutRows(e) + 1, (i - 1) % OutRows(e))] \o ids

NewResid(run, done, t, layer, kind) ==
    LET m == run.m
        ll == EntryAt(m, m.chain.layerBase + layer).chain
        src == IF kind = "Out" THEN ResidAt(run, done, t, layer, "Attn")
               ELSE IF layer > 0 THEN ResidAt(run, done, t, layer - 1, "Out")
               ELSE Eager([i \in 1 .. EntryAt(m, m.chain.embd).k |->
                        (m.chain.scale * WeightRow(m, m.chain.embd, 0, Fed(run)[t + 1])[i]) % P])
        y == done[<<t, LeafY(IF kind = "Attn" THEN ll.proj ELSE ll.down)>>]
        post == IF kind = "Attn" THEN ll.postAttn ELSE ll.postFfn
        add == IF post = None THEN y ELSE ExpectedInput(y, WeightRow(m, post, 0, 0), 1)
        ids == Ids(run, done, t, layer)
        w == RouteWeights(Scores(run, done, t, layer), ids, ll.moe.wScale)
        down == done[<<t, LeafY(ll.moe.down)>>]
        routed == kind = "Out" /\ post = None /\ ll.moe # NoPart
        scale == IF kind = "Attn" \/ ll.scale = None THEN 1 ELSE ll.scale
        Experts1(i) == IF ~routed THEN 0 ELSE Total(Eager([s \in DOMAIN ids |-> w[s] * down[(s - 1) * Len(src) + i]]))
    IN  [i \in DOMAIN src |-> (scale * (add[i] + src[i] + Experts1(i))) % P]

\* The leaves the run writes at position t: all but those it never computes.
Written(m, nPrompt, t) ==
    LET np == m.nProducts
        before == t + 1 < nPrompt
        Of(r) == IF EntryAt(m, r).role = "OUTPUT" /\ before THEN {}
                 ELSE IF EntryAt(m, r).form = "UP" THEN {LeafX(r)} ELSE {LeafX(r), LeafY(r)}
        layers == IF m.chain = NoPart THEN {} ELSE {l \in 0 .. m.chain.nLayers - 1 : ~(Trimmed(m.chain, l) /\ before)}
    IN  UNION {Of(r) : r \in 0 .. np - 1}
        \cup {ResidLeaf(np, l, kind) : l \in layers, kind \in {"Attn", "Out"}}
        \cup {RouterLeaf(np, m.chain.nLayers, l) : l \in
                {l \in layers : m.chain.nUsed > 0 /\ EntryAt(m, m.chain.layerBase + l).chain.moe # NoPart}}

NewLeaf(run, done, t, leaf) ==
    LET np == run.m.nProducts
        layer == (leaf - 2 * np) \div 2
    IN  Eager(IF leaf < 2 * np
              THEN IF leaf % 2 = 0 THEN NewX(run, done, t, leaf \div 2) ELSE NewY(run, done, t, leaf \div 2)
              ELSE IF layer < run.m.chain.nLayers
              THEN NewResid(run, done, t, layer, IF leaf % 2 = 0 THEN "Attn" ELSE "Out")
              ELSE NewScores(run, done, t, leaf - 2 * np - 2 * run.m.chain.nLayers))

\* The values of a whole run, leaf after leaf in the order of the model.
RECURSIVE Computed(_, _, _)
Computed(run, todo, done) ==
    LET t == Head(todo)[1]
        leaf == Head(todo)[2]
        v == IF leaf \in Written(run.m, run.c.nPrompt, t)
             THEN Deviate(run, t, leaf, NewLeaf(run, done, t, leaf)) ELSE <<>>
    IN  IF todo = <<>> THEN done
        ELSE IF v = <<>> THEN Computed(run, Tail(todo), done)
        ELSE Computed(run, Tail(todo), (<<t, leaf>> :> v) @@ done)

RunValues(c, d) ==
    LET n == Len(c.order)
    IN  Computed(RunOf(c, d),
                 Eager([i \in 1 .. Len(c.tokens) * n |-> <<(i - 1) \div n, c.order[((i - 1) % n) + 1]>>]), <<>>)

\* The bytes of a leaf: inputs are quantised.
LeafContent(run, values, t, leaf) ==
    LET e == EntryAt(run.m, leaf \div 2)
        v == values[<<t, leaf>>]
        layout == InputLayout(e.role, UbatchOf(run, t), e.wtype)
    IN  IF leaf < 2 * run.m.nProducts /\ leaf % 2 = 0
        THEN Eager([i \in 1 .. (Len(v) \div e.k) * XLen(e.k) |->
                      Quantize(Slice(v, ((i - 1) \div XLen(e.k)) * e.k, e.k), layout)[((i - 1) % XLen(e.k)) + 1]])
        ELSE v

-----------------------------------------------------------------------------
(* The audit. *)

\* The record the miner keeps: hashes of the leaves, those not written missing.
RecordOf(c, d, values) ==
    NewRecord(c.m, c.nPrompt, [i \in DOMAIN c.tokens |-> UbatchOf(RunOf(c, d), i - 1)], Fed(RunOf(c, d)),
              [i \in DOMAIN c.tokens |->
                 [l \in 1 .. NPosLeaves(c.m.nProducts, c.m.chain) |->
                    IF l - 1 \in Written(c.m, c.nPrompt, i - 1) THEN Blake3(LeafContent(RunOf(c, d), values, i - 1, l - 1)) ELSE NoHash]])

\* The leaves a draw needs of a replay.
CapturesOf(c, rec, d) ==
    LET p == DrawPoint(c.m, rec.nPrompt, rec.nPos, d)
    IN  PointCaptures(c.m, p)
        \cup {<<PrefixPosition(d, c.prefix.offset), 0>>}
        \cup IF c.m.chain = NoPart THEN {} ELSE ResidCaptures(c.m, DrawResid(c.m, rec, d))

\* The links of stage 2 for a point at p; its expert ids.
LinkedAs(c, rec, d, tok, p, point, caps) == [tok |-> tok, link |-> BuildLink(c.m, rec, p, point, d, tok, caps)]

IdsAt(p, caps) == IF p.experts THEN ExpertIds(caps[<<p.t, LeafY(p.gRank)>>], p.nUsed) ELSE NoPart

Twice(x) == <<x, x>>

\* Both points, the prefix and the residual of one opening use the numbers drawn.
OpeningWith(c, rec, d, tokens, p, point, r, caps) ==
    LET stage2 == c.m.chain # NoPart
    IN  [points |-> Twice(point), prefix |-> BuildPrefix(c.m, rec, c.prefix, c.request, d, caps),
         links |-> IF stage2 THEN Twice(LinkedAs(c, rec, d, tokens[p.t + 1], p, point, caps)) ELSE <<>>,
         experts |-> IF stage2 THEN Twice(IdsAt(p, caps)) ELSE <<>>,
         resid |-> IF stage2 /\ c.task THEN r.resid ELSE NoPart, piece |-> IF stage2 THEN r ELSE NoPart]

Opening(c, rec, d, tokens, p, caps) ==
    OpeningWith(c, rec, d, tokens, p, BuildPoint(c.m, rec, p, caps[<<p.t, LeafX(p.gRank)>>], caps[<<p.t, LeafY(p.gRank)>>]),
                BuildResid(c.m, rec, tokens, DrawResid(c.m, rec, d), d, caps), caps)

Accepts(c, tier, rec, d, o) ==
    LET all == [points |-> <<d, d>>, prefix |-> d, resid |-> d]
        resp == ResponseCtx(rec)
    IN  IF c.m.chain = NoPart
        THEN /\ \A i \in 1 .. 2 : PointOk(tier, resp, d, o.points[i], PosShape(tier, NoPart, None), NoPart)
             /\ PrefixOk(tier, c.prefix, NoPart, resp, d, c.request, o.prefix)
        ELSE IF c.task THEN BlockTaskOk(tier, c.m.chain, c.prefix, rec.traceRoot, c.request, all, o)
        ELSE ChainOpeningOk(tier, c.m.chain, c.prefix, resp, all, c.request, o, o.piece)

\* A case about to run, with a deviation or none.
Start(c, d) ==
    /\ case = c
    /\ dev = d
    /\ trace = NoPart
    /\ record = NoPart
    /\ draw = NoPart
    /\ verdict = "none"

\* The engine runs, with the trace.
Run ==
    /\ trace = NoPart
    /\ trace' = RunValues(case, dev)
    /\ UNCHANGED <<case, dev, record, draw, verdict>>

\* The record of the run is kept and its root committed.
Commit ==
    /\ trace # NoPart /\ record = NoPart
    /\ record' = RecordOf(case, dev, trace)
    /\ UNCHANGED <<case, dev, trace, draw, verdict>>

\* The seed of the response is known; it draws d.
Seed(d) ==
    /\ record # NoPart /\ draw = NoPart
    /\ draw' = d
    /\ UNCHANGED <<case, dev, trace, record, verdict>>

\* What a replay captures.
Captured == [w \in CapturesOf(case, record, draw) |-> LeafContent(RunOf(case, dev), trace, w[1], w[2])]

Verdict(caps, o) ==
    IF ~CapturesMatch(record, caps) \/ o.points[1] = NoPart THEN "unbuilt"
    ELSE IF Accepts(case, case.tier, record, draw, o) THEN "accepted" ELSE "rejected"

\* The miner replays, checks its captures against the record, opens, and the
\* opening is verified.
Open ==
    /\ draw # NoPart /\ verdict = "none"
    /\ LET caps == Captured
       IN  verdict' = Verdict(caps, Opening(case, record, draw, Fed(RunOf(case, dev)),
                                            DrawPoint(case.m, record.nPrompt, record.nPos, draw), caps))
    /\ UNCHANGED <<case, dev, trace, record, draw>>

-----------------------------------------------------------------------------
\* Whatever the seed draws of an honest run, of any stage and with any wiring of
\* the manifest, the captures the miner asks for are enough to build the opening
\* and the verifier accepts it.
HonestOpeningIsAccepted == dev = NoDev => verdict \in {"none", "accepted"}

\* A run with one value that the model does not compute, continued from there
\* without a further deviation, is rejected by every draw that lands on it.
DeviationIsCaught == dev # NoDev => verdict \in {"none", "rejected"}
=============================================================================
