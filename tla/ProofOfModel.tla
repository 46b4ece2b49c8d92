---------------------------- MODULE ProofOfModel ----------------------------
(* From a nonce the card found to the block or share that leaves: the walks  *)
(* over the weights in the five eras of the proof of model, the proofs built *)
(* from them, the checks they pass before they leave and the layout they     *)
(* leave in (src/src/pow.rs, pom.rs, pom_v3.rs, pom_v4.rs, pom_v5.rs).       *)
(*                                                                           *)
(* Era "v1" opens some steps of a committed trace, "v2" carries every step,  *)
(* "v3" spot-checks a walk of matrices dumped by the card, "v4" carries the  *)
(* tiles of a walk done again on the host, "v5" mixes tiles of a pad that    *)
(* anyone can recompute into that walk.                                      *)
(*                                                                           *)
(* The matrix a walk computes from a tile is the tuple of what it is made    *)
(* of, so that equal states mean equal walks; mix64 is a small linear map.   *)
(* Whether a state meets the target is a choice made once for a candidate,   *)
(* since the value compared is a function of the state.                      *)
EXTENDS WeightTree

CONSTANTS
    Steps,        \* steps of a walk (256 in the code)
    Openings,     \* opened steps (v1) and spot checks (v3)
    TileDepth,    \* a tile is 2^TileDepth chunks
    ColDepth,     \* a column of a tile is 2^ColDepth chunks
    PadTiles,     \* tiles of the pad
    Space,        \* the range of mix64
    Candidates,   \* what the card may report: era, seed, nonce, hit, lockstep
    Jobs          \* the templates: kind, task, network

VARIABLES
    vram,     \* places whose copy in the memory of the card is damaged
    job,      \* the template being mined
    cand,     \* the last candidate
    block     \* what left for it, None when nothing did

vars == <<treeVars, vram, job, cand, block>>

None == <<>>
Some(x) == <<x>>

Tile == 2 ^ TileDepth
Col == 2 ^ ColDepth
Dim == Tile \div Col

Mix(x) == (31 * x + 17) % Space

\* Mutant: the slice keeps one sibling of the subtree.
SliceTooLong(path, depth) == SubSeq(path, depth, Len(path))

Slice(path, depth) == SubSeq(path, depth + 1, Len(path))

-----------------------------------------------------------------------------
(* v1 and v2: a walk from chunk to chunk. *)

Transition(state, chunk) == Mix(state + 3 * chunk + 1)

Trace(g, seed) ==
    LET n == NChunks(g)
        tr[i \in 0 .. Steps] ==
            IF i = 0 THEN seed ELSE Transition(tr[i - 1], ReadChunk(g, tr[i - 1] % n))
    IN  [i \in 1 .. Steps + 1 |-> tr[i - 1]]

WalkFinal(g, seed) == Trace(g, seed)[Steps + 1]

TraceLeaves(trace) == [i \in DOMAIN trace |-> Leaf(trace[i])]

Challenges(nonce, final) == [j \in 1 .. Openings |-> (nonce + final + 2 * j) % Steps]

BuildV1(g, nonce, seed) ==
    LET trace == Trace(g, seed)
        leaves == TraceLeaves(trace)
        final == trace[Steps + 1]
        open(i) == LET off == trace[i + 1] % NChunks(g)
                   IN  [before |-> trace[i + 1], chunk |-> ReadChunk(g, off), weight |-> Path(off),
                        pathBefore |-> MerkleProof(leaves, i), pathAfter |-> MerkleProof(leaves, i + 1)]
    IN  [root |-> MerkleRoot(leaves), final |-> final,
         first |-> MerkleProof(leaves, 0), last |-> MerkleProof(leaves, Steps),
         openings |-> [j \in 1 .. Openings |-> open(Challenges(nonce, final)[j])]]

VerifyV1(n, rt, nonce, seed, p) ==
    LET ch == Challenges(nonce, p.final)
    IN  /\ Len(p.openings) = Openings
        /\ VerifyMerkle(Leaf(seed), 0, p.first, p.root)
        /\ VerifyMerkle(Leaf(p.final), Steps, p.last, p.root)
        /\ \A j \in 1 .. Openings :
            LET o == p.openings[j]
            IN  /\ VerifyMerkle(Leaf(o.before), ch[j], o.pathBefore, p.root)
                /\ VerifyMerkle(Leaf(o.chunk), o.before % n, o.weight, rt)
                /\ VerifyMerkle(Leaf(Transition(o.before, o.chunk)), ch[j] + 1, o.pathAfter, p.root)

BuildV2(g, seed) ==
    LET trace == Trace(g, seed)
        step(i) == LET off == trace[i] % NChunks(g) IN [chunk |-> ReadChunk(g, off), weight |-> Path(off)]
    IN  [final |-> trace[Steps + 1], steps |-> [i \in 1 .. Steps |-> step(i)]]

VerifyV2(n, rt, seed, p) ==
    LET st[i \in 0 .. Steps] == IF i = 0 THEN seed ELSE Transition(st[i - 1], p.steps[i].chunk)
    IN  /\ Len(p.steps) = Steps
        /\ \A i \in 1 .. Steps : VerifyMerkle(Leaf(p.steps[i].chunk), st[i - 1] % n, p.steps[i].weight, rt)
        /\ st[Steps] = p.final

-----------------------------------------------------------------------------
(* v3: a walk of matrices on the card, spot-checked. *)

Tiles(n) == n \div Tile

ReadTile(g, off) == [c \in 1 .. Tile |-> ReadChunk(g, off * Tile + c - 1)]
ColumnOf(tile, j) == SubSeq(tile, j * Col + 1, (j + 1) * Col)

FirstOffset(seed, n) == Mix(seed) % n
V3NextOffset(seed, step, snippet, n) == Mix(seed + 5 * (step + 1) + snippet) % n

\* The offsets follow from the seed and the snippets alone.
V3Offsets(seed, snippets, n) ==
    [t \in 1 .. Steps |-> IF t = 1 THEN FirstOffset(seed, n) ELSE V3NextOffset(seed, t - 1, snippets[t - 1], n)]

InitialState(seed) == [x \in 1 .. Dim |-> [j \in 1 .. Dim |-> <<seed, x, j>>]]
Rho(row, col, t, x, j) == <<row, col, t, x, j>>

StateLeaves(state) == [x \in 1 .. Dim |-> Leaf(state[x])]
StateRoot(state) == MerkleRoot(StateLeaves(state))

\* What the card dumps: it walks the copy of the weights in its memory.
DumpV3(g, seed) ==
    LET w[t \in 0 .. Steps] ==
            IF t = 0 THEN [states |-> <<InitialState(seed)>>, snippets |-> <<>>, off |-> FirstOffset(seed, Tiles(NChunks(g)))]
            ELSE LET p == w[t - 1]
                     tile == ReadTile(g, p.off)
                 IN  [states |-> Append(p.states, [x \in 1 .. Dim |-> [j \in 1 .. Dim |->
                                    Rho(p.states[t][x], ColumnOf(tile, j - 1), t, x, j)]]),
                      snippets |-> Append(p.snippets, tile[1]),
                      off |-> V3NextOffset(seed, t, tile[1], Tiles(NChunks(g)))]
    IN  w[Steps]

CheckPoints(nonce, snippets) ==
    [i \in 1 .. Openings |->
        [t |-> 1 + ((nonce + snippets[Steps] + i) % Steps), x |-> (nonce + i) % Dim, j |-> (snippets[1] + i) % Dim]]

BuildV3(g, nonce, seed, dump) ==
    LET offs == V3Offsets(seed, dump.snippets, Tiles(NChunks(g)))
        open(pt) ==
            LET off == offs[pt.t] * Tile
            IN  [rowBefore |-> dump.states[pt.t][pt.x + 1],
                 pathBefore |-> MerkleProof(StateLeaves(dump.states[pt.t]), pt.x),
                 rowAfter |-> dump.states[pt.t + 1][pt.x + 1],
                 pathAfter |-> MerkleProof(StateLeaves(dump.states[pt.t + 1]), pt.x),
                 col |-> [c \in 1 .. Col |-> ReadChunk(g, off + pt.j * Col + c - 1)],
                 colPath |-> Slice(Path(off + pt.j * Col), ColDepth),
                 snippetPath |-> Path(off)]
    IN  [roots |-> [t \in 1 .. Steps + 1 |-> StateRoot(dump.states[t])],
         snippets |-> dump.snippets,
         checks |-> [i \in 1 .. Openings |-> open(CheckPoints(nonce, dump.snippets)[i])]]

VerifyV3(n, rt, nonce, seed, p) ==
    LET offs == V3Offsets(seed, p.snippets, Tiles(n))
        pts == CheckPoints(nonce, p.snippets)
    IN  /\ Tiles(n) > 0
        /\ StateRoot(InitialState(seed)) = p.roots[1]
        /\ \A i \in 1 .. Openings :
            LET o == p.checks[i]
                pt == pts[i]
            IN  /\ VerifyMerkle(Leaf(o.rowBefore), pt.x, o.pathBefore, p.roots[pt.t])
                /\ VerifyMerkle(Leaf(o.rowAfter), pt.x, o.pathAfter, p.roots[pt.t + 1])
                /\ VerifyMerkle(MerkleRoot([c \in 1 .. Col |-> Leaf(o.col[c])]),
                                offs[pt.t] * Dim + pt.j, o.colPath, rt)
                /\ VerifyMerkle(Leaf(p.snippets[pt.t]), offs[pt.t] * Tile, o.snippetPath, rt)
                /\ Rho(o.rowBefore, o.col, pt.t, pt.x + 1, pt.j + 1) = o.rowAfter[pt.j + 1]

-----------------------------------------------------------------------------
(* v4 and v5: a walk of tiles, done again by whoever verifies. *)

\* How many of the steps read the pad: its share of the tiles, rounded.
PadSteps(weightTiles, padTiles, k) ==
    LET all == weightTiles + padTiles
        share == (k * padTiles + all \div 2) \div all
    IN  Max({1, Min({share, k - 1})})

IsPadStep(step, padSteps, k) == (step * padSteps) \div k # ((step - 1) * padSteps) \div k

PadTile(i) == [c \in 1 .. Tile |-> 1000 + i * Tile + c]

StateFold(seed, tiles) == seed + MapThenSumSet(LAMBDA s : s * tiles[s][1], DOMAIN tiles)

NextOffset(era, seed, step, snippet, fold, n) ==
    LET raw == Mix(seed + 7 * (step + 1) + snippet + (IF era = "v5" THEN fold ELSE 0))
    IN  IF era = "v5" /\ IsPadStep(step + 1, PadSteps(n, PadTiles, Steps), Steps)
        THEN n + (raw % PadTiles)
        ELSE raw % n

\* One walk; Fetch gives the tile of a step, and whether it may be used.
TileWalk(era, seed, n, Fetch(_, _)) ==
    LET w[s \in 0 .. Steps] ==
            IF s = 0 THEN [off |-> FirstOffset(seed, n), offs |-> <<>>, tiles |-> <<>>, ok |-> TRUE]
            ELSE LET p == w[s - 1]
                     f == Fetch(s, p.off)
                 IN  IF ~p.ok \/ ~f.ok THEN [p EXCEPT !.ok = FALSE]
                     ELSE [off |-> IF s < Steps
                                   THEN NextOffset(era, seed, s, f.tile[1], StateFold(seed, p.tiles), n)
                                   ELSE p.off,
                           offs |-> Append(p.offs, p.off), tiles |-> Append(p.tiles, f.tile), ok |-> TRUE]
    IN  w[Steps]

FinalState(seed, tiles) == <<seed, tiles>>

\* The tiles come from the index; a pad tile is not carried.
BuildV4(era, g, seed) ==
    LET n == Tiles(NChunks(g))
        w == TileWalk(era, seed, n, LAMBDA s, off :
                [tile |-> IF off < n THEN ReadTile(g, off) ELSE PadTile(off - n), ok |-> TRUE])
    IN  [tiles |-> [s \in 1 .. Steps |-> IF w.offs[s] < n THEN w.tiles[s] ELSE <<>>],
         merkle |-> [s \in 1 .. Steps |-> IF w.offs[s] < n THEN Slice(Path(w.offs[s] * Tile), TileDepth) ELSE <<>>],
         final |-> FinalState(seed, w.tiles)]

\* Mutant: the tile is taken for its shape, its range proof is not looked at.
TileHasShape(rt, tile, off, path) == Len(tile) = Tile

TileProved(rt, tile, off, path) ==
    /\ Len(tile) = Tile
    /\ VerifyMerkle(MerkleRoot([c \in 1 .. Tile |-> Leaf(tile[c])]), off, path, rt)

\* The state the proof leads to, None when it does not hold together.
VerifyV4(era, count, rt, seed, p) ==
    LET n == Tiles(count)
        w == TileWalk(era, seed, n, LAMBDA s, off :
                IF off < n THEN [tile |-> p.tiles[s], ok |-> TileProved(rt, p.tiles[s], off, p.merkle[s])]
                ELSE [tile |-> PadTile(off - n), ok |-> p.tiles[s] = <<>> /\ p.merkle[s] = <<>>])
    IN  IF n > 0 /\ w.ok THEN Some(FinalState(seed, w.tiles)) ELSE None

-----------------------------------------------------------------------------
(* The layout on the wire: a proof without the later extensions is encoded   *)
(* as the layout that did not have them.                                     *)

Extensions == <<"steps_v2", "v3", "v4", "task">>

EmptyProof == [legacy |-> None, final |-> None, steps_v2 |-> None, v3 |-> None, v4 |-> None, task |-> None]

ToWireBytes(p) ==
    LET given == {i \in 1 .. 4 : p[Extensions[i]] # None}
        kept == IF given = {} THEN 0 ELSE Max(given)
    IN  <<p.legacy, p.final>> \o [i \in 1 .. kept |-> p[Extensions[i]]]

FromWireBytes(w) ==
    LET ext(i) == IF i + 2 <= Len(w) THEN w[i + 2] ELSE None
    IN  [legacy |-> w[1], final |-> w[2], steps_v2 |-> ext(1), v3 |-> ext(2), v4 |-> ext(3), task |-> ext(4)]

-----------------------------------------------------------------------------
(* generate_block_if_pom. *)

FillPomHeader(c, final) == [nonce |-> c.nonce, final |-> final, root |-> job.task]

\* A block, and a share good enough for the network, open the task of the card.
OpensTask == job.task # None /\ (job.kind = "full" \/ (job.kind = "share" /\ job.network))

OpenBlockTask(header) == Some([of |-> job.task, at |-> header])

Assembled(c, final, proof) ==
    Some([header |-> FillPomHeader(c, final), wire |-> ToWireBytes(proof)])

\* The host walks again; the proof is kept when it verifies to the same state.
V4Kept(g, c, p) ==
    IF Tiles(NChunks(g)) = 0 \/ ~c.hit \/ VerifyV4(c.era, NChunks(g), Rt(g, tree), c.seed, p) # Some(p.final)
    THEN None
    ELSE Assembled(c, p.final,
            [EmptyProof EXCEPT !.final = Some(p.final), !.v4 = Some(p),
                               !.task = IF OpensTask THEN OpenBlockTask(FillPomHeader(c, p.final)) ELSE None])

FromV4(g, c) == V4Kept(g, c, BuildV4(c.era, g, c.seed))

\* The card dumps its walk; the fold it reports must be that of the dump.
V3Kept(g, c, p, final) ==
    IF Tiles(NChunks(g)) = 0 \/ ~c.hit \/ ~c.lockstep \/ ~VerifyV3(NChunks(g), Rt(g, tree), c.nonce, c.seed, p)
    THEN None
    ELSE Assembled(c, final, [EmptyProof EXCEPT !.final = Some(final), !.v3 = Some(p)])

FromV3(g, c) ==
    LET p == BuildV3(g, c.nonce, c.seed, DumpV3([g EXCEPT !.bad = vram], c.seed))
    IN  V3Kept(g, c, p, p.roots[Steps + 1])

\* Proofs of steps are sent as they are built.
V1Sent(c, final, proof) ==
    IF ~c.hit THEN None ELSE Assembled(c, final, [proof EXCEPT !.final = Some(final)])

FromV1(g, c) ==
    V1Sent(c, Leaf(WalkFinal(g, c.seed)),
           IF c.era = "v1" THEN [EmptyProof EXCEPT !.legacy = Some(BuildV1(g, c.nonce, c.seed))]
           ELSE [EmptyProof EXCEPT !.steps_v2 = Some(BuildV2(g, c.seed))])

Generated(g, c) ==
    IF c.era \in {"v4", "v5"} THEN FromV4(g, c) ELSE IF c.era = "v3" THEN FromV3(g, c) ELSE FromV1(g, c)

\* The offsets whose paths a proof asks for.
AskedV3(offs, pts) ==
    UNION {{offs[pts[i].t] * Tile, offs[pts[i].t] * Tile + pts[i].j * Col} : i \in 1 .. Openings}

AskedV4(offs, n) == {offs[s] * Tile : s \in {s \in 1 .. Steps : offs[s] < n}}

Asked(g, c) ==
    LET n == NChunks(g)
    IN  IF c.era \in {"v1", "v2"} THEN {Trace(g, c.seed)[i] % n : i \in 1 .. Steps}
        ELSE IF Tiles(n) = 0 THEN {}
        ELSE IF c.era = "v3"
             THEN LET s == DumpV3([g EXCEPT !.bad = vram], c.seed).snippets
                  IN  AskedV3(V3Offsets(c.seed, s, Tiles(n)), CheckPoints(c.nonce, s))
        ELSE AskedV4(TileWalk(c.era, c.seed, Tiles(n), LAMBDA s, off :
                        [tile |-> IF off < Tiles(n) THEN ReadTile(g, off) ELSE PadTile(off - Tiles(n)), ok |-> TRUE]).offs,
                     Tiles(n))

-----------------------------------------------------------------------------
Init ==
    /\ TreeInit
    /\ vram = {}
    /\ job \in Jobs
    /\ cand = None
    /\ block = None

GenerateBlockIfPom(c) ==
    /\ uses < MaxUses
    /\ uses' = uses + 1
    /\ cand' = Some(c)
    /\ block' = Generated(gguf, c)
    /\ memo' = MemoAfter(Asked(gguf, c))
    /\ asked' = NotAsked
    /\ UNCHANGED <<gguf, tree, dense, vram, job>>

Places == {ReadChunk(Sound(gguf), off) : off \in 0 .. NChunks(gguf) - 1}

\* The file under the mapping changes, or the copy on the card does.
DamageFile ==
    /\ gguf.bad = {} /\ vram = {} /\ uses < MaxUses
    /\ \E p \in Places : gguf' = [gguf EXCEPT !.bad = {p}]
    /\ cand' = None /\ block' = None
    /\ UNCHANGED <<tree, dense, memo, asked, uses, vram, job>>

DamageVram ==
    /\ gguf.bad = {} /\ vram = {} /\ uses < MaxUses
    /\ \E p \in Places : vram' = {p}
    /\ cand' = None /\ block' = None
    /\ UNCHANGED <<treeVars, job>>

Lookup == (\E off \in 0 .. NChunks(gguf) - 1 : MerklePath(off)) /\ cand' = None /\ block' = None /\ UNCHANGED <<vram, job>>
Dense == BuildDense /\ UNCHANGED <<vram, job, cand, block>>

Next ==
    \/ Lookup
    \/ Dense
    \/ \E c \in Candidates : GenerateBlockIfPom(c)
    \/ DamageFile
    \/ DamageVram

Spec == Init /\ [][Next]_vars

-----------------------------------------------------------------------------
(* What the node does with a block: it decodes the proof and verifies it     *)
(* against the root it pins, with the state the header commits to.           *)
NodeAccepts(b, c) ==
    LET p == FromWireBytes(b.wire)
        n == NChunks(gguf)
    IN  /\ p.final = Some(b.header.final)
        /\ CASE c.era = "v1" -> VerifyV1(n, CanonicalRoot, c.nonce, c.seed, p.legacy[1])
             [] c.era = "v2" -> VerifyV2(n, CanonicalRoot, c.seed, p.steps_v2[1])
             [] c.era = "v3" -> /\ VerifyV3(n, CanonicalRoot, c.nonce, c.seed, p.v3[1])
                                /\ p.v3[1].roots[Steps + 1] = b.header.final
             [] OTHER -> VerifyV4(c.era, n, CanonicalRoot, c.seed, p.v4[1]) = Some(b.header.final)

\* While the weights read as they did when they were indexed, a candidate that
\* meets the target always leaves and the node accepts it: whatever the size of
\* the model against its tiles and the width of its tree, with a memo, a dense
\* tree or neither (pow.rs 283-440).
HonestBlockIsAccepted ==
    (cand # None /\ gguf.bad = {} /\ vram = {} /\ cand[1].hit /\ cand[1].lockstep
        /\ (Tiles(NChunks(gguf)) > 0 \/ cand[1].era \in {"v1", "v2"})) =>
    (block # None /\ NodeAccepts(block[1], cand[1]))

\* Whatever has happened to the file or to the memory of the card, what leaves
\* in the last three eras passes the node's verifier, and in the last two it
\* commits to the state of the walk over the weights the root was pinned for;
\* the task it opens is opened at the hash of the very block that leaves
\* (pow.rs 305-375).
OnlyTrueProofsLeave ==
    (block # None /\ cand[1].era \in {"v3", "v4", "v5"}) =>
        /\ NodeAccepts(block[1], cand[1])
        /\ cand[1].era # "v3" => block[1].header.final = BuildV4(cand[1].era, Sound(gguf), cand[1].seed).final
        /\ LET task == FromWireBytes(block[1].wire).task
           IN  task # None => task[1] = [of |-> job.task, at |-> block[1].header]

\* verify_proof and verify_proof_v2 exist to be run on a built proof before it
\* is submitted, so that no block leaves that the node will reject.
EveryProofIsChecked == block # None => NodeAccepts(block[1], cand[1])
=============================================================================
