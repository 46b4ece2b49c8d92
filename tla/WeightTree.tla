----------------------------- MODULE WeightTree -----------------------------
(* The weight index of the proof of model (src/src/pom.rs, WeightIndex): the *)
(* 32-byte chunks of a model in canonical order, a tree file that keeps one  *)
(* level in Interval, and inclusion paths recomputed from both, with a memo  *)
(* for the upper levels or a dense tree in memory.                           *)
(*                                                                           *)
(* A model file is the sequence of its tensors by name, each with the number *)
(* of whole chunks it has and the place of its data in the file (in chunks), *)
(* and the set of places that no longer read as they did; the content of a   *)
(* sound chunk is its place.  The tree file is the sequence of the stored    *)
(* nodes; an offset in it counts nodes, not bytes.                           *)
EXTENDS Merkle, FiniteSetsExt, TLC

CONSTANTS
    Interval,     \* CHECKPOINT_INTERVAL (6 in the code)
    MemoMax,      \* sibling_memo_max_nodes
    Ggufs,        \* the model files looked at
    MaxUses       \* bound: uses of the index in one behaviour

ASSUME IntervalAssumption == Interval \in Nat \ {0}

VARIABLES
    gguf,      \* the model file
    tree,      \* the tree file
    dense,     \* the leaves of the dense tree, <<>> before it is built
    memo,      \* sibling_memo: (level, sibling index) -> node
    asked,     \* the last path asked for, by offset
    uses       \* how often the index was used

treeVars == <<gguf, tree, dense, memo, asked, uses>>

-----------------------------------------------------------------------------
(* Chunks. *)

\* The chunks of the tensors before tensor i.
ChunksBefore(g, i) == MapThenSumSet(LAMBDA j : g.tensors[j].full, 1 .. i - 1)

NChunks(g) == ChunksBefore(g, Len(g.tensors) + 1)

\* The table holds the tensors that have a whole chunk.
InTable(g) == {i \in DOMAIN g.tensors : g.tensors[i].full > 0}

Damaged == 500      \* what a damaged chunk reads differs by
Content(g, place) == IF place \in g.bad THEN place + Damaged ELSE place

\* The last entry of the table that starts at or before the offset.
ReadChunk(g, off) ==
    LET j == Max({i \in InTable(g) : ChunksBefore(g, i) <= off})
    IN  Content(g, g.tensors[j].at + (off - ChunksBefore(g, j)))

\* The leaves in the order the builder streams them: tensor after tensor.
RECURSIVE StreamTensors(_, _)
StreamTensors(g, i) ==
    IF i > Len(g.tensors) THEN <<>>
    ELSE [c \in 1 .. g.tensors[i].full |-> Leaf(Content(g, g.tensors[i].at + c - 1))] \o StreamTensors(g, i + 1)

Streamed(g) == StreamTensors(g, 1)

-----------------------------------------------------------------------------
(* The stored levels. *)

CountAtLevel(n, level) == (n + 2 ^ level - 1) \div 2 ^ level

RootLevel(n) == CHOOSE l \in 0 .. n : CountAtLevel(n, l) = 1 /\ \A k \in 0 .. l - 1 : CountAtLevel(n, k) > 1

IsCheckpoint(n, level) == (level > 0 /\ level % Interval = 0) \/ level = RootLevel(n)

Checkpoints(n) == {l \in 0 .. RootLevel(n) : IsCheckpoint(n, l)}

Offset(n, level) ==
    MapThenSumSet(LAMBDA l : CountAtLevel(n, l), {l \in Checkpoints(n) : l < level})

StoredNode(n, file, level, i) == file[Offset(n, level) + i + 1]

-----------------------------------------------------------------------------
(* Building the file. *)

\* Mutant: the fold stops at a single node (the sparse build before its fix).
RECURSIVE FoldToOneNode(_, _)
FoldToOneNode(batch, rounds) ==
    IF rounds = 0 \/ Len(batch) = 1 THEN batch[1] ELSE FoldToOneNode(LevelUp(batch), rounds - 1)

\* Exactly `rounds` levels up, a lone node hashed with itself.
RECURSIVE FoldLevels(_, _)
FoldLevels(batch, rounds) ==
    IF rounds = 0 THEN batch[1] ELSE FoldLevels(LevelUp(batch), rounds - 1)

FoldBatches(level, rounds) ==
    [i \in 1 .. CountAtLevel(Len(level), rounds) |->
        FoldLevels(SubSeq(level, (i - 1) * 2 ^ rounds + 1, Min({i * 2 ^ rounds, Len(level)})), rounds)]

\* Every stored level above `prev`, folded from the one below it.
RECURSIVE FinalizeUpper(_, _, _)
FinalizeUpper(n, file, prev) ==
    LET above == {l \in Checkpoints(n) : l > prev}
        stored == SubSeq(file, Offset(n, prev) + 1, Offset(n, prev) + CountAtLevel(n, prev))
    IN  IF above = {} THEN file
        ELSE FinalizeUpper(n, file \o FoldBatches(stored, Min(above) - prev), Min(above))

BuildFromGguf(g) ==
    FinalizeUpper(NChunks(g), FoldBatches(Streamed(g), Interval), Min(Checkpoints(NChunks(g))))

\* R_T: the node of the last checkpoint.
Rt(g, file) == StoredNode(NChunks(g), file, RootLevel(NChunks(g)), 0)

-----------------------------------------------------------------------------
(* Inclusion paths. *)

\* The node over 2^rounds nodes from `start` of the nearest level kept below.
ComputeSubtreeHash(g, file, start, rounds, src) ==
    LET n == NChunks(g)
        last == Min({start + 2 ^ rounds, CountAtLevel(n, src)}) - 1
        node(i) == IF src = 0 THEN Leaf(ReadChunk(g, i)) ELSE StoredNode(n, file, src, i)
    IN  IF start >= CountAtLevel(n, src) THEN NoHash
        ELSE FoldLevels([i \in 1 .. last - start + 1 |-> node(start + i - 1)], rounds)

SiblingNode(g, file, level, idx) ==
    LET n == NChunks(g)
        real == Sibling(idx, CountAtLevel(n, level))
        src == (level \div Interval) * Interval
    IN  IF level > 0 /\ level % Interval = 0 THEN StoredNode(n, file, level, real)
        ELSE ComputeSubtreeHash(g, file, real * 2 ^ (level - src), level - src, src)

Flip(idx) == IF idx % 2 = 0 THEN idx + 1 ELSE idx - 1

MemoKey(level, idx) == <<level, Flip(idx)>>

Memoized(n, level) == CountAtLevel(n, level) <= MemoMax

\* The path of the sparse tree, one sibling per level below the root.
SparsePath(g, file, known, off) ==
    [k \in 1 .. RootLevel(NChunks(g)) |->
        LET key == MemoKey(k - 1, off \div 2 ^ (k - 1))
        IN  IF Memoized(NChunks(g), k - 1) /\ key \in DOMAIN known THEN known[key]
            ELSE SiblingNode(g, file, k - 1, off \div 2 ^ (k - 1))]

\* The entries a lookup leaves in the memo.
Remembered(g, off, path) ==
    LET levels == {k \in DOMAIN path : Memoized(NChunks(g), k - 1)}
        key(k) == MemoKey(k - 1, off \div 2 ^ (k - 1))
    IN  [e \in {key(k) : k \in levels} |-> path[e[1] + 1]]

Path(off) ==
    IF dense # <<>> THEN MerkleProof(dense, off) ELSE SparsePath(gguf, tree, memo, off)

\* The memo after the paths of some offsets have been computed.
MemoAfter(offs) ==
    IF dense # <<>> THEN memo
    ELSE FoldSet(LAMBDA off, m : m @@ Remembered(gguf, off, Path(off)), memo, offs)

-----------------------------------------------------------------------------
NotAsked == [off |-> 0, path |-> <<>>]

TreeInit ==
    /\ gguf \in Ggufs
    /\ tree = BuildFromGguf(gguf)
    /\ dense = <<>>
    /\ memo = <<>>
    /\ asked = NotAsked
    /\ uses = 0

MerklePath(off) ==
    /\ uses < MaxUses
    /\ asked' = [off |-> off, path |-> Path(off)]
    /\ memo' = MemoAfter({off})
    /\ uses' = uses + 1
    /\ UNCHANGED <<gguf, tree, dense>>

\* build_dense reads every chunk once; a second call returns at once.
BuildDense ==
    /\ dense = <<>> /\ uses < MaxUses
    /\ dense' = [i \in 1 .. NChunks(gguf) |-> Leaf(ReadChunk(gguf, i - 1))]
    /\ UNCHANGED <<gguf, tree, memo, asked, uses>>

-----------------------------------------------------------------------------
(* The reference: the tree over all the chunks in canonical order, as they   *)
(* were when the index was built.                                            *)
Sound(g) == [g EXCEPT !.bad = {}]

CanonicalRoot == MerkleRoot(Streamed(Sound(gguf)))

\* The file kept on disk, one level in Interval, has the root of the whole
\* tree, and whatever was asked before, in whatever order, through the memo or
\* the dense tree, the path of an offset of a sound file leads from the chunk
\* there to that root and is the path of the whole tree (pom.rs 1344-1405).
PathsAreCanonical ==
    /\ Rt(gguf, tree) = CanonicalRoot
    /\ asked # NotAsked /\ gguf.bad = {} =>
        /\ asked.path = MerkleProof(Streamed(gguf), asked.off)
        /\ VerifyMerkle(Leaf(ReadChunk(gguf, asked.off)), asked.off, asked.path, Rt(gguf, tree))
=============================================================================
