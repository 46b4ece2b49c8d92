------------------------------- MODULE Merkle -------------------------------
(* The three hash trees of the program, as pure operators.                  *)
(*                                                                          *)
(* The weight tree of the proof of model (src/src/pom.rs) repeats its last  *)
(* node when a level has an odd number of them.  The range proofs over the  *)
(* same tree, and the trace tree, which carries an odd last node up as it   *)
(* is and hashes its root apart (BLAKE3), are those of the verifiable       *)
(* inference library (src/verifiable-inference/src/merkle.rs).              *)
(*                                                                          *)
(* A hash is the tuple of what is hashed, so two hashes are equal only when *)
(* their inputs are: a leaf is the 1-tuple of its content, an inner node    *)
(* the tuple of its children.  Indices count from 0, as in the code.        *)
EXTENDS Integers, Sequences

CONSTANT B3Chunk    \* the bytes of a BLAKE3 chunk (1024 in the code)

NoHash == <<>>      \* None, and the zeroed hash of a guard

\* The same sequence, its elements evaluated at once.
Eager(s) == SubSeq(s, 1, Len(s))

Leaf(content) == <<content>>
HashPair(l, r) == <<l, r>>

-----------------------------------------------------------------------------
(* The tree that repeats its last node. *)

LevelUp(level) ==
    Eager([i \in 1 .. (Len(level) + 1) \div 2 |->
        HashPair(level[2 * i - 1], level[IF 2 * i <= Len(level) THEN 2 * i ELSE 2 * i - 1])])

RECURSIVE MerkleRoot(_), MerkleProof(_, _), VerifyMerkle(_, _, _, _)

MerkleRoot(level) ==
    IF Len(level) = 1 THEN level[1] ELSE MerkleRoot(LevelUp(level))

\* The sibling of node idx, or the node itself at the right edge.
Sibling(idx, count) ==
    LET sib == IF idx % 2 = 0 THEN idx + 1 ELSE idx - 1
    IN  IF sib < count THEN sib ELSE idx

MerkleProof(level, idx) ==
    IF Len(level) = 1 THEN <<>>
    ELSE <<level[Sibling(idx, Len(level)) + 1]>> \o MerkleProof(LevelUp(level), idx \div 2)

VerifyMerkle(acc, idx, path, root) ==
    IF path = <<>> THEN acc = root
    ELSE VerifyMerkle(IF idx % 2 = 0 THEN HashPair(acc, Head(path)) ELSE HashPair(Head(path), acc),
                      idx \div 2, Tail(path), root)

-----------------------------------------------------------------------------
(* Proofs that a run of leaves is in that tree. *)

\* What a level lacks to be folded: the node before it, the node after it.
Before(lo) == IF lo % 2 = 1 THEN 1 ELSE 0
After(hi, n) == IF hi % 2 = 0 /\ hi + 1 < n THEN 1 ELSE 0

RECURSIVE RtFold(_, _, _, _), RangePath(_, _, _)

RtFold(level, lo, n, proof) ==
    LET hi == lo + Len(level) - 1
        need == Before(lo) + After(hi, n)
    IN  IF n = 1 THEN IF proof = <<>> /\ Len(level) = 1 THEN level[1] ELSE NoHash
        ELSE IF Len(proof) < need THEN NoHash
        ELSE RtFold(LevelUp(SubSeq(proof, 1, Before(lo)) \o level \o SubSeq(proof, Before(lo) + 1, need)),
                    lo \div 2, (n + 1) \div 2, SubSeq(proof, need + 1, Len(proof)))

InRange(first, leaves, n) == leaves # <<>> /\ first + Len(leaves) <= n

RtVerifyRange(root, n, first, leaves, proof) ==
    InRange(first, leaves, n) /\ RtFold(leaves, first, n, proof) = root

RangePath(level, lo, hi) ==
    IF Len(level) = 1 THEN <<>>
    ELSE (IF Before(lo) = 1 THEN <<level[lo]>> ELSE <<>>)
         \o (IF After(hi, Len(level)) = 1 THEN <<level[hi + 2]>> ELSE <<>>)
         \o RangePath(LevelUp(level), lo \div 2, hi \div 2)

RtRangeProof(leaves, first, count) == RangePath(leaves, first, first + count - 1)

-----------------------------------------------------------------------------
(* The trace tree: an odd last node goes up as it is. *)

B3Merge(l, r, root) == <<l, r, root>>

B3LevelUp(level, root) ==
    Eager([i \in 1 .. (Len(level) + 1) \div 2 |->
        IF 2 * i <= Len(level) THEN B3Merge(level[2 * i - 1], level[2 * i], root)
        ELSE level[2 * i - 1]])

RECURSIVE B3Root(_), B3Path(_, _), B3Climb(_, _, _, _)
RECURSIVE B3RangePath(_, _, _), B3RangeClimb(_, _, _, _)

B3Root(level) ==
    IF Len(level) = 1 THEN level[1] ELSE B3Root(B3LevelUp(level, Len(level) = 2))

\* Whether node i of n has a sibling to be hashed with.
Paired(i, n) == n % 2 = 0 \/ i # n - 1

B3Path(level, i) ==
    LET n == Len(level)
    IN  IF n = 1 THEN <<>>
        ELSE (IF Paired(i, n) THEN <<level[(IF i % 2 = 0 THEN i + 1 ELSE i - 1) + 1]>> ELSE <<>>)
             \o B3Path(B3LevelUp(level, n = 2), i \div 2)

B3Climb(acc, i, n, path) ==
    IF n = 1 THEN IF path = <<>> THEN acc ELSE NoHash
    ELSE IF ~Paired(i, n) THEN B3Climb(acc, i \div 2, (n + 1) \div 2, path)
    ELSE IF path = <<>> THEN NoHash
    ELSE B3Climb(IF i % 2 = 0 THEN B3Merge(acc, Head(path), n = 2) ELSE B3Merge(Head(path), acc, n = 2),
                 i \div 2, (n + 1) \div 2, Tail(path))

B3Fold(n, i, leaf, path) == IF i < n THEN B3Climb(leaf, i, n, path) ELSE NoHash
B3Verify(root, n, i, leaf, path) == B3Fold(n, i, leaf, path) = root

B3RangePath(level, lo, hi) ==
    IF Len(level) = 1 THEN <<>>
    ELSE (IF Before(lo) = 1 THEN <<level[lo]>> ELSE <<>>)
         \o (IF After(hi, Len(level)) = 1 THEN <<level[hi + 2]>> ELSE <<>>)
         \o B3RangePath(B3LevelUp(level, Len(level) = 2), lo \div 2, hi \div 2)

B3RangeProof(leaves, first, count) == B3RangePath(leaves, first, first + count - 1)

B3RangeClimb(level, lo, n, proof) ==
    LET need == Before(lo) + After(lo + Len(level) - 1, n)
    IN  IF n = 1 THEN IF proof = <<>> /\ Len(level) = 1 THEN level[1] ELSE NoHash
        ELSE IF Len(proof) < need THEN NoHash
        ELSE B3RangeClimb(
                B3LevelUp(SubSeq(proof, 1, Before(lo)) \o level \o SubSeq(proof, Before(lo) + 1, need), n = 2),
                lo \div 2, (n + 1) \div 2, SubSeq(proof, need + 1, Len(proof)))

B3RangeFold(n, first, leaves, proof) ==
    IF InRange(first, leaves, n) THEN B3RangeClimb(leaves, first, n, proof) ELSE NoHash

-----------------------------------------------------------------------------
(* The BLAKE3 hash of a byte string and the proof of some of its chunks. *)

B3Chunks(bytes) == (bytes + B3Chunk - 1) \div B3Chunk

\* The chaining value of chunk c: its bytes and where they lie.
ChunkCv(data, i, c) ==
    <<SubSeq(data, i * B3Chunk + 1, IF (i + 1) * B3Chunk < Len(data) THEN (i + 1) * B3Chunk ELSE Len(data)), c>>

ChunkCvs(data, first) == Eager([i \in 1 .. B3Chunks(Len(data)) |-> ChunkCv(data, i - 1, first + i - 1)])

Blake3(data) == IF Len(data) <= B3Chunk THEN Leaf(data) ELSE B3Root(ChunkCvs(data, 0))

B3ChunksProof(data, first, count) ==
    IF B3Chunks(Len(data)) <= 1 THEN <<>> ELSE B3RangeProof(ChunkCvs(data, 0), first, count)

B3LeafFromChunk(total, c, chunk, path) ==
    LET n == IF B3Chunks(total) = 0 THEN 1 ELSE B3Chunks(total)
        expected == IF c + 1 < n THEN B3Chunk ELSE total - c * B3Chunk
    IN  IF c >= n \/ Len(chunk) # expected THEN NoHash
        ELSE IF n = 1 THEN IF path = <<>> THEN Leaf(chunk) ELSE NoHash
        ELSE B3Fold(n, c, ChunkCv(chunk, 0, c), path)

B3LeafFromChunks(total, first, bytes, proof) ==
    LET n == IF B3Chunks(total) = 0 THEN 1 ELSE B3Chunks(total)
        end == first + B3Chunks(Len(bytes))
        stop == IF total < end * B3Chunk THEN total ELSE end * B3Chunk
    IN  IF bytes = <<>> \/ end > n \/ Len(bytes) # stop - first * B3Chunk THEN NoHash
        ELSE IF n = 1 THEN IF proof = <<>> THEN Leaf(bytes) ELSE NoHash
        ELSE B3RangeFold(n, first, ChunkCvs(bytes, first), proof)
=============================================================================
