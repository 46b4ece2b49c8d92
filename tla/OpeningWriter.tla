--------------------------- MODULE OpeningWriter ---------------------------
(***************************************************************************)
(* The writer W of the opening payloads (verifiable-inference/src/         *)
(* opening.rs): how each part of a body becomes bytes.                      *)
(*                                                                         *)
(* A byte is a digit below Radix and a hash is HashLen bytes; the widths of *)
(* the numbers and the order of the fields are the code's.  A count that   *)
(* does not fit its width wraps, as the casts of the code do.  An option   *)
(* is the empty sequence or a sequence of one value.                       *)
(***************************************************************************)
EXTENDS Integers, Sequences, SequencesExt

CONSTANTS Radix, HashLen

Number(v, width) == [i \in 1 .. width |-> (v \div Radix ^ (i - 1)) % Radix]

u8(v)  == Number(v, 1)
u16(v) == Number(v, 2)
u32(v) == Number(v, 4)
u64(v) == Number(v, 8)

Each(op(_), s)  == FlattenSeq([i \in DOMAIN s |-> op(s[i])])
Listed(op(_), s) == u8(Len(s)) \o Each(op, s)
Option(op(_), s) == u8(Len(s)) \o Each(op, s)

bytes32(b) == u32(Len(b)) \o b
hashes(h)  == u8(Len(h)) \o FlattenSeq(h)

entry(e) == u32(e.index) \o u16(Len(e.bytes)) \o e.bytes \o hashes(e.path)

range(r) ==
    u64(r.first_chunk) \o u32(Len(r.chunks) \div HashLen) \o r.chunks \o hashes(r.proof)

weights(w) == entry(w.entry) \o range(w.range)

leaf_chunk(c) ==
    u32(c.total_len) \o u32(c.index) \o bytes32(c.chunk)
        \o hashes(c.chunk_path) \o hashes(c.leaf_path)

leaf_bytes(l) == bytes32(l.bytes) \o hashes(l.leaf_path)

seq_span(s) ==
    u32(s.first_chunk) \o bytes32(s.bytes) \o hashes(s.chunk_proof) \o hashes(s.leaf_path)

expert_ids(e) == bytes32(e.chunk) \o hashes(e.chunk_path)

link(l) ==
    CASE l.kind = "None"   -> u8(0)
      [] l.kind = "Norm"   -> u8(1) \o leaf_bytes(l.src) \o weights(l.norm)
      [] l.kind = "Token"  -> u8(2) \o weights(l.embd) \o weights(l.norm)
      [] l.kind = "Source" -> u8(3) \o entry(l.src) \o leaf_chunk(l.y) \o Option(expert_ids, l.ids)

moe(m) ==
    leaf_bytes(m.scores) \o weights(m.bias) \o expert_ids(m.ids) \o Listed(leaf_chunk, m.slots)
        \o leaf_chunk(m.shexp) \o weights(m.router_row) \o leaf_bytes(m.resid) \o weights(m.norm)

resid(p) ==
    u32(p.n_ubatch) \o u32(p.tok) \o hashes(p.pos_path) \o hashes(p.meta_path)
        \o entry(p.layer) \o entry(p.product) \o leaf_chunk(p.dst)
        \o (CASE p.src.kind = "Chunk" -> u8(0) \o leaf_chunk(p.src.y)
              [] p.src.kind = "Token" -> u8(1) \o weights(p.src.embd))
        \o (CASE p.add.kind = "Chunk"  -> u8(0) \o leaf_chunk(p.add.y)
              [] p.add.kind = "Normed" -> u8(1) \o leaf_bytes(p.add.y) \o weights(p.add.norm)
              [] p.add.kind = "Moe"    -> u8(2) \o moe(p.add))

point(p) ==
    u32(p.n_ubatch) \o hashes(p.pos_path) \o hashes(p.meta_path) \o entry(p.entry)
        \o Option(entry, p.partner) \o Option(weights, p.bias) \o Listed(range, p.rows)
        \o bytes32(p.x) \o hashes(p.x_path) \o u32(p.y_total_len) \o u32(p.y_chunk_index)
        \o bytes32(p.y_chunk) \o hashes(p.y_chunk_path) \o hashes(p.y_path)

prefix(p) ==
    u32(p.n_ubatch) \o hashes(p.pos_path) \o hashes(p.meta_path) \o entry(p.entry)
        \o bytes32(p.x) \o hashes(p.x_path) \o weights(p.embd) \o weights(p.norm)

feed(f) == bytes32(f.x) \o hashes(f.x_path) \o range(f.row) \o Option(weights, f.bias)

expert_row(e) == entry(e.entry) \o bytes32(e.x) \o hashes(e.x_path) \o range(e.row)

tap(t) == hashes(t.pos_path) \o leaf_chunk(t.q) \o leaf_chunk(t.k) \o leaf_chunk(t.v)

roots(r) == r.pos \o r.seq

-----------------------------------------------------------------------------
\* Opening::encode: the version follows from what the opening carries, and
\* the roots are written only with the links or the residual of stage 2.
IsChain(o) == o.links /= <<>> \/ o.resid /= <<>>

VersionOf(o) ==
    CASE IsChain(o) /\ o.roots /= <<>> -> 7
      [] IsChain(o) /\ o.roots = <<>>  -> 3
      [] ~IsChain(o) /\ o.prefix /= <<>> -> 2
      [] ~IsChain(o) /\ o.prefix = <<>>  -> 1

chain_point(o, i) ==
    u32(o.links[i].tok) \o link(o.links[i].link)
        \o (IF i <= Len(o.experts) THEN Option(expert_ids, o.experts[i]) ELSE u8(0))

Opening(o) ==
    u8(VersionOf(o)) \o o.response_txid
        \o (IF IsChain(o) THEN Each(roots, o.roots) ELSE <<>>)
        \o Listed(point, o.points)
        \o FlattenSeq([i \in DOMAIN o.links |-> chain_point(o, i)])
        \o Each(prefix, o.prefix) \o Each(resid, o.resid)

ResidOpening(o) ==
    u8(8) \o o.response_txid \o Option(roots, o.roots) \o resid(o.resid) \o feed(o.feed)
        \o Option(expert_row, o.expert)

AttnOpening(o) ==
    u8(5) \o o.response_txid \o o.pos_root \o o.seq_root
        \o entry(o.layer) \o entry(o.q_entry) \o entry(o.o_entry) \o Listed(weights, o.norms)
        \o hashes(o.pos_path) \o Listed(leaf_chunk, o.q) \o leaf_bytes(o.out)
        \o seq_span(o.kcache) \o seq_span(o.vcache) \o hashes(o.anchor_pos_path)
        \o Listed(leaf_chunk, o.anchor_k) \o Listed(leaf_chunk, o.anchor_v)
        \o Listed(leaf_chunk, o.absorb) \o Listed(u64, o.path)
        \o bytes32(o.parent) \o hashes(o.parent_path) \o bytes32(o.partials) \o seq_span(o.lse)

RecurOpening(o) ==
    u8(6) \o o.response_txid \o o.pos_root \o o.seq_root
        \o entry(o.layer) \o entry(o.out_entry) \o entry(o.decay_entry) \o Listed(weights, o.weights)
        \o seq_span(o.records) \o seq_span(o.start_rows) \o seq_span(o.end_rows)
        \o Listed(tap, o.taps) \o leaf_chunk(o.beta) \o leaf_chunk(o.decay) \o leaf_chunk(o.gate)
        \o leaf_bytes(o.out)
=============================================================================
