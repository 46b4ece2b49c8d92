--------------------------- MODULE OpeningReader ---------------------------
(***************************************************************************)
(* The reader R of the opening payloads (verifiable-inference/src/         *)
(* opening.rs).  What a part of a body looks like is a layout: a number of *)
(* a width, counted bytes, bytes of a fixed length, a counted list, fields *)
(* in order, an alternative chosen by a tag, an option chosen by a flag.   *)
(* Read takes a layout off the bytes from an offset, and fails where the   *)
(* code returns None: too few bytes, a tag that stands for nothing.        *)
(***************************************************************************)
EXTENDS Integers, Sequences, SequencesExt, TLC

CONSTANTS Radix, HashLen

Number(width)       == [is |-> "number", width |-> width]
Counted(width, len) == [is |-> "bytes", width |-> width, len |-> len]
Fixed(len)          == [is |-> "fixed", len |-> len]
Hash                == Fixed(HashLen)
Times(n, layout)    == [is |-> "times", n |-> n, of |-> layout]
Listed(layout)      == [is |-> "list", of |-> layout]
Fields(fs)          == [is |-> "fields", fields |-> fs]
Choice(kinds)       == [is |-> "choice", kinds |-> kinds]
Option(layout)      == [is |-> "option", of |-> layout]
\* The partner and the bias of a point: any flag but 1 stands for none.
Lenient(layout)     == [is |-> "lenient", of |-> layout]

-----------------------------------------------------------------------------
None == [ok |-> FALSE]
Got(v, o) == [ok |-> TRUE, v |-> v, o |-> o]

\* R::take: n bytes from offset o.
take(b, o, n) == IF o + n > Len(b) THEN None ELSE Got(SubSeq(b, o + 1, o + n), o + n)

NumberOf(s) == FoldRight(LAMBDA digit, acc : digit + Radix * acc, s, 0)

number(b, o, width) ==
    LET t == take(b, o, width) IN IF t.ok THEN Got(NumberOf(t.v), t.o) ELSE None

RECURSIVE Read(_, _, _), ReadTimes(_, _, _, _, _), ReadFields(_, _, _, _)

\* n values of a layout, after those already in acc.
ReadTimes(layout, n, b, o, acc) ==
    IF n = 0 THEN Got(acc, o)
    ELSE LET r == Read(layout, b, o)
         IN IF r.ok THEN ReadTimes(layout, n - 1, b, r.o, Append(acc, r.v)) ELSE None

\* Named fields in order, after those already in acc.
ReadFields(fs, b, o, acc) ==
    IF fs = <<>> THEN Got(acc, o)
    ELSE LET r == Read(Head(fs)[2], b, o)
         IN IF r.ok THEN ReadFields(Tail(fs), b, r.o, acc @@ (Head(fs)[1] :> r.v)) ELSE None

Read(layout, b, o) ==
    CASE layout.is = "number" -> number(b, o, layout.width)
      [] layout.is = "fixed"  -> take(b, o, layout.len)
      [] layout.is = "bytes"  ->
            LET n == number(b, o, layout.width)
            IN IF n.ok /\ n.v <= Len(b) THEN take(b, n.o, n.v * layout.len) ELSE None
      [] layout.is = "times"  -> ReadTimes(layout.of, layout.n, b, o, <<>>)
      [] layout.is = "list"   ->
            LET n == number(b, o, 1) IN IF n.ok THEN ReadTimes(layout.of, n.v, b, n.o, <<>>) ELSE None
      [] layout.is = "fields" -> ReadFields(layout.fields, b, o, <<>>)
      [] layout.is = "choice" ->
            LET t == number(b, o, 1)
            IN IF t.ok /\ t.v < Len(layout.kinds)
               THEN LET k == layout.kinds[t.v + 1] IN ReadFields(k.fields, b, t.o, [kind |-> k.kind])
               ELSE None
      [] layout.is \in {"option", "lenient"} ->
            LET t == number(b, o, 1)
            IN IF ~t.ok \/ (t.v > 1 /\ layout.is = "option") THEN None
               ELSE ReadTimes(layout.of, IF t.v = 1 THEN 1 ELSE 0, b, t.o, <<>>)

-----------------------------------------------------------------------------
u8  == Number(1)
u32 == Number(4)
u64 == Number(8)

bytes32 == Counted(4, 1)
hashes  == Listed(Hash)

entry == Fields(<< <<"index", u32>>, <<"bytes", Counted(2, 1)>>, <<"path", hashes>> >>)

range == Fields(<< <<"first_chunk", u64>>, <<"chunks", Counted(4, HashLen)>>, <<"proof", hashes>> >>)

weights == Fields(<< <<"entry", entry>>, <<"range", range>> >>)

leaf_chunk == Fields(<< <<"total_len", u32>>, <<"index", u32>>, <<"chunk", bytes32>>,
                        <<"chunk_path", hashes>>, <<"leaf_path", hashes>> >>)

leaf_bytes == Fields(<< <<"bytes", bytes32>>, <<"leaf_path", hashes>> >>)

seq_span == Fields(<< <<"first_chunk", u32>>, <<"bytes", bytes32>>, <<"chunk_proof", hashes>>,
                      <<"leaf_path", hashes>> >>)

expert_ids == Fields(<< <<"chunk", bytes32>>, <<"chunk_path", hashes>> >>)

link == Choice(<<
    [kind |-> "None",   fields |-> <<>>],
    [kind |-> "Norm",   fields |-> << <<"src", leaf_bytes>>, <<"norm", weights>> >>],
    [kind |-> "Token",  fields |-> << <<"embd", weights>>, <<"norm", weights>> >>],
    [kind |-> "Source", fields |-> << <<"src", entry>>, <<"y", leaf_chunk>>, <<"ids", Option(expert_ids)>> >>] >>)

moe == << <<"scores", leaf_bytes>>, <<"bias", weights>>, <<"ids", expert_ids>>, <<"slots", Listed(leaf_chunk)>>,
          <<"shexp", leaf_chunk>>, <<"router_row", weights>>, <<"resid", leaf_bytes>>, <<"norm", weights>> >>

resid == Fields(<<
    <<"n_ubatch", u32>>, <<"tok", u32>>, <<"pos_path", hashes>>, <<"meta_path", hashes>>,
    <<"layer", entry>>, <<"product", entry>>, <<"dst", leaf_chunk>>,
    <<"src", Choice(<< [kind |-> "Chunk", fields |-> << <<"y", leaf_chunk>> >>],
                       [kind |-> "Token", fields |-> << <<"embd", weights>> >>] >>)>>,
    <<"add", Choice(<< [kind |-> "Chunk",  fields |-> << <<"y", leaf_chunk>> >>],
                       [kind |-> "Normed", fields |-> << <<"y", leaf_bytes>>, <<"norm", weights>> >>],
                       [kind |-> "Moe",    fields |-> moe] >>)>> >>)

point == Fields(<<
    <<"n_ubatch", u32>>, <<"pos_path", hashes>>, <<"meta_path", hashes>>, <<"entry", entry>>,
    <<"partner", Lenient(entry)>>, <<"bias", Lenient(weights)>>, <<"rows", Listed(range)>>,
    <<"x", bytes32>>, <<"x_path", hashes>>, <<"y_total_len", u32>>, <<"y_chunk_index", u32>>,
    <<"y_chunk", bytes32>>, <<"y_chunk_path", hashes>>, <<"y_path", hashes>> >>)

prefix == Fields(<<
    <<"n_ubatch", u32>>, <<"pos_path", hashes>>, <<"meta_path", hashes>>, <<"entry", entry>>,
    <<"x", bytes32>>, <<"x_path", hashes>>, <<"embd", weights>>, <<"norm", weights>> >>)

feed == Fields(<< <<"x", bytes32>>, <<"x_path", hashes>>, <<"row", range>>, <<"bias", Option(weights)>> >>)

expert_row == Fields(<< <<"entry", entry>>, <<"x", bytes32>>, <<"x_path", hashes>>, <<"row", range>> >>)

tap == Fields(<< <<"pos_path", hashes>>, <<"q", leaf_chunk>>, <<"k", leaf_chunk>>, <<"v", leaf_chunk>> >>)

roots == Fields(<< <<"pos", Hash>>, <<"seq", Hash>> >>)

chain_point == Fields(<< <<"tok", u32>>, <<"link", link>>, <<"experts", Option(expert_ids)>> >>)

-----------------------------------------------------------------------------
\* A body read from an offset to its last byte.
Whole(r, b) == IF r.ok /\ r.o = Len(b) THEN <<r.v>> ELSE <<>>

ReadWhole(layout, b, o) == Whole(Read(layout, b, o), b)

\* Fields at the head of b and the bytes after them, under the name of the rest.
ReadHead(fs, b, rest) ==
    LET r == Read(Fields(fs), b, 0)
    IN IF r.ok THEN <<r.v @@ (rest :> SubSeq(b, r.o + 1, Len(b)))>> ELSE <<>>

Versioned(version, fs, b) ==
    IF b = <<>> \/ Head(b) /= version THEN <<>> ELSE ReadWhole(Fields(fs), b, 1)

\* Opening::decode of an unseeded body: its head and points; the links, one per
\* point, and the prefix; the residual, there when bytes are left.
IsChain(version) == version \in {3, 7}

WithResid(b, head, tail, rest) ==
    IF ~rest.ok THEN <<>>
    ELSE Whole(Got(head.v @@
                [prefix |-> tail.v.prefix,
                 links |-> [i \in DOMAIN tail.v.items |->
                               [tok |-> tail.v.items[i].tok, link |-> tail.v.items[i].link]],
                 experts |-> [i \in DOMAIN tail.v.items |-> tail.v.items[i].experts],
                 resid |-> rest.v], rest.o), b)

WithItems(b, head, tail) ==
    IF ~tail.ok THEN <<>>
    ELSE WithResid(b, head, tail,
            Read(Times(IF IsChain(Head(b)) /\ tail.o < Len(b) THEN 1 ELSE 0, resid), b, tail.o))

WithHead(b, head) ==
    IF ~head.ok THEN <<>>
    ELSE WithItems(b, head,
            Read(Fields(<< <<"items", Times(IF IsChain(Head(b)) THEN Len(head.v.points) ELSE 0, chain_point)>>,
                           <<"prefix", Times(IF Head(b) >= 2 THEN 1 ELSE 0, prefix)>> >>), b, head.o))

PlainOpening(b) ==
    IF b = <<>> \/ Head(b) \notin {1, 2, 3, 7} THEN <<>>
    ELSE WithHead(b, Read(Fields(<< <<"response_txid", Hash>>,
                                    <<"roots", Times(IF Head(b) = 7 THEN 1 ELSE 0, roots)>>,
                                    <<"points", Listed(point)>> >>), b, 1))

ResidOpening(b) ==
    Versioned(8, << <<"response_txid", Hash>>, <<"roots", Option(roots)>>, <<"resid", resid>>,
                    <<"feed", feed>>, <<"expert", Option(expert_row)>> >>, b)

AttnOpening(b) ==
    Versioned(5, <<
        <<"response_txid", Hash>>, <<"pos_root", Hash>>, <<"seq_root", Hash>>,
        <<"layer", entry>>, <<"q_entry", entry>>, <<"o_entry", entry>>, <<"norms", Listed(weights)>>,
        <<"pos_path", hashes>>, <<"q", Listed(leaf_chunk)>>, <<"out", leaf_bytes>>,
        <<"kcache", seq_span>>, <<"vcache", seq_span>>, <<"anchor_pos_path", hashes>>,
        <<"anchor_k", Listed(leaf_chunk)>>, <<"anchor_v", Listed(leaf_chunk)>>,
        <<"absorb", Listed(leaf_chunk)>>, <<"path", Listed(u64)>>,
        <<"parent", bytes32>>, <<"parent_path", hashes>>, <<"partials", bytes32>>, <<"lse", seq_span>> >>, b)

RecurOpening(b) ==
    Versioned(6, <<
        <<"response_txid", Hash>>, <<"pos_root", Hash>>, <<"seq_root", Hash>>,
        <<"layer", entry>>, <<"out_entry", entry>>, <<"decay_entry", entry>>, <<"weights", Listed(weights)>>,
        <<"records", seq_span>>, <<"start_rows", seq_span>>, <<"end_rows", seq_span>>,
        <<"taps", Listed(tap)>>, <<"beta", leaf_chunk>>, <<"decay", leaf_chunk>>, <<"gate", leaf_chunk>>,
        <<"out", leaf_bytes>> >>, b)
=============================================================================
