----------------------------- MODULE MCPayloads -----------------------------
(***************************************************************************)
(* Openings and transaction payloads, with one field away from its default *)
(* at a time, written, put in an envelope, cut and lengthened.  Bytes are   *)
(* digits below 14 and hashes two of them: the widths of the numbers are    *)
(* the code's.                                                             *)
(***************************************************************************)
EXTENDS Payloads

VARIABLES kind, value, body, how

\* d with at most one field replaced by one of its alternatives.
Vary(d, alts) == {d} \cup UNION {{[d EXCEPT ![f] = x] : x \in alts[f]} : f \in DOMAIN alts}

H(k) == [i \in 1 .. HashLen |-> k + i]
Path == <<H(1), H(4)>>

Entry0 == [index |-> 0, bytes |-> <<>>, path |-> <<>>]
Entry1 == [index |-> 15, bytes |-> <<2>>, path |-> <<H(3)>>]
Range0 == [first_chunk |-> 0, chunks |-> <<>>, proof |-> <<>>]
Range1 == [first_chunk |-> 200, chunks |-> H(2) \o H(5), proof |-> <<H(4)>>]
Weights0 == [entry |-> Entry0, range |-> Range0]
Weights1 == [entry |-> Entry1, range |-> Range1]
Chunk0 == [total_len |-> 0, index |-> 0, chunk |-> <<>>, chunk_path |-> <<>>, leaf_path |-> <<>>]
Chunk1 == [total_len |-> 30, index |-> 1, chunk |-> <<3, 4>>, chunk_path |-> <<H(5)>>, leaf_path |-> Path]
Leaf0 == [bytes |-> <<>>, leaf_path |-> <<>>]
Leaf1 == [bytes |-> <<6>>, leaf_path |-> Path]
Span0 == [first_chunk |-> 0, bytes |-> <<>>, chunk_proof |-> <<>>, leaf_path |-> <<>>]
Span1 == [first_chunk |-> 1, bytes |-> <<7, 8>>, chunk_proof |-> <<H(1)>>, leaf_path |-> Path]
Ids1 == [chunk |-> <<9>>, chunk_path |-> <<H(2)>>]

Moe0 == [kind |-> "Moe", scores |-> Leaf0, bias |-> Weights0, ids |-> [chunk |-> <<>>, chunk_path |-> <<>>],
         slots |-> <<>>, shexp |-> Chunk0, router_row |-> Weights0, resid |-> Leaf0, norm |-> Weights0]

Resid0 == [n_ubatch |-> 0, tok |-> 0, pos_path |-> <<>>, meta_path |-> <<>>, layer |-> Entry0,
           product |-> Entry0, dst |-> Chunk0, src |-> [kind |-> "Chunk", y |-> Chunk0],
           add |-> [kind |-> "Chunk", y |-> Chunk0]]

Moes == Vary(Moe0, [scores |-> {Leaf1}, bias |-> {Weights1}, ids |-> {Ids1}, slots |-> {<<Chunk1, Chunk0>>},
                    shexp |-> {Chunk1}, router_row |-> {Weights1}, resid |-> {Leaf1}, norm |-> {Weights1}])

Resids == Vary(Resid0, [
    n_ubatch |-> {1}, tok |-> {1}, pos_path |-> {Path}, meta_path |-> {Path}, layer |-> {Entry1},
    product |-> {Entry1}, dst |-> {Chunk1},
    src |-> {[kind |-> "Chunk", y |-> Chunk1], [kind |-> "Token", embd |-> Weights1]},
    add |-> {[kind |-> "Chunk", y |-> Chunk1], [kind |-> "Normed", y |-> Leaf1, norm |-> Weights0],
             [kind |-> "Normed", y |-> Leaf0, norm |-> Weights1]} \cup Moes])

Point0 == [n_ubatch |-> 0, pos_path |-> <<>>, meta_path |-> <<>>, entry |-> Entry0, partner |-> <<>>,
           bias |-> <<>>, rows |-> <<>>, x |-> <<>>, x_path |-> <<>>, y_total_len |-> 0,
           y_chunk_index |-> 0, y_chunk |-> <<>>, y_chunk_path |-> <<>>, y_path |-> <<>>]

Points == Vary(Point0, [
    n_ubatch |-> {1}, pos_path |-> {Path}, meta_path |-> {Path}, entry |-> {Entry1},
    partner |-> {<<Entry1>>}, bias |-> {<<Weights1>>}, rows |-> {<<Range1, Range0>>}, x |-> {<<1, 2>>},
    x_path |-> {Path}, y_total_len |-> {30}, y_chunk_index |-> {1}, y_chunk |-> {<<1>>},
    y_chunk_path |-> {Path}, y_path |-> {Path}])

Prefix0 == [n_ubatch |-> 0, pos_path |-> <<>>, meta_path |-> <<>>, entry |-> Entry0, x |-> <<>>,
            x_path |-> <<>>, embd |-> Weights0, norm |-> Weights0]

PrefixPoints == Vary(Prefix0, [n_ubatch |-> {1}, pos_path |-> {Path}, meta_path |-> {Path}, entry |-> {Entry1},
                           x |-> {<<1>>}, x_path |-> {Path}, embd |-> {Weights1}, norm |-> {Weights1}])

Links == {[kind |-> "None"], [kind |-> "Norm", src |-> Leaf1, norm |-> Weights1],
          [kind |-> "Token", embd |-> Weights1, norm |-> Weights0],
          [kind |-> "Source", src |-> Entry1, y |-> Chunk1, ids |-> <<>>],
          [kind |-> "Source", src |-> Entry0, y |-> Chunk0, ids |-> <<Ids1>>]}

\* Stage 1: points, then with a prefix.
Trace1 == [response_txid |-> H(6), roots |-> <<>>, points |-> <<Point0>>, prefix |-> <<>>,
           links |-> <<>>, experts |-> <<>>, resid |-> <<>>]
Plain == Vary(Trace1, [points |-> {<<p, Point0>> : p \in Points} \cup {<<>>},
                       prefix |-> {<<p>> : p \in PrefixPoints}])

\* Stage 2: a link and expert ids for each point, a prefix, and the roots and
\* a residual or not.
Trace2 == [Trace1 EXCEPT !.prefix = <<Prefix0>>, !.links = <<[tok |-> 1, link |-> [kind |-> "None"]]>>,
                         !.experts = << <<>> >>]
Chained == UNION {Vary(t, [links |-> {<<[tok |-> 2, link |-> l]>> : l \in Links}, experts |-> {<< <<Ids1>> >>},
                           resid |-> {<<r>> : r \in Resids}]) :
                     t \in {Trace2, [Trace2 EXCEPT !.roots = <<[pos |-> H(7), seq |-> H(8)]>>]}}

Feed0 == [x |-> <<>>, x_path |-> <<>>, row |-> Range0, bias |-> <<>>]
Residuals == Vary(
    [response_txid |-> H(6), roots |-> <<>>, resid |-> Resid0, feed |-> Feed0, expert |-> <<>>],
    [roots |-> {<<[pos |-> H(7), seq |-> H(8)]>>}, resid |-> Resids,
     feed |-> Vary(Feed0, [x |-> {<<1>>}, x_path |-> {Path}, row |-> {Range1}, bias |-> {<<Weights1>>}]),
     expert |-> {<<[entry |-> Entry1, x |-> <<1>>, x_path |-> Path, row |-> Range1]>>}])

Attentions == Vary(
    [response_txid |-> H(6), pos_root |-> H(7), seq_root |-> H(8), layer |-> Entry0, q_entry |-> Entry0,
     o_entry |-> Entry0, norms |-> <<>>, pos_path |-> <<>>, q |-> <<>>, out |-> Leaf0, kcache |-> Span0,
     vcache |-> Span0, anchor_pos_path |-> <<>>, anchor_k |-> <<>>, anchor_v |-> <<>>, absorb |-> <<>>,
     path |-> <<>>, parent |-> <<>>, parent_path |-> <<>>, partials |-> <<>>, lse |-> Span0],
    [layer |-> {Entry1}, q_entry |-> {Entry1}, o_entry |-> {Entry1}, norms |-> {<<Weights1, Weights0>>},
     pos_path |-> {Path}, q |-> {<<Chunk1, Chunk0>>}, out |-> {Leaf1}, kcache |-> {Span1}, vcache |-> {Span1},
     anchor_pos_path |-> {Path}, anchor_k |-> {<<Chunk1>>}, anchor_v |-> {<<Chunk1>>}, absorb |-> {<<Chunk1>>},
     path |-> {<<3, 1>>}, parent |-> {<<1>>}, parent_path |-> {Path}, partials |-> {<<1>>}, lse |-> {Span1}])

Tap0 == [pos_path |-> <<>>, q |-> Chunk0, k |-> Chunk0, v |-> Chunk0]
Recurrences == Vary(
    [response_txid |-> H(6), pos_root |-> H(7), seq_root |-> H(8), layer |-> Entry0, out_entry |-> Entry0,
     decay_entry |-> Entry0, weights |-> <<>>, records |-> Span0, start_rows |-> Span0, end_rows |-> Span0,
     taps |-> <<>>, beta |-> Chunk0, decay |-> Chunk0, gate |-> Chunk0, out |-> Leaf0],
    [layer |-> {Entry1}, out_entry |-> {Entry1}, decay_entry |-> {Entry1}, weights |-> {<<Weights1, Weights0>>},
     records |-> {Span1}, start_rows |-> {Span1}, end_rows |-> {Span1},
     taps |-> {<<t, Tap0>> : t \in Vary(Tap0, [pos_path |-> {Path}, q |-> {Chunk1}, k |-> {Chunk1}, v |-> {Chunk1}])},
     beta |-> {Chunk1}, decay |-> {Chunk1}, gate |-> {Chunk1}, out |-> {Leaf1}])

Requests == Vary([model_id |-> H(1), max_tokens |-> 0, inference_reward |-> 0, priority_fee |-> 0, prompt |-> <<>>],
                 [max_tokens |-> {200}, inference_reward |-> {30}, priority_fee |-> {3000}, prompt |-> {<<1, 2>>}])

Challenges == Vary([response_hash |-> H(1), challenger_deposit |-> 0, challenger_spk_version |-> 0,
                    challenger_spk |-> H(2), proof_data |-> <<>>],
                   [challenger_deposit |-> {30}, challenger_spk_version |-> {15}, proof_data |-> {H(4)}])

\* Of both versions; with an answer, and with a commitment after it.  A response
\* without an answer has no place for a commitment.
Commitments == [trace_root : {H(3)}, n_prompt : {20}, n_pos : {1}, stage : {2}, tokens_root : {<<>>, <<H(5)>>}]
Response1 == [request_hash |-> H(1), challenge_window_end |-> 0, response_ipfs_cid |-> <<1, 2>> \o H(2),
              response_length |-> 0, responder |-> <<>>, private_body |-> <<>>, trace |-> <<>>]
Response2 == [Response1 EXCEPT !.responder = <<[escrow_pubkey |-> H(6), signature |-> H(7) \o H(8)]>>]
Response3 == [Response2 EXCEPT !.private_body = <<(<<7, 7>>)>>]
Responses ==
    UNION {Vary(r, [challenge_window_end |-> {300}, response_length |-> {15}]) : r \in {Response1, Response2, Response3}}
        \cup Vary(Response3, [private_body |-> {<<p>> : p \in {<<1>>, <<0, 13, 4>>}}, trace |-> {<<t>> : t \in Commitments}])

Recipient(k) == [escrow_pubkey |-> H(k), wrapped_root_key |-> H(k) \o H(9)]
Envelopes == Vary([ephemeral_pubkey |-> <<2>> \o H(3), nonce |-> <<4>>, recipients |-> <<Recipient(5)>>,
                   ciphertext |-> <<1, 2>>],
                  [recipients |-> {<<Recipient(2), Recipient(4)>>}, ciphertext |-> {<<1, 2, 3>>}])
Answers == [nonce : {<<4>>}, ciphertext : {<<1, 2>>, <<1, 2, 3>>}]

AllKinds == Kinds \cup {"request", "challenge", "response", "envelope", "answer"}

ValuesOf == [trace |-> Plain \cup Chained, resid |-> Residuals, attn |-> Attentions, recur |-> Recurrences,
             request |-> Requests, challenge |-> Challenges, response |-> Responses, envelope |-> Envelopes,
             answer |-> Answers]

Written(k, v) ==
    CASE k \in Kinds -> Encode(k, v)
      [] k = "request"   -> request_bytes(v)
      [] k = "challenge" -> challenge_bytes(v)
      [] k = "response"  -> response_bytes(v)
      [] k = "envelope"  -> envelope_bytes(v)
      [] k = "answer"    -> answer_bytes(v)

Reading(k, b) ==
    CASE k \in Kinds -> Decode(k, b)
      [] k = "request"   -> request_of(b)
      [] k = "challenge" -> challenge_of(b)
      [] k = "response"  -> response_of(b)
      [] k = "envelope"  -> envelope_of(b)
      [] k = "answer"    -> answer_of(b)

-----------------------------------------------------------------------------
IsOpening == kind \in Kinds

Init == /\ kind \in AllKinds /\ value \in ValuesOf[kind]
        /\ body = Written(kind, value) /\ how = "written"

Seal == /\ IsOpening /\ how = "written" /\ body' = seeded(body, H(9))[1] /\ how' = "sealed"
        /\ UNCHANGED <<kind, value>>

SealAgain == /\ how = "sealed" /\ body' = <<Seeded>> \o SubSeq(body, 2, 1 + HashLen) \o H(9) \o <<Head(body)>>
                                            \o SubSeq(body, 2 + HashLen, Len(body))
             /\ how' = "sealed twice" /\ UNCHANGED <<kind, value>>

\* What was cut is forgotten: the pieces of many openings are the same.
Cut == /\ how \in {"written", "cut"} /\ body /= <<>> /\ body' = Front(body) /\ how' = "cut"
       /\ value' = <<>> /\ UNCHANGED kind

Grow == /\ how \in {"written", "sealed"} /\ \E x \in {0, 1} : body' = Append(body, x)
        /\ how' = "grown" /\ UNCHANGED <<kind, value>>

\* Two recipients of an envelope change places.
Swap == /\ kind = "envelope" /\ how = "written" /\ Len(value.recipients) = 2
        /\ body' = envelope_bytes([value EXCEPT !.recipients = Reverse(@)])
        /\ how' = "swapped" /\ UNCHANGED <<kind, value>>

Next == Seal \/ SealAgain \/ Cut \/ Grow \/ Swap

Spec == Init /\ [][Next]_<<kind, value, body, how>>

-----------------------------------------------------------------------------
\* What is written is read back, sealed or not, and by no reader of another kind
\* of opening.
WrittenIsRead(readings) ==
    how \in {"written", "sealed"} =>
        /\ readings[kind] = <<value>>
        /\ IsOpening => \A k \in Kinds \ {kind} : readings[k] = <<>>

\* Whatever is read is written that way and no other: every byte counts.
ReadIsWritten(v) == v = <<>> \/ (IF IsOpening THEN inner_body(body) ELSE <<body>>) = <<Written(kind, v[1])>>

\* A piece of an opening is none, but for one cut where its residual starts; a
\* seeded body holds no seeded body, and recipients are in one order only.
CutAtResid(k, read) == how = "cut" /\ {k, kind} = {"trace"} /\ W!IsChain(read[1]) /\ read[1].resid = <<>>

NothingElseIsRead(readings) ==
    /\ how \in {"cut", "grown", "sealed twice"} /\ IsOpening =>
          \A k \in Kinds : readings[k] = <<>> \/ CutAtResid(k, readings[k])
    /\ how = "swapped" => readings[kind] = <<>>

\* The responder signs every field but its own two: two responses of the same
\* signed bytes differ in nothing else.
SignatureCovers ==
    kind = "response" /\ how = "written" =>
        \A other \in Responses : signed_bytes(other) = signed_bytes(value)
                                     => [other EXCEPT !.responder = value.responder] = value

\* The envelope gives back what it holds and names the seed block, the payload
\* splits where the body ends, and the bodies of a response come back from
\* their bundle: a piece of a bundle is none.
EnvelopeIsReadBack ==
    /\ how = "sealed" => /\ inner_body(body) = <<Encode(kind, value)>>
                         /\ seed_block(body) = <<H(9)>>
                         /\ kind = "attn" => attn_path(body) = <<value.path>>
    /\ IsOpening /\ how \in {"written", "sealed"} =>
        /\ split(body \o [i \in 1 .. SignatureLen |-> 1]) = <<[body |-> body, tail |-> [i \in 1 .. SignatureLen |-> 1]]>>
        /\ \A pieces \in {<<body>>, <<body, <<1>>, body>>} :
            unbundle(bundle(pieces)) = <<pieces>>
        /\ unbundle(Front(bundle(<<body, body>>))) = <<>>

\* An answer gives back its text and its token ids, and its text length.
AnswerIsReadBack ==
    how = "cut" /\ Len(body) < 12 => \A ids \in {<<>>, <<200>>, <<1, 30>>} :
        /\ decode(encode(body, ids)) = <<[text |-> body, ids |-> ids]>>
        /\ text_len(Len(encode(body, ids)), Len(ids)) = <<Len(body)>>

AgreesWith(readings) == WrittenIsRead(readings) /\ ReadIsWritten(readings[kind]) /\ NothingElseIsRead(readings)

\* What one node writes the other reads, and nothing else.
BodiesAreReadBack ==
    /\ AgreesWith([k \in AllKinds |-> Reading(k, body)])
    /\ SignatureCovers
    /\ EnvelopeIsReadBack
    /\ AnswerIsReadBack
=============================================================================
