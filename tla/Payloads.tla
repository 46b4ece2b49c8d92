------------------------------ MODULE Payloads ------------------------------
(***************************************************************************)
(* Opening payloads (verifiable-inference/src/opening.rs): bodies of four   *)
(* kinds, the envelope that names the seed block a body was built for, the *)
(* signature after the body; the bundle that keeps the bodies of a response *)
(* together until they are sent (src/trace_seq.rs) and the plaintext of a   *)
(* sealed answer (answer.rs).                                               *)
(*                                                                         *)
(* A body is written field by field by OpeningWriter and read field by     *)
(* field by OpeningReader, two pieces of code that must agree.  An option   *)
(* is the empty sequence or a sequence of one value.                       *)
(*                                                                         *)
(* The payloads of AiRequest, AiResponse and AiChallenge transactions      *)
(* (inference/src/ai_payload.rs) and the two envelopes of private          *)
(* inference (inference/src/private.rs), as bytes.                         *)
(*                                                                         *)
(* The writers and the layouts are those of the openings; an option is the *)
(* empty sequence or a sequence of one value; a multihash is a hash and two *)
(* bytes.  Whether a key is a point of the curve is left out: every key     *)
(* here is one.                                                            *)
(***************************************************************************)
EXTENDS Integers, Sequences, SequencesExt, TLC

CONSTANTS
    Radix,          \* values of a byte, 256 in the code
    HashLen,        \* bytes of a hash, 32
    SignatureLen,   \* bytes of the key and of the signature after a body, 96
    MaxBodyLen,     \* largest body, 112 KiB
    BundleMark,     \* first byte of a bundle, 0xB0
    Magic           \* last bytes of an answer with token ids, KXTK

\* What the codec needs of its constants.
CodecConstants ==
    /\ Radix \in Nat /\ HashLen \in Nat \ {0} /\ SignatureLen \in Nat /\ MaxBodyLen \in Nat
    /\ BundleMark \in 9 .. Radix - 1 /\ Magic \in Seq(0 .. Radix - 1) /\ Len(Magic) = 4

W == INSTANCE OpeningWriter
R == INSTANCE OpeningReader

Seeded == 4

-----------------------------------------------------------------------------
\* The envelope: [4] [response id] [seed block] [inner version] [the rest].
IsSeeded(body) == body /= <<>> /\ Head(body) = Seeded

seed_block(body) ==
    IF IsSeeded(body) /\ Len(body) >= 1 + 2 * HashLen
    THEN <<SubSeq(body, 2 + HashLen, 1 + 2 * HashLen)>> ELSE <<>>

\* A seeded body inside a seeded body is refused.
inner_body(body) ==
    CASE ~IsSeeded(body) -> <<body>>
      [] IsSeeded(body) ->
            LET at == 2 + 2 * HashLen
            IN IF Len(body) < at \/ body[at] = Seeded THEN <<>>
               ELSE << <<body[at]>> \o SubSeq(body, 2, 1 + HashLen) \o SubSeq(body, at + 1, Len(body)) >>

seeded(body, seed) ==
    IF body = <<>> \/ Head(body) \notin {1, 2, 3, 5, 6, 7, 8} \/ Len(body) < 1 + HashLen THEN <<>>
    ELSE << <<Seeded>> \o SubSeq(body, 2, 1 + HashLen) \o seed \o <<Head(body)>>
                \o SubSeq(body, 2 + HashLen, Len(body)) >>

-----------------------------------------------------------------------------
Kinds == {"trace", "resid", "attn", "recur"}

Encode(kind, v) ==
    CASE kind = "trace" -> W!Opening(v)
      [] kind = "resid" -> W!ResidOpening(v)
      [] kind = "attn"  -> W!AttnOpening(v)
      [] kind = "recur" -> W!RecurOpening(v)

\* Opening::decode opens the envelope itself; is_audit_body and attn_path open
\* it for the other kinds.
Inside(read(_), body) == LET i == inner_body(body) IN IF i = <<>> THEN <<>> ELSE read(i[1])

Decode(kind, body) ==
    CASE kind = "trace" -> Inside(R!PlainOpening, body)
      [] kind = "resid" -> Inside(R!ResidOpening, body)
      [] kind = "attn"  -> Inside(R!AttnOpening, body)
      [] kind = "recur" -> Inside(R!RecurOpening, body)

is_audit_body(body) == \E k \in Kinds : Decode(k, body) /= <<>>

attn_path(body) ==
    LET o == Inside(R!AttnOpening, body) IN IF o = <<>> THEN <<>> ELSE <<o[1].path>>

\* SignedPayload::split: the body and what follows it.
MinPayloadLen == 1 + HashLen + 1 + SignatureLen

split(payload) ==
    IF Len(payload) < MinPayloadLen \/ Len(payload) > MaxBodyLen + SignatureLen THEN <<>>
    ELSE LET n == Len(payload) - SignatureLen
         IN << [body |-> SubSeq(payload, 1, n), tail |-> SubSeq(payload, n + 1, Len(payload))] >>

-----------------------------------------------------------------------------
\* Several bodies in one: a mark, their number, and each after its length.
bundle(bodies) ==
    IF Len(bodies) = 1 THEN bodies[1]
    ELSE <<BundleMark, Len(bodies) % Radix>> \o W!Each(W!bytes32, bodies)

unbundle(b) ==
    IF b = <<>> \/ Head(b) /= BundleMark THEN << <<b>> >>
    ELSE IF Len(b) < 2 THEN <<>>
    ELSE R!ReadWhole(R!Times(b[2], R!bytes32), b, 2)

-----------------------------------------------------------------------------
\* The plaintext of an answer: text, token ids, their number and the magic.
TrailerLen == 4 + Len(Magic)

encode(text, ids) == text \o W!Each(W!u32, ids) \o W!u32(Len(ids)) \o Magic

text_len(answerLen, nIds) ==
    LET tail == 4 * nIds + TrailerLen IN IF answerLen < tail THEN <<>> ELSE <<answerLen - tail>>

decode(plain) ==
    LET body == Len(plain) - TrailerLen
        n == R!NumberOf(SubSeq(plain, body + 1, body + 4))
        textLen == body - 4 * n
    IN IF body < 0 \/ SubSeq(plain, body + 5, Len(plain)) /= Magic \/ n > body \/ textLen < 0 THEN <<>>
       ELSE << [text |-> SubSeq(plain, 1, textLen),
                ids |-> [i \in 1 .. n |-> R!NumberOf(SubSeq(plain, textLen + 4 * i - 3, textLen + 4 * i))]] >>

-----------------------------------------------------------------------------
CONSTANTS
    MaxRequestLen,      \* MAX_AI_REQUEST_PRIVATE_PAYLOAD_LEN
    MaxChallengeLen,    \* MAX_AI_CHALLENGE_PAYLOAD_LEN
    MaxInlineLen,       \* MAX_AI_RESPONSE_PRIVATE_BODY_LEN
    NonceLen, TagLen,   \* of ChaCha20-Poly1305
    MaxRecipients,      \* MAX_PRIVATE_RECIPIENTS
    PrivateMagic,       \* PRIVATE_MAGIC and PRIVATE_VERSION
    BodyMark, TraceMark \* AI_RESPONSE_EXT_PRIVATE_BODY and AI_RESPONSE_EXT_TRACE

Field(name, len) == <<name, R!Fixed(len)>>

-----------------------------------------------------------------------------
\* AiRequestPayload.
request_header(p) ==
    p.model_id \o W!u32(p.max_tokens) \o W!u64(p.inference_reward) \o W!u64(p.priority_fee)

request_bytes(p) == request_header(p) \o p.prompt

request_of(b) ==
    IF Len(b) > MaxRequestLen THEN <<>>
    ELSE R!ReadHead(<< Field("model_id", HashLen), <<"max_tokens", R!u32>>, <<"inference_reward", R!u64>>,
                        <<"priority_fee", R!u64>> >>, b, "prompt")

\* AiChallengePayload.
challenge_bytes(p) ==
    p.response_hash \o W!u64(p.challenger_deposit) \o W!u16(p.challenger_spk_version)
        \o p.challenger_spk \o p.proof_data

challenge_of(b) ==
    IF Len(b) > MaxChallengeLen THEN <<>>
    ELSE R!ReadHead(<< Field("response_hash", HashLen), <<"challenger_deposit", R!u64>>,
                        <<"challenger_spk_version", R!Number(2)>>, Field("challenger_spk", HashLen) >>,
                     b, "proof_data")

-----------------------------------------------------------------------------
\* TraceCommitment, with a root over the tokens or without.
TraceLen == HashLen + 9

commitment_bytes(t) ==
    t.trace_root \o W!u32(t.n_prompt) \o W!u32(t.n_pos) \o W!u8(t.stage) \o FlattenSeq(t.tokens_root)

commitment_of(b) ==
    IF Len(b) \notin {TraceLen, TraceLen + HashLen} THEN <<>>
    ELSE R!ReadWhole(R!Fields(
            << Field("trace_root", HashLen), <<"n_prompt", R!u32>>, <<"n_pos", R!u32>>, <<"stage", R!u8>>,
               <<"tokens_root", R!Times(IF Len(b) = TraceLen THEN 0 ELSE 1, R!Hash)>> >>), b, 0)

\* AiResponsePayload: a head of fixed length, the responder and its signature,
\* and after those the inline answer and a trace commitment.
V1Len == 2 * HashLen + 14
V2Len == V1Len + 3 * HashLen
ExtHeaderLen == 5

v1_bytes(p) ==
    p.request_hash \o W!u64(p.challenge_window_end) \o p.response_ipfs_cid \o W!u32(p.response_length)

Extension(mark, data) == <<mark>> \o W!bytes32(data)

\* A commitment is written only after an inline answer.
extension_bytes(p) ==
    FlattenSeq([i \in DOMAIN p.private_body |->
        Extension(BodyMark, p.private_body[i])
            \o W!Each(LAMBDA t : Extension(TraceMark, commitment_bytes(t)), p.trace)])

\* Faulty: the head alone.
HeadOnly(p) == v1_bytes(p)

\* What the responder signs: all but its key and its signature.
signed_bytes(p) == v1_bytes(p) \o extension_bytes(p)

response_bytes(p) ==
    v1_bytes(p) \o W!Each(LAMBDA r : r.escrow_pubkey \o r.signature, p.responder) \o extension_bytes(p)

\* The commitment after an inline answer, every byte accounted for.
TraceExtension(ext) ==
    LET h == R!ReadHead(<< <<"mark", R!u8>>, <<"len", R!u32>> >>, ext, "data")[1]
    IN IF Len(ext) < ExtHeaderLen THEN <<>>
       ELSE IF h.mark # TraceMark \/ h.len # Len(h.data) THEN <<>> ELSE commitment_of(h.data)

\* The extensions of a response: the answer first, not empty, then at most the
\* commitment.
NoExtensions == [private_body |-> <<>>, trace |-> <<>>]

WithTrace(body, t) == IF t = <<>> THEN <<>> ELSE << [private_body |-> <<body>>, trace |-> t] >>

ExtensionsOf(h) ==
    IF h = <<>> THEN <<>>
    ELSE IF h[1].mark # BodyMark \/ Len(h[1].body) \notin 1 .. MaxInlineLen THEN <<>>
    ELSE IF h[1].rest = <<>> THEN << [NoExtensions EXCEPT !.private_body = <<h[1].body>>] >>
    ELSE WithTrace(h[1].body, TraceExtension(h[1].rest))

Extensions(ext) ==
    IF ext = <<>> THEN <<NoExtensions>>
    ELSE ExtensionsOf(R!ReadHead(<< <<"mark", R!u8>>, <<"body", R!bytes32>> >>, ext, "rest"))

WithExtensions(head, ext) ==
    IF ext = <<>> THEN <<>>
    ELSE << [f \in DOMAIN head \ {"ext"} |-> head[f]] @@ ext[1] >>

response_of(b) ==
    LET v2 == Len(b) >= V2Len
        head == R!ReadHead(<< Field("request_hash", HashLen), <<"challenge_window_end", R!u64>>,
                    Field("response_ipfs_cid", HashLen + 2), <<"response_length", R!u32>>,
                    <<"responder", R!Times(IF v2 THEN 1 ELSE 0,
                        R!Fields(<< Field("escrow_pubkey", HashLen), Field("signature", 2 * HashLen) >>))>> >>, b, "ext")[1]
    IN IF ~v2 /\ Len(b) # V1Len THEN <<>> ELSE WithExtensions(head, Extensions(head.ext))

-----------------------------------------------------------------------------
\* PrivateRequestEnvelope: the prompt of a private request.
is_private(b) == IsPrefix(Front(PrivateMagic), b)

WrappedLen == HashLen + TagLen

envelope_bytes(e) ==
    PrivateMagic \o e.ephemeral_pubkey \o e.nonce \o W!u8(Len(e.recipients))
        \o W!Each(LAMBDA r : r.escrow_pubkey \o r.wrapped_root_key, e.recipients) \o e.ciphertext

\* Keys compare byte by byte.
KeyBefore(a, b) == \E i \in DOMAIN a : a[i] < b[i] /\ \A j \in 1 .. i - 1 : a[j] = b[j]

\* Faulty: keys in any order.
AnyOrder(recipients) == TRUE

Ascending(recipients) ==
    \A i \in 1 .. Len(recipients) - 1 : KeyBefore(recipients[i].escrow_pubkey, recipients[i + 1].escrow_pubkey)

EnvelopeOf(e) ==
    IF e = <<>> THEN <<>>
    ELSE IF Len(e[1].ciphertext) < TagLen \/ ~Ascending(e[1].recipients) THEN <<>>
    ELSE << [f \in {"ephemeral_pubkey", "nonce", "recipients", "ciphertext"} |-> e[1][f]] >>

envelope_of(b) ==
    LET n == R!number(b, Len(PrivateMagic) + HashLen + 1 + NonceLen, 1)
        recipient == R!Fields(<< Field("escrow_pubkey", HashLen), Field("wrapped_root_key", WrappedLen) >>)
    IN IF ~IsPrefix(PrivateMagic, b) \/ ~n.ok THEN <<>>
       ELSE IF n.v \notin 1 .. MaxRecipients THEN <<>>
       ELSE EnvelopeOf(R!ReadHead(<< Field("magic", Len(PrivateMagic)), Field("ephemeral_pubkey", HashLen + 1),
                            Field("nonce", NonceLen), <<"n", R!u8>>, <<"recipients", R!Times(n.v, recipient)>> >>,
                         b, "ciphertext"))

\* PrivateResponseEnvelope: the inline answer of a response.
answer_bytes(e) == PrivateMagic \o e.nonce \o e.ciphertext

AnswerOf(e) ==
    IF e = <<>> THEN <<>>
    ELSE IF Len(e[1].ciphertext) < TagLen THEN <<>>
    ELSE << [nonce |-> e[1].nonce, ciphertext |-> e[1].ciphertext] >>

answer_of(b) ==
    IF ~IsPrefix(PrivateMagic, b) THEN <<>>
    ELSE AnswerOf(R!ReadHead(<< Field("magic", Len(PrivateMagic)), Field("nonce", NonceLen) >>, b, "ciphertext"))
=============================================================================
