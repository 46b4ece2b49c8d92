--------------------------- MODULE PrivateInference ---------------------------
(***************************************************************************)
(* Private inference (inference/src/private.rs): a prompt sealed to the    *)
(* escrow keys of a cohort, opened by each of them, and an answer sealed   *)
(* back to the requester.                                                  *)
(*                                                                         *)
(* The primitives are external and perfect: a key is the term it is        *)
(* derived from, a ciphertext the term of key, nonce, message and          *)
(* associated data it was made of, and it opens with exactly those.  A     *)
(* secret scalar has a name and the parity of its point; ECDH yields the   *)
(* unordered pair of names and the parity of the shared point.             *)
(***************************************************************************)
EXTENDS Integers, Sequences, FiniteSets, SequencesExt

CONSTANTS
    Miner,              \* escrow secrets: [name : Nat, odd : BOOLEAN]
    Prompts,            \* requests to seal: [schedule, seed, cohort (names, as given), prompt (its length), header]
    Headers,            \* headers a request may arrive with
    MaxRecipients,      \* MAX_PRIVATE_RECIPIENTS
    RecipientLen,       \* PRIVATE_RECIPIENT_ENTRY_LEN
    FixedLen,           \* request header, envelope header and tag
    MaxPayloadLen       \* MAX_AI_REQUEST_PRIVATE_PAYLOAD_LEN

VARIABLES
    asked,      \* the request of the requester, with the secret it keeps
    payload,    \* the AiRequest as the miners see it, or NotSealed
    opened,     \* what each miner made of it
    answers     \* the bodies published: by whom, for which request

vars == <<asked, payload, opened, answers>>

-----------------------------------------------------------------------------
\* External: HKDF, ECDH on secp256k1 and ChaCha20-Poly1305.  A secret value is a
\* term: what it was derived from, or its own name when it was drawn.

hkdf(salt, ikm, info) == [salt |-> salt, ikm |-> ikm, info |-> info]
Drawn(name) == hkdf(0, <<>>, name)

PointOf(secret) == secret
negate(secret) == [secret EXCEPT !.odd = ~@]
SharedSecret(point, secret) == Drawn(<<"ecdh", {point.name, secret.name}, point.odd # secret.odd>>)

aead_encrypt(key, nonce, msg, aad) == [key |-> key, nonce |-> nonce, msg |-> msg, aad |-> aad]

aead_decrypt(key, nonce, c, aad) ==
    IF c.key = key /\ c.nonce = nonce /\ c.aad = aad THEN <<c.msg>> ELSE <<>>

\* The even point of an x-only key, which is the name of its secret.
lift_x(name) == [name |-> name, odd |-> FALSE]

-----------------------------------------------------------------------------
\* Faulty: the same keys whatever the responder shares with the requester.
response_keyOfRoot(schedule, shared, root, responder) == hkdf(schedule, <<root>>, <<"response", responder>>)

\* response_key_v1 is derived from what every recipient unwraps, response_key_v2
\* from the secret of requester and responder as well.
response_key(schedule, shared, root, responder) ==
    hkdf(schedule, IF schedule = 1 THEN <<root>> ELSE <<shared, root>>, <<"response", responder>>)

\* Schedule 1 draws root key and ephemeral secret; schedule 2 derives them.
root_key(s) ==
    IF s.schedule = 1 THEN Drawn(<<"root", s.seed>>) ELSE hkdf(2, <<Drawn(<<"seed", s.seed>>)>>, <<"root">>)

\* A name no miner has, another one for each schedule and seed.
ephemeral_secret(s) == [name |-> 0 - (10 * s.seed + s.schedule), odd |-> s.seed % 2 = 1]

kek(schedule, shared, ephemeral, name) == hkdf(schedule, <<shared>>, <<"kek", ephemeral, name>>)

max_private_prompt_len(n) ==
    LET rest == MaxPayloadLen - FixedLen - n * RecipientLen IN IF rest < 0 THEN 0 ELSE rest

\* What the ciphertext of a prompt is bound to: both headers.
EnvelopeHead(e) == [ephemeral |-> e.ephemeral, nonce |-> e.nonce, recipients |-> e.recipients]

\* seal_payload: the request with its envelope, or none when the cohort is empty
\* or too large, or the prompt too long for it.
seal_payload(s) ==
    LET keys == SetToSortSeq(ToSet(s.cohort), <)
        e == ephemeral_secret(s)
        head == [ephemeral |-> PointOf(e), nonce |-> s.seed,
                 recipients |-> [i \in DOMAIN keys |->
                     [key |-> keys[i],
                      wrapped |-> aead_encrypt(kek(s.schedule, SharedSecret(lift_x(keys[i]), e), PointOf(e), keys[i]),
                                               s.seed, root_key(s), s.header)]]]
    IN IF keys = <<>> \/ Len(keys) > MaxRecipients \/ s.prompt > max_private_prompt_len(Len(keys)) THEN <<>>
       ELSE << [header |-> s.header, head |-> head,
                ciphertext |-> aead_encrypt(hkdf(s.schedule, <<root_key(s)>>, <<"prompt">>), s.seed, s.prompt,
                                            <<s.header, head>>)] >>

\* PrivateRequestEnvelope::parse: recipients, not too many, strictly ascending.
parse(p) ==
    LET keys == [i \in DOMAIN p.head.recipients |-> p.head.recipients[i].key]
    IN /\ Len(keys) \in 1 .. MaxRecipients
       /\ \A i \in 1 .. Len(keys) - 1 : keys[i] < keys[i + 1]

\* Faulty: the secret is used as it is.
AsItIs(secret) == secret

\* The secret of the even point of the key.
even_secret(secret) == IF secret.odd THEN negate(secret) ELSE secret

\* open_request: an error, or the prompt, the key for the answer and the index.
\* The schedule is the one whose key unwraps the root key.
open_request(p, secret) ==
    LET name == secret.name
        rs == p.head.recipients
        mine == {i \in DOMAIN rs : rs[i].key = name}
        index == CHOOSE i \in mine : TRUE
        shared == SharedSecret(p.head.ephemeral, even_secret(secret))
        root(schedule) == aead_decrypt(kek(schedule, shared, p.head.ephemeral, name), p.head.nonce,
                                       rs[index].wrapped, p.header)
        schedules == {s \in {1, 2} : root(s) # <<>>}
        schedule == CHOOSE s \in schedules : \A r \in schedules : s >= r
        prompt == aead_decrypt(hkdf(schedule, <<root(schedule)[1]>>, <<"prompt">>), p.head.nonce,
                               p.ciphertext, <<p.header, p.head>>)
    IN IF ~parse(p) THEN [error |-> "Malformed"]
       ELSE IF mine = {} THEN [error |-> "NotARecipient"]
       ELSE IF schedules = {} \/ prompt = <<>> THEN [error |-> "Authentication"]
       ELSE [error |-> "none", prompt |-> prompt[1], index |-> index,
             key |-> response_key(schedule, shared, root(schedule)[1], name)]

\* Faulty: the answer is not bound to its request.
AadOfResponder(request, responder) == <<responder>>

response_aad(request, responder) == <<request, responder>>

\* seal_response, under a fresh nonce.
seal_response(key, responder, request, answer, nonce) ==
    aead_encrypt(key, nonce, answer, response_aad(request, responder))

\* open_response, with the secret the requester kept.
open_response(s, request, responder, body) ==
    LET shared == SharedSecret(lift_x(responder), ephemeral_secret(s))
    IN aead_decrypt(response_key(s.schedule, shared, root_key(s), responder), body.nonce, body,
                    response_aad(request, responder))

-----------------------------------------------------------------------------
NotSealed == [header |-> "none"]
Unopened == [error |-> "unopened"]

Init ==
    /\ asked \in Prompts
    /\ payload = NotSealed
    /\ opened = [m \in Miner |-> Unopened]
    /\ answers = {}

\* seal_request; the header that arrives may not be the one that was sealed.
Seal ==
    /\ payload = NotSealed
    /\ \E p \in ToSet(seal_payload(asked)), h \in Headers : payload' = [p EXCEPT !.header = h]
    /\ UNCHANGED <<asked, opened, answers>>

Open(m) ==
    /\ payload # NotSealed /\ opened[m] = Unopened
    /\ opened' = [opened EXCEPT ![m] = open_request(payload, m)]
    /\ UNCHANGED <<asked, payload, answers>>

\* A miner that opened the request answers it, under the hash of the request it saw.
Answer(m) ==
    /\ opened[m].error = "none"
    /\ answers' = answers \cup
           {[by |-> m.name, request |-> payload,
             body |-> seal_response(opened[m].key, m.name, payload, m.name, m.name)]}
    /\ UNCHANGED <<asked, payload, opened>>

Next == Seal \/ \E m \in Miner : Open(m) \/ Answer(m)

Spec == Init /\ [][Next]_vars

-----------------------------------------------------------------------------
\* Every miner of the cohort reads the prompt of a request whose header is the
\* one that was sealed, whatever the parity of its key and the order in which it
\* was named; no other miner does, and a changed header is refused.
CohortReadsThePrompt ==
    \A m \in Miner :
        opened[m] # Unopened =>
            IF m.name \notin ToSet(asked.cohort) THEN opened[m].error = "NotARecipient"
            ELSE IF payload.header # asked.header THEN opened[m].error = "Authentication"
            ELSE /\ opened[m].error = "none" /\ opened[m].prompt = asked.prompt
                 /\ payload.head.recipients[opened[m].index].key = m.name

\* The requester reads every answer as one of its author to its request, and as
\* nobody else's.  Under the second schedule no other recipient holds what the
\* key of an answer is derived from.
AnswerIsOfItsAuthor ==
    \A a \in answers :
        /\ \A m \in Miner : open_response(asked, payload, m.name, a.body)
                               = IF m.name = a.by THEN <<a.by>> ELSE <<>>
        /\ open_response(asked, [payload EXCEPT !.header = "other"], a.by, a.body) = <<>>
        /\ asked.schedule = 2 =>
              \A m \in Miner : m.name # a.by =>
                  ~(ToSet(a.body.key.ikm) \subseteq {root_key(asked), SharedSecret(payload.head.ephemeral, even_secret(m))})
=============================================================================
