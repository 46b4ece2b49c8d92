---------------------------- MODULE MCAlgorithms ----------------------------
(***************************************************************************)
(* The algorithms that share no state with the rest of the miner, each on  *)
(* its own instance and in its own part of the state space: proofs of the  *)
(* model, the audit of the leaves of a trace and of its sequence leaves,   *)
(* the bytes of openings and payloads, private inference.                  *)
(***************************************************************************)
EXTENDS ProofOfModel, FiniteSets

CONSTANTS
    P, WChunk, Block, RowPad, FragmentBlocks, Ubatch, MmvqMaxBatch, PeakOverMedian, WeightSteps, PrefixLen,
    BlockBudget, RecurRows,
    Radix, HashLen, SignatureLen, MaxBodyLen, BundleMark, Magic,
    MaxRequestLen, MaxChallengeLen, MaxInlineLen, NonceLen, TagLen, MaxRecipients, PrivateMagic, BodyMark, TraceMark,
    Miner, Prompts, Headers, RecipientLen, FixedLen, MaxPayloadLen

VARIABLES
    part,                                               \* the algorithm looked at, never changed
    case, dev, record, draw, verdict,                   \* of both audits
    trace,                                              \* of the leaves of a trace
    rows, outs, sq, path, step, mine, prev,             \* of sequence leaves
    kind, value, body, how,                             \* of bytes
    payload, opened, answers                            \* of private inference, with asked

auditVars   == <<case, dev, record, draw, verdict>>
seqVars     == <<rows, outs, sq, path, step, mine, prev>>
byteVars    == <<kind, value, body, how>>
privateVars == <<payload, opened, answers>>

Traces  == INSTANCE MCTraceAudit
Seqs    == INSTANCE MCSeqAudit
Bytes   == INSTANCE MCPayloads
Private == INSTANCE PrivateInference

(* A tree that keeps one level in two, tiles of four chunks and columns of   *)
(* two, walks of three steps.  The models have 3, 7 and 9 chunks: fewer than *)
(* a tile, tiles and a rest, widths that repeat the last node on several     *)
(* levels; one has an empty tensor and the data out of name order.           *)
One(n) == [tensors |-> <<[full |-> n, at |-> 1]>>, bad |-> {}]
Two(a, b) == [tensors |-> <<[full |-> a, at |-> b + 1], [full |-> 0, at |-> 1], [full |-> b, at |-> 1]>>, bad |-> {}]

MCGgufs == {One(n) : n \in {3, 9}} \cup {Two(3, 4)}

Candidate(eras, seeds, hit, lockstep) ==
    [era : eras, seed : seeds, nonce : {1}, hit : {hit}, lockstep : {lockstep}]

MCCandidates ==
    Candidate({"v1", "v2", "v3", "v4"}, {8}, TRUE, TRUE) \cup Candidate({"v5"}, {5, 8}, TRUE, TRUE)
        \cup Candidate({"v3"}, {8}, FALSE, TRUE) \cup Candidate({"v3"}, {8}, TRUE, FALSE)

MCJobs ==
    {[kind |-> "full", task |-> <<"root">>, network |-> TRUE],
     [kind |-> "share", task |-> <<"root">>, network |-> FALSE]}

(* With the walk of the code, 256 steps, whatever share of the tiles the pad *)
(* has: the first step reads weights, as its offset is drawn among them, and *)
(* exactly as many steps as computed read the pad.                           *)
RealSteps == 256

ASSUME PadStepsAreSpread ==
    \A p \in 1 .. RealSteps - 1 :
        /\ ~IsPadStep(1, p, RealSteps)
        /\ Cardinality({s \in 1 .. RealSteps : IsPadStep(s, p, RealSteps)}) = p

-----------------------------------------------------------------------------
MCMagic == <<11, 10, 12, 11>>
MCPrivateMagic == <<0, 10, 11, 12, 1>>

\* Keys of both parities, ephemeral points of both parities, cohorts named in
\* and out of order and twice, too many recipients and too long a prompt.
MCMiner == {[name |-> 1, odd |-> FALSE], [name |-> 2, odd |-> TRUE], [name |-> 3, odd |-> TRUE]}

MCHeaders == {"h", "k"}

MCPrompts ==
    [schedule : {1, 2}, seed : {4, 5}, cohort : {<<>>, <<3>>, <<2, 1>>, <<1, 3, 1>>, <<1, 2, 3>>},
     prompt : {0, 1, 2}, header : {"h"}]

ASSUME BytesAssumption == Bytes!CodecConstants
ASSUME TracesAssumption == Traces!SizesAssumption
ASSUME SeqsAssumption == Seqs!BudgetAssumption /\ Seqs!RecurRowsAssumption

-----------------------------------------------------------------------------
NoPom == /\ gguf = <<>> /\ tree = <<>> /\ dense = <<>> /\ memo = <<>> /\ uses = 0
         /\ vram = {} /\ job = <<>> /\ cand = <<>> /\ block = <<>>
NoAudit == case = <<>> /\ dev = <<>> /\ record = <<>> /\ draw = <<>> /\ verdict = <<>>
NoTrace == trace = <<>>
NoSeq == rows = <<>> /\ outs = <<>> /\ sq = <<>> /\ path = <<>> /\ step = <<>> /\ mine = <<>> /\ prev = <<>>
NoBytes == kind = <<>> /\ value = <<>> /\ body = <<>> /\ how = <<>>
NoPrivate == payload = <<>> /\ opened = <<>> /\ answers = <<>>

MCInit ==
    \/ part = "pom"     /\ Init /\ NoAudit /\ NoTrace /\ NoSeq /\ NoBytes /\ NoPrivate
    \/ part = "trace"   /\ Traces!Init /\ NoPom /\ asked = <<>> /\ NoSeq /\ NoBytes /\ NoPrivate
    \/ part = "seq"     /\ Seqs!Init /\ NoPom /\ asked = <<>> /\ NoTrace /\ NoBytes /\ NoPrivate
    \/ part = "bytes"   /\ Bytes!Init /\ NoPom /\ asked = <<>> /\ NoAudit /\ NoTrace /\ NoSeq /\ NoPrivate
    \/ part = "private" /\ Private!Init /\ NoPom /\ NoAudit /\ NoTrace /\ NoSeq /\ NoBytes

MCNext ==
    \/ part = "pom" /\ Next /\ UNCHANGED <<part, auditVars, trace, seqVars, byteVars, privateVars>>
    \/ part = "trace" /\ Traces!Next /\ UNCHANGED <<part, vars, seqVars, byteVars, privateVars>>
    \/ part = "seq" /\ Seqs!Next /\ UNCHANGED <<part, vars, trace, byteVars, privateVars>>
    \/ part = "bytes" /\ Bytes!Next /\ UNCHANGED <<part, vars, auditVars, trace, seqVars, privateVars>>
    \/ part = "private" /\ Private!Next
          /\ UNCHANGED <<part, gguf, tree, dense, memo, uses, vram, job, cand, block, auditVars, trace, seqVars, byteVars>>

MCSpec == MCInit /\ [][MCNext]_<<part, vars, auditVars, trace, seqVars, byteVars, privateVars>>

-----------------------------------------------------------------------------
(* The properties of each part, as its module states them.                  *)

\* Paths of the index of the weights (WeightTree).
PathsAreOfTheModel == part = "pom" => PathsAreCanonical

\* Blocks that leave (ProofOfModel).
BlocksAreProved == part = "pom" => HonestBlockIsAccepted /\ OnlyTrueProofsLeave

\* Audits of honest runs: the miner opens what the verifier accepts
\* (TraceAudit, SeqAudit).
HonestRunsAreAccepted ==
    /\ part = "trace" => Traces!HonestOpeningIsAccepted
    /\ part = "seq" => Seqs!HonestPointsAreAccepted

\* Audits of runs with one deviating value: a point that reaches it is rejected
\* (TraceAudit, SeqAudit).
DeviationsAreCaught ==
    /\ part = "trace" => Traces!DeviationIsCaught
    /\ part = "seq" => Seqs!DeviationIsCaught

\* Openings, payloads and envelopes as bytes (Payloads).
BodiesAreRead == part = "bytes" => Bytes!BodiesAreReadBack

\* Sealed requests and answers (PrivateInference).
SealedForItsReader == part = "private" => Private!CohortReadsThePrompt /\ Private!AnswerIsOfItsAuthor
=============================================================================
