--------------------------- MODULE MCEscrowSystem ---------------------------
(***************************************************************************)
(* Instances of EscrowSystem for TLC.                                      *)
(*                                                                         *)
(* Tracking: blocks "A" and "B" with an output each; nothing stored.       *)
(* Claiming: stored outputs "g" and "x" and the output "i" of an AI        *)
(* request; the block of "g" is not on the chain.  All of these are of     *)
(* legacy windows, which drain at any size.                                *)
(* Beside the scenarios, every vector of up to MaxLen entries over the     *)
(* contents that the selection tells apart is grown one entry at a time;   *)
(* only these hold the outputs "c" and "j", of the current window.         *)
(***************************************************************************)
EXTENDS EscrowSystem

CONSTANT MaxLen

VARIABLE es        \* the vector that is grown

Blocks == [o \in Outpoint |-> CASE o = "a1" -> "A" [] o = "b1" -> "B" [] o = "c" -> "C"
                                [] o = "g" -> "G" [] o = "x" -> "X" [] OTHER -> NoBlock]
Windows == [o \in Outpoint |-> CASE o \in {"c", "j"} -> CurrentWindow [] o \in {"a1", "b1"} -> 3
                                 [] OTHER -> 1]
One    == [o \in Outpoint |-> 1]

Tracking ==
    [stored |-> <<>>, onChain |-> {}, trouble |-> {}, joining |-> {"A", "B"}, requests |-> {},
     changes |-> 4, refusals |-> 0, burns |-> 0]
Claiming ==
    [stored |-> <<Fresh("g", -Far), Fresh("x", -Far)>>, onChain |-> {"X"}, trouble |-> {},
     joining |-> {}, requests |-> {"i"} \cap Inference, changes |-> 0, refusals |-> 1, burns |-> 1]

\* The vectors are built in a scenario in which the miner rests.
Resting == [Tracking EXCEPT !.joining = {}, !.changes = 0]

AllScenarios ==
    {[Tracking EXCEPT !.trouble = {"readd"}],
     [Tracking EXCEPT !.trouble = {"reconnect"}, !.changes = 2],
     [Claiming EXCEPT !.refusals = 0], [Claiming EXCEPT !.requests = {}], Resting}

Settling == {Claiming}

-----------------------------------------------------------------------------
Now == 100

\* Outputs of the present and of a legacy window, of coinbases and requests.
Sample == [o : {"c", "x", "i", "j"}, claimed : {FALSE}, slashed : {FALSE}, dead : BOOLEAN,
           cap : 0..2, conf : {0}, retry : {0}]
          \cup [o : {"c"}, claimed : {FALSE}, slashed : {FALSE}, dead : {FALSE},
                cap : {0}, conf : {0}, retry : {Now + 1}]

MCInit == Init /\ es = <<>>

Track(e) == Len(es) < MaxLen /\ es' = Append(es, e)

MCNext ==
    \/ scenario /= Resting /\ Next /\ UNCHANGED es
    \/ scenario = Resting /\ (\E e \in Sample : Track(e)) /\ UNCHANGED vars

MCSpec == MCInit /\ [][MCNext]_<<vars, es>>

MCFairSpec == MCSpec /\ Fairness

-----------------------------------------------------------------------------

Legacy == 1

Selected == SelectClaimBatch(es, Now, {}, CurrentWindow)

-----------------------------------------------------------------------------
\* The loop of select_claim_batch, step by step.
Order(pass) ==
    IF pass = 0 THEN SelectSeq([i \in DOMAIN es |-> i], LAMBDA i : es[i].o \in Inference)
                     \o SelectSeq([i \in DOMAIN es |-> i], LAMBDA i : es[i].o \notin Inference)
                ELSE [i \in DOMAIN es |-> i]

Scan(c, acc, i) ==
    LET e == es[i]
        lim == IF Cap(e) < acc.limit THEN Cap(e) ELSE acc.limit
    IN IF \/ acc.full \/ ~InPass(e, c.pass, CurrentWindow) \/ ~Eligible(e, Now, {})
          \/ acc.window \notin {AnyWindow, WindowOf[e.o]} \/ lim < Len(acc.batch) + 1
         THEN acc
         ELSE [batch |-> Append(acc.batch, i), limit |-> lim, window |-> WindowOf[e.o],
               full |-> Len(acc.batch) + 1 >= lim]

LoopBatch(c) ==
    FoldLeft(LAMBDA acc, i : Scan(c, acc, i),
             [batch |-> <<>>, limit |-> MaxClaimBatch, window |-> c.window, full |-> FALSE],
             Order(c.pass)).batch

LoopCandidates ==
    SelectSeq(<<[pass |-> 0, window |-> CurrentWindow], [pass |-> 0, window |-> Legacy],
                [pass |-> 1, window |-> AnyWindow], [pass |-> 2, window |-> AnyWindow],
                [pass |-> 3, window |-> AnyWindow]>>,
              LAMBDA c : c \in Candidates(es))

Loop == LET ready == SelectSeq(LoopCandidates,
                               LAMBDA c : Releasable(c.pass, ToSet(LoopBatch(c))))
        IN IF ready = <<>> THEN <<>> ELSE LoopBatch(Head(ready))

\* The set-based selection of EscrowWatcher picks what the loop picks, in the
\* same input order, so that the claim txid is the same.
SelectionIsTheLoop == Selected = Loop

\* A batch can be signed and is worth its fee: one CSV window, live and dead
\* never mixed, capped and uncapped never mixed, no member in a batch larger
\* than its cap, and a partial batch only of capped, stranded or dead entries.
BatchIsSound ==
    \A i, j \in ToSet(Selected) :
        /\ WindowOf[es[i].o] = WindowOf[es[j].o]
        /\ es[i].dead = es[j].dead
        /\ ~es[i].dead => (es[i].cap = 0) = (es[j].cap = 0)
        /\ Len(Selected) <= Cap(es[i])
        /\ es[i].retry <= Now
        /\ \/ Len(Selected) = MaxClaimBatch
           \/ es[i].dead \/ es[i].cap /= 0 \/ WindowOf[es[i].o] /= CurrentWindow

\* "A held-back pass never starves the ones below": when nothing ships, every
\* entry that could be spent is waiting for a full batch of the current window.
NothingIsHeldBack ==
    Selected = <<>> =>
        LET able == {i \in DOMAIN es : Eligible(es[i], Now, {})}
        IN /\ Cardinality(able) < MaxClaimBatch
           /\ \A i \in able : /\ ~es[i].dead /\ es[i].cap = 0
                              /\ WindowOf[es[i].o] = CurrentWindow
\* The selection over any vector, and over those of the scenarios.
SelectionIsSound == SelectionIsTheLoop /\ BatchIsSound /\ NothingIsHeldBack
=============================================================================
