------------------------------ MODULE MCGpuCards ------------------------------
(***************************************************************************)
(* Instances of GpuCards for TLC: a single card that serves, with failures;*)
(* two cards of one tier that cross an era; two cards that serve.          *)
(***************************************************************************)
EXTENDS GpuCards

\* The tier's model changes from "a" to "b" at the gate.
Crossing == <<[c \in Card |-> "a"], [c \in Card |-> "b"]>>
Tiers == <<[m \in Model |-> IF m = "a" THEN 2 ELSE 0], [m \in Model |-> IF m = "b" THEN 2 ELSE 0]>>

Both == {"request", "opening"}
Single == [cards |-> {0}, start |-> 1, failures |-> 2, stuck |-> TRUE, serves |-> Both]
Pair == [cards |-> {0, 1}, start |-> 1, failures |-> 0, stuck |-> TRUE, serves |-> {}]
PairServing ==
    [cards |-> {0, 1}, start |-> 2, failures |-> 1, stuck |-> TRUE, serves |-> {"request"}]
AllRigs == {Single, Pair, PairServing}
=============================================================================
