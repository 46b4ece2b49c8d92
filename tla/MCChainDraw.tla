---------------------------- MODULE MCChainDraw ----------------------------
(***************************************************************************)
(* Instances of ChainDraw for TLC.  A reorganisation from "a1" to "b1"     *)
(* takes its seed block from the response "r1", which "g" has accepted,    *)
(* and its accepting block from "r2", which "b1" accepts again.            *)
(***************************************************************************)
EXTENDS ChainDraw

Parents == [b \in Block |->
    CASE b = "f" -> NoBlock [] b = "g" -> "f" [] b \in {"a1", "b1"} -> "g" [] b = "b2" -> "b1"]

Scores == [b \in Block |->
    CASE b = "f" -> 0 [] b = "g" -> 1 [] b = "a1" -> 2 [] b = "b1" -> 3 [] b = "b2" -> 4]

Accepting == [r \in Response |-> IF r = "r1" THEN {"g"} ELSE {"a1", "b1"}]
=============================================================================
