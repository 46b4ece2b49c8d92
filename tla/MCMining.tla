------------------------------ MODULE MCMining ------------------------------
(***************************************************************************)
(* Instances of Mining for TLC: a card that mines for a node, with faults;  *)
(* one that mines for a pool over two connections; a card of the old       *)
(* plugins beside a CPU thread.                                            *)
(***************************************************************************)
EXTENDS Mining

Workers == Gpu \cup Cpu
Values == (1 .. MaxJobs) \cup {None, Quit}

Solo ==
    [solo |-> TRUE, era |-> "pom", hangs |-> TRUE, blinks |-> FALSE, faults |-> TRUE, conns |-> 1, jobs |-> 2,
     workers |-> Gpu]
Pool ==
    [solo |-> FALSE, era |-> "v3", hangs |-> FALSE, blinks |-> TRUE, faults |-> FALSE, conns |-> 2, jobs |-> 2,
     workers |-> Gpu]
Plugin ==
    [solo |-> FALSE, era |-> "pow", hangs |-> FALSE, blinks |-> FALSE, faults |-> TRUE, conns |-> 1, jobs |-> 1,
     workers |-> Workers]
AllRigs == {Solo, Pool, Plugin}
=============================================================================
