------------------------------ MODULE MCStratum ------------------------------
(* Instances of Stratum for TLC. *)
EXTENDS Stratum

Tasks == [reads |-> TRUE, models |-> TRUE, private |-> 9, seeded |-> 9,
          jobs |-> 2, shares |-> 1, requests |-> 1]
Asks == [Tasks EXCEPT !.jobs = 1, !.shares = 0, !.requests = 2]
Private == [Tasks EXCEPT !.private = 2, !.seeded = 2, !.requests = 0]
Bare == [Tasks EXCEPT !.models = FALSE]
Reading == {Tasks, Asks, Private, Bare}
=============================================================================
