----------------------------- MODULE TaskQueue -----------------------------
(***************************************************************************)
(* What httplib's TaskQueue promises its owner: a job that is handed over  *)
(* is done once, and shutdown returns when there is none left.             *)
(***************************************************************************)
CONSTANT Jobs

VARIABLES submitted, started, closed

vars == <<submitted, started, closed>>

Init == submitted = {} /\ started = {} /\ closed = FALSE

Submit(j) ==
    /\ ~closed /\ j \notin submitted
    /\ submitted' = submitted \cup {j}
    /\ UNCHANGED <<started, closed>>

Start(j) ==
    /\ ~closed /\ j \in submitted \ started
    /\ started' = started \cup {j}
    /\ UNCHANGED <<submitted, closed>>

Close ==
    /\ ~closed /\ started = submitted
    /\ closed' = TRUE
    /\ UNCHANGED <<submitted, started>>

Next == Close \/ \E j \in Jobs : Submit(j) \/ Start(j)

Spec == Init /\ [][Next]_vars
=============================================================================
