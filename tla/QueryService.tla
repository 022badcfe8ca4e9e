---------------------------- MODULE QueryService ----------------------------
(***************************************************************************)
(* What tg::Client promises to those who call send_query_async: a future   *)
(* is asked for once, gets the answer of its own query, and keeps it.      *)
(***************************************************************************)
CONSTANT Queries

VARIABLE futures

Fresh == [st |-> "none", of |-> 0]
Asked == [st |-> "waiting", of |-> 0]
Answered(q) == [st |-> "ready", of |-> q]

Init == futures = [q \in Queries |-> Fresh]

Ask(q) ==
    /\ futures[q] = Fresh
    /\ futures' = [futures EXCEPT ![q] = Asked]

Answer(q) ==
    /\ futures[q] = Asked
    /\ futures' = [futures EXCEPT ![q] = Answered(q)]

Next == \E q \in Queries : Ask(q) \/ Answer(q)

Spec == Init /\ [][Next]_futures
=============================================================================
