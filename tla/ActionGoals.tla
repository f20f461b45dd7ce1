----------------------------- MODULE ActionGoals -----------------------------
(****************************************************************************)
(* What an action server that executes one goal at a time promises: a goal   *)
(* is accepted or rejected once, at most one goal is executing, and an       *)
(* executing goal ends with one result, which is final.                      *)
(****************************************************************************)
CONSTANT Goals

VARIABLE goal  \* the state of every goal

States == {"unsent", "rejected", "executing", "aborted", "canceled", "succeeded"}
Executing == {g \in Goals : goal[g] = "executing"}

Init == goal = [g \in Goals |-> "unsent"]

Reject(g) ==
    /\ goal[g] = "unsent"
    /\ goal' = [goal EXCEPT ![g] = "rejected"]

Execute(g) ==
    /\ goal[g] = "unsent"
    /\ Executing = {}
    /\ goal' = [goal EXCEPT ![g] = "executing"]

Conclude(g, result) ==
    /\ goal[g] = "executing"
    /\ goal' = [goal EXCEPT ![g] = result]

Next == \E g \in Goals :
            \/ Reject(g)
            \/ Execute(g)
            \/ \E r \in {"aborted", "canceled", "succeeded"} : Conclude(g, r)

Spec == Init /\ [][Next]_goal
=============================================================================
