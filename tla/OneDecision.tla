------------------------------ MODULE OneDecision ------------------------------
(***************************************************************************)
(* What the relay promises about approval requests, without its handlers,  *)
(* connections and restarts: a request that is asked is decided at most    *)
(* once, for good, and nobody hears of a decision before there is one.     *)
(***************************************************************************)
CONSTANTS
    Request,  \* approval requests
    Decision  \* what can be decided

VARIABLES
    outcome,  \* "none" before the request is there, "pending", or a decision
    told      \* requests somebody was told a decision of

vars == <<outcome, told>>

Init == outcome = [r \in Request |-> "none"] /\ told = {}

Ask(r) ==
    /\ outcome[r] = "none"
    /\ outcome' = [outcome EXCEPT ![r] = "pending"]
    /\ UNCHANGED told

Decide(r, d) ==
    /\ outcome[r] = "pending"
    /\ outcome' = [outcome EXCEPT ![r] = d]
    /\ UNCHANGED told

Tell(r) ==
    /\ outcome[r] \in Decision
    /\ told' = told \cup {r}
    /\ UNCHANGED outcome

Next ==
    \E r \in Request : Ask(r) \/ Tell(r) \/ \E d \in Decision : Decide(r, d)

Spec == Init /\ [][Next]_vars
================================================================================
