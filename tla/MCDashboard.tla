------------------------------ MODULE MCDashboard ------------------------------
(* Instances of Dashboard for TLC. *)
EXTENDS Dashboard, TLC

CONSTANTS h1, s1, a1, f1

OneHost == (s1 :> h1)
\* The host is enrolled, or is to be.
NewHost == {(h1 :> status) @@ (s1 :> "none") @@ (a1 :> "none") : status \in {"none", "offline"}}
==============================================================================
