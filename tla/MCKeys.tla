--------------------------------- MODULE MCKeys ---------------------------------
(* Instances of Keys for TLC. *)
EXTENDS Keys, TLC

CONSTANTS b1, b2, p1, p2, p3, c1, c2, c3, s1, s2, k1, k2, k3

\* One browser with two pages, and another one.
TwoTabs == (p1 :> b1 @@ p2 :> b1 @@ p3 :> b2)
CallEach == (c1 :> p1 @@ c2 :> p2 @@ c3 :> p3)
OnePage == (p1 :> b1)
OneCall == (c1 :> p1)
================================================================================
