------------------------------ MODULE MCSessions ------------------------------
(* Instances of Sessions for TLC. *)
EXTENDS Sessions

CONSTANTS s1, s2, c1, c2, c3
============================================================================
