------------------------------ MODULE MCEnrolment ------------------------------
(* Instances of Enrolment for TLC. *)
EXTENDS Enrolment

CONSTANTS m1, m2, d1, d2, i1, i2, h1, h2, h3, p1, p2
================================================================================
