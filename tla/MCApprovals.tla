------------------------------ MODULE MCApprovals ------------------------------
(* Instances of Approvals for TLC. *)
EXTENDS Approvals, TLC

CONSTANTS r1, r2, s1, c1, c2, b1, p1, p2

\* All requests belong to one session.
MCSessionOf == [r \in Request |-> s1]

Symmetry == Permutations(Resolver) \cup Permutations(Conn)
================================================================================
