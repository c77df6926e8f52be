--------------------------------- MODULE MCHub ---------------------------------
(* Instances of Hub for TLC: connections of one host that overlap, browsers   *)
(* that come and go, and callers of SendToHost.                               *)
EXTENDS Hub, TLC

CONSTANTS h1, c1, c2, b1, b2, u1, s1

MCHost == {h1}
MCHostOf == [c \in HostConn |-> h1]
MCUserOf == [x \in Host \cup BrowserConn |-> u1]
Symmetry == Permutations(HostConn) \cup Permutations(BrowserConn) \cup Permutations(Sender)
============================================================================
