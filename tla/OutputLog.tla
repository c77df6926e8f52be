------------------------------- MODULE OutputLog -------------------------------
(***************************************************************************)
(* What the relay promises about the output it keeps of a session, without *)
(* goroutines and connections: a log to which one counter numbers what is  *)
(* appended, in the order of each source, until the counter is lost; any   *)
(* entry may be lost.                                                      *)
(***************************************************************************)
EXTENDS Naturals

CONSTANTS
    Chunk,   \* pieces of output, in the order they were produced
    Source   \* the ways they arrive

VARIABLES
    log,     \* the entries kept, or about to be
    counter, \* the last number given
    epoch    \* how often the counter was lost

vars == <<log, counter, epoch>>

Init == log = {} /\ counter = 0 /\ epoch = 0

\* n follows everything its source has brought since the counter was lost.
Add(n, c) ==
    /\ \A e \in log : e.epoch = epoch /\ e.conn = c => e.n < n
    /\ counter' = counter + 1
    /\ log' = log \cup {[n |-> n, seq |-> counter + 1, conn |-> c, epoch |-> epoch]}
    /\ UNCHANGED epoch

Lose ==
    /\ log' \subseteq log
    /\ UNCHANGED <<counter, epoch>>

Reset ==
    /\ log' \subseteq log
    /\ counter' = 0
    /\ epoch' = epoch + 1

Next == (\E n \in Chunk, c \in Source : Add(n, c)) \/ Lose \/ Reset

Spec == Init /\ [][Next]_vars
================================================================================
