------------------------------ MODULE SessionLife ------------------------------
(***************************************************************************)
(* What the relay's rows promise about the processes of the agent, without *)
(* messages, connections and goroutines: a process lives once; a row shows *)
(* it running only if it was started; an exit is recorded only when there  *)
(* is no process any more, and stays recorded.                             *)
(***************************************************************************)
CONSTANTS
    Session   \* sessions

VARIABLES
    life,     \* "new", "alive", "over", or "failed" without ever being alive
    shown,    \* sessions whose row says "running"
    recorded  \* sessions whose row has an exit code

vars == <<life, shown, recorded>>

Init ==
    /\ life = [s \in Session |-> "new"]
    /\ shown = {}
    /\ recorded = {}

Start(s) ==
    /\ life[s] = "new"
    /\ life' = [life EXCEPT ![s] = "alive"]
    /\ UNCHANGED <<shown, recorded>>

\* The end of some processes, and of the starts of others.
End(ended, failed) ==
    /\ \A s \in ended : life[s] = "alive"
    /\ \A s \in failed : life[s] = "new"
    /\ life' = [s \in Session |-> IF s \in ended THEN "over"
                                  ELSE IF s \in failed THEN "failed" ELSE life[s]]
    /\ UNCHANGED <<shown, recorded>>

\* Rows are set, to "running" or to something else.
Show(set) ==
    /\ \A s \in set \ shown : life[s] \in {"alive", "over"}
    /\ shown' = set
    /\ UNCHANGED <<life, recorded>>

Record(s) ==
    /\ life[s] \in {"over", "failed"}
    /\ recorded' = recorded \cup {s}
    /\ shown' = shown \ {s}
    /\ UNCHANGED life

Next ==
    \/ \E s \in Session : Start(s) \/ Record(s)
    \/ \E ended, failed \in SUBSET Session : End(ended, failed)
    \/ \E set \in SUBSET Session : Show(set)

Spec == Init /\ [][Next]_vars
================================================================================
