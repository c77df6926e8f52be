------------------------------- MODULE Membership -------------------------------
(***************************************************************************)
(* What enrolment promises about who is a host, without calls, commands    *)
(* and faults: a token belongs to a host that was made for a code or an    *)
(* invite, an invite makes one host, no two machines have tokens of one    *)
(* code or invite, only hosts that are not deleted connect, and only the   *)
(* daemon of a host whose removal was begun leaves.                        *)
(***************************************************************************)
CONSTANTS
    Machine,
    Ticket,  \* codes and invites
    Once,    \* tickets that make one host only
    Host,    \* hosts and their tokens
    None

VARIABLES
    member,  \* of each host: "none", "live", "leaving" or "deleted"
    via,     \* the ticket each host was made for
    kept,    \* the token each machine has in its file
    run,     \* the token of the daemon it runs
    linked   \* machines whose daemon is connected

vars == <<member, via, kept, run, linked>>

Init ==
    /\ member = [h \in Host |-> "none"]
    /\ via = [h \in Host |-> None]
    /\ kept = [m \in Machine |-> None]
    /\ run = [m \in Machine |-> None]
    /\ linked = {}

Has(m) == {kept[m], run[m]} \ {None}

\* No machine but m has a token of ticket x.
HasAlone(m, x) == \A n \in Machine \ {m} : \A g \in Has(n) : via[g] # x

Give(m, h) == kept' = [kept EXCEPT ![m] = h]

\* A host is made for x; a machine may be given its token at once.
Admit(h, x) ==
    /\ member[h] = "none"
    /\ x \in Once => \A g \in Host : via[g] # x
    /\ member' = [member EXCEPT ![h] = "live"]
    /\ via' = [via EXCEPT ![h] = x]
    /\ UNCHANGED kept \/ \E m \in Machine : HasAlone(m, x) /\ Give(m, h)
    /\ UNCHANGED <<run, linked>>

Deliver(m, h) ==
    /\ member[h] # "none"
    /\ HasAlone(m, via[h])
    /\ Give(m, h)
    /\ UNCHANGED <<member, via, run, linked>>

\* The daemon is started with the token that is there, or stopped.
Start(m) ==
    /\ run' = [run EXCEPT ![m] = kept[m]]
    /\ linked' = linked \ {m}
    /\ UNCHANGED <<member, via, kept>>

Stop(m) ==
    /\ run' = [run EXCEPT ![m] = None]
    /\ linked' = linked \ {m}
    /\ UNCHANGED <<member, via, kept>>

Link(m) ==
    /\ run[m] # None
    /\ member[run[m]] \in {"live", "leaving"}
    /\ linked' = linked \cup {m}
    /\ UNCHANGED <<member, via, kept, run>>

Unlink(set) ==
    /\ linked' = linked \ set
    /\ UNCHANGED <<member, via, kept, run>>

\* The removal of h is begun, and ends.
Remove(h) ==
    /\ member[h] = "live"
    /\ member' = [member EXCEPT ![h] = "leaving"]
    /\ UNCHANGED <<via, kept, run, linked>>

Delete(h) ==
    /\ member[h] = "leaving"
    /\ member' = [member EXCEPT ![h] = "deleted"]
    /\ UNCHANGED <<via, kept, run, linked>>

\* A connected daemon forgets the token that is there, and stops.
Leave(m) ==
    /\ m \in linked
    /\ member[run[m]] \in {"leaving", "deleted"}
    /\ kept' = [kept EXCEPT ![m] = None]
    /\ run' = [run EXCEPT ![m] = None]
    /\ linked' = linked \ {m}
    /\ UNCHANGED <<member, via>>

Next ==
    \/ \E h \in Host : Remove(h) \/ Delete(h) \/ \E x \in Ticket : Admit(h, x)
    \/ \E m \in Machine : Start(m) \/ Stop(m) \/ Link(m) \/ Leave(m) \/ \E h \in Host : Deliver(m, h)
    \/ \E set \in SUBSET Machine : Unlink(set)

Spec == Init /\ [][Next]_vars
================================================================================
