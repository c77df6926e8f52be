\* One connection that never breaks, reports that never overflow, two sessions, of
\* which the relay can send one message at a time.
SPECIFICATION FairSpec
CONSTANTS
    s1 = s1
    s2 = s2
    c1 = c1
    c2 = c2
    c3 = c3
    NoConn = NoConn
    Session = {s1, s2}
    Conn = {c1}
    HubCap = 1
    OutCap = 4
    Faults = {}
CHECK_DEADLOCK FALSE
INVARIANT QuietAgrees
PROPERTIES ExitIsFinal CreateSettles
