\* Every fault, two connections, one session, an outgoing buffer of one message.
SPECIFICATION Spec
CONSTANTS
    s1 = s1
    s2 = s2
    c1 = c1
    c2 = c2
    c3 = c3
    NoConn = NoConn
    Session = {s1}
    Conn = {c1, c2}
    HubCap = 2
    OutCap = 1
    Faults = {"break", "restart", "crash", "cancel"}
CHECK_DEADLOCK FALSE
INVARIANTS TypeOK ExitIsTrue RunningWasSpawned RestoredByList
PROPERTIES StartedOnce ImplementsSessionLife
