\* One connection that holds: the last chunk against the report of the exit.
SPECIFICATION Spec
CONSTANTS
    c1 = c1
    c2 = c2
    NoConn = NoConn
    Conn = {c1}
    OutCap = 4
    MaxChunk = 3
    MaxRestart = 0
CHECK_DEADLOCK FALSE
INVARIANT ReplayIsOrdered
