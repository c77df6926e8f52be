\* Two connections and a restart.
SPECIFICATION Spec
CONSTANTS
    c1 = c1
    c2 = c2
    NoConn = NoConn
    Conn = {c1, c2}
    OutCap = 2
    MaxChunk = 3
    MaxRestart = 2
CHECK_DEADLOCK FALSE
INVARIANTS TypeOK NumbersDiffer NumbersFollowOutput OneSpoiled
PROPERTY ImplementsOutputLog
