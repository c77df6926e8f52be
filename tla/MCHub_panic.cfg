\* A lookup and a send around the end of a connection.
SPECIFICATION Spec
CONSTANTS
    h1 = h1
    c1 = c1
    c2 = c2
    b1 = b1
    b2 = b2
    u1 = u1
    s1 = s1
    NoConn = NoConn
    Host <- MCHost
    HostConn = {c1}
    HostOf <- MCHostOf
    BrowserConn = {}
    UserOf <- MCUserOf
    Sender = {s1}
    SendCap = 1
INVARIANT NoSendPanic
