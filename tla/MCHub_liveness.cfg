\* One connection of each kind: does every goroutine end?
SPECIFICATION FairSpec
CONSTANTS
    h1 = h1
    c1 = c1
    c2 = c2
    b1 = b1
    b2 = b2
    u1 = u1
    s1 = s1
    NoConn = NoConn
    Host <- MCHost
    HostConn = {c1}
    HostOf <- MCHostOf
    BrowserConn = {b1}
    UserOf <- MCUserOf
    Sender = {s1}
    SendCap = 1
PROPERTY NoGoroutineLeak
