\* Two tabs of one browser and another browser, every fault.
SPECIFICATION Spec
CONSTANTS
    b1 = b1 b2 = b2 p1 = p1 p2 = p2 p3 = p3 c1 = c1 c2 = c2 c3 = c3
    s1 = s1 s2 = s2 k1 = k1 k2 = k2 k3 = k3
    NoKey = NoKey
    NoSession = NoSession
    Browser = {b1, b2}
    Page = {p1, p2, p3}
    Call = {c1, c2, c3}
    BrowserOf <- TwoTabs
    PageOf <- CallEach
    Session = {s1}
    Key = {k1, k2, k3}
    Parsed = {"ecdh", "ecdsa"}
    Faults = {"net", "db", "idb", "lost", "close"}
CHECK_DEADLOCK FALSE
INVARIANTS TypeOK StdinIsTyped KeyIsHeld CachedWasStored
