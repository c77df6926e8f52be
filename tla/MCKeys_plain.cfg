\* One page and two sessions, with the type Go's library returns.
SPECIFICATION Spec
CONSTANTS
    b1 = b1 p1 = p1 c1 = c1 s1 = s1 s2 = s2 k1 = k1 k2 = k2
    b2 = b2 p2 = p2 p3 = p3 c2 = c2 c3 = c3 k3 = k3
    NoKey = NoKey
    NoSession = NoSession
    Browser = {b1}
    Page = {p1}
    Call = {c1}
    BrowserOf <- OnePage
    PageOf <- OneCall
    Session = {s1, s2}
    Key = {k1, k2}
    Parsed = {"ecdsa"}
    Faults = {}
CHECK_DEADLOCK FALSE
INVARIANT EncryptedIfKey
