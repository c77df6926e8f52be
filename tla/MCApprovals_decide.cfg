\* Two API calls race over two requests of one session, whose readers overlap,
\* while a browser connects again and again.
SPECIFICATION Spec
CONSTANTS
    r1 = r1
    r2 = r2
    s1 = s1
    c1 = c1
    c2 = c2
    b1 = b1
    p1 = p1
    p2 = p2
    Nothing = Nothing
    Request = {r1, r2}
    Session = {s1}
    SessionOf <- MCSessionOf
    Plain = {r1}
    Conn = {c1, c2}
    Browser = {b1}
    Resolver = {p1, p2}
SYMMETRY Symmetry
INVARIANTS TypeOK ToldIsDecided TokensCurrent
PROPERTY ImplementsOneDecision
