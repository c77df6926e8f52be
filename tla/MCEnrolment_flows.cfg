\* Two machines, one code, one invite, every fault.
SPECIFICATION FairSpec
CONSTANTS
    m1 = m1
    m2 = m2
    d1 = d1
    d2 = d2
    i1 = i1
    i2 = i2
    h1 = h1
    h2 = h2
    h3 = h3
    p1 = p1
    p2 = p2
    None = None
    Machine = {m1, m2}
    Code = {d1}
    Invite = {i1}
    Host = {h1, h2}
    Call = {p1, p2}
    Faults = {"restart", "lost", "cancel"}
CHECK_DEADLOCK FALSE
INVARIANTS TypeOK TokensAreKnown InviteMakesOne ToldIsDoomed OneMachinePerToken
PROPERTIES AuthorizedOnce PollIsAnswered ImplementsMembership
