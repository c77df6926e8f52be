\* One object of each kind, one fetch at a time, every fault.
SPECIFICATION Spec
CONSTANTS
    h1 = h1 s1 = s1 a1 = a1 f1 = f1
    Host = {h1}
    Session = {s1}
    Approval = {a1}
    HostOf <- OneHost
    Absent = Absent
    InitRows <- NewHost
    Fetch = {f1}
    SendCap = 2
    MaxChange = 2
    Faults = {"break", "net", "db"}
CHECK_DEADLOCK FALSE
INVARIANTS TypeOK ListsFollow
