CONSTANTS
    n1 = n1
    n2 = n2
    v1 = v1
    v2 = v2
    Node = {n1, n2}
    Val = {v1, v2}
    Absent = absent
    Failed = failed
    MayFail = FALSE
    MaxEvents = 4
    MaxNews = 0
    Rules = {"exits", "handlers", "noProxyNew"}
SPECIFICATION FairSpec
INVARIANTS TypeOK ProxiesAgree
PROPERTY ReadyInTheEnd
CHECK_DEADLOCK FALSE
