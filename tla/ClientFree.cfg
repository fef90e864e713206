CONSTANTS
    n1 = n1
    n2 = n2
    v1 = v1
    v2 = v2
    Node = {n1}
    Val = {v1}
    Absent = absent
    Failed = failed
    MayFail = TRUE
    MaxEvents = 3
    MaxNews = 2
    Rules = {}
SPECIFICATION Spec
INVARIANTS AnnouncedAreListed NoFault DisconnectReportedOnce
CHECK_DEADLOCK FALSE
