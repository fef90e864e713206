CONSTANTS
    Val = {0, 1}
    Absent = absent
    Failed = failed
    MaxEvents = 3
    MaxCalls = 2
    MaxProxies = 2
    Observances = {{"holds", "keepsClient"}, {}}
SPECIFICATION FairSpec
INVARIANTS TypeOK CalledOnce KnownIsTrue NoFault
PROPERTY CallsSettle
CHECK_DEADLOCK FALSE
