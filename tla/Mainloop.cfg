CONSTANTS
    MaxSignals = 1
    MaxCalls = 2
    Observances = {{"oneFunction", "givesRef", "onlyReads", "freeName"}, {}}
SPECIFICATION FairSpec
INVARIANTS TypeOK DispatchIsQueued NoFault
PROPERTY EndsAreHeard
CHECK_DEADLOCK FALSE
