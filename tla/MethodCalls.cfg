CONSTANTS
    Method <- MCMethod
    MaxCalls = 2
    MaxRegistrations = 2
    MaxTables = 2
    MaxRuns = 2
    Observances = {{"replies", "drained"}, {}}
SPECIFICATION FairSpec
INVARIANTS TypeOK AnsweredOnce
PROPERTIES RunsIfGranted 
CHECK_DEADLOCK FALSE
