CONSTANTS
    byName = byName
    anySender = anySender
    nameOwner = nameOwner
    changed = changed
    Key <- MCKey
    Named = {byName}
    NameKey = nameOwner
    Signal = {changed}
    MatchedBy <- MCMatchedBy
    Sender = {s1}
    Unknown = unknown
    Nobody = nobody
    MaxWatches = 5
    MaxFilters = 5
    MaxInstalled = 2
    WithDestroy = {1}
    Observances = {{"returnsTrue", "oneEmptied", "noRemoveAll", "adds", "removes", "keepsLast"},
                   {"noRemoveAll"},
                   {"returnsTrue", "oneEmptied", "adds", "keepsLast"}}
SPECIFICATION Spec
INVARIANTS TypeOK WatchesAreHeld BusMatchesFilters DeliveredOnce NoFault
CHECK_DEADLOCK FALSE
