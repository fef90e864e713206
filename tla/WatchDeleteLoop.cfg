CONSTANTS
    byName = byName
    anySender = anySender
    nameOwner = nameOwner
    changed = changed
    Key <- MCKey
    Named = {byName}
    NameKey = nameOwner
    Signal = {changed}
    MatchedBy <- MCMatchedBy
    Sender = {s1}
    Unknown = unknown
    Nobody = nobody
    MaxWatches = 4
    MaxFilters = 4
    MaxInstalled = 2
    WithDestroy = {1}
    Observances = {{"returnsTrue", "noRemoveAll", "adds", "removes", "keepsLast"}}
SPECIFICATION Spec
INVARIANT DeleteLoopEnds
CHECK_DEADLOCK FALSE
