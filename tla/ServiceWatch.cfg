CONSTANTS
    w1 = w1
    w2 = w2
    Watch = {w1, w2}
    Conn = {w1}
    Disc = {w1, w2}
    Owner = {o1, o2}
    Nobody = nobody
    Unknown = unknown
    NoFilter = noFilter
    MaxChanges = 4
SPECIFICATION FairSpec
INVARIANTS TypeOK BeliefSettles
PROPERTIES NoCallAfterRemoval OwnerIsLearned
CHECK_DEADLOCK FALSE
