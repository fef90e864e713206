CONSTANTS
    id1 = id1
    ReplyId = {id1}
    NoId = noId
    Wired = TRUE
    MaxChanges = 3
    MaxCalls = 2
SPECIFICATION Spec
INVARIANTS TypeOK FirstDeliveriesInOrder
PROPERTY ReadyOnlyOnTrouble
CHECK_DEADLOCK FALSE
