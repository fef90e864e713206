CONSTANTS
    id1 = id1
    ReplyId = {id1}
    NoId = noId
    Wired = FALSE
    MaxChanges = 1
    MaxCalls = 1
SPECIFICATION FairSpec
PROPERTY SyncMessageAnswered
CHECK_DEADLOCK FALSE
