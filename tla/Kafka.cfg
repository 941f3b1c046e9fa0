SPECIFICATION FairSpec
CONSTANTS
    a = a
    b = b
    c = c
    d = d
    NoId = NoId
    Messages <- AllMessages
    Partitions = {0, 1}
    Log <- TwoLogs
    Id <- Positions
    Fate <- Usable
    Committed0 <- FromZero
    OffsetBits = 4
    BitOr <- IntegerOr
    Strict = TRUE
    Idempotent = TRUE
    SinkFails = TRUE
    SourceFails = TRUE
    MaxFaults = 2
INVARIANT CommittedDelivered
PROPERTY ReassignedSkipsNothing
PROPERTY CommitsForward
PROPERTY EventuallyDelivered
CHECK_DEADLOCK FALSE
