SPECIFICATION Spec
CONSTANTS
    a = a
    b = b
    c = c
    d = d
    NoId = NoId
    Messages <- AllMessages
    Partitions = {0, 1}
    Log <- TwoLogs
    Id <- Positions
    Fate <- AllFates
    Committed0 <- FromZero
    OffsetBits = 4
    BitOr <- IntegerOr
    Strict = FALSE
    Idempotent = FALSE
    SinkFails = TRUE
    SourceFails = FALSE
    MaxFaults = 1
INVARIANT CommittedDelivered
CHECK_DEADLOCK FALSE
