SPECIFICATION FairDelivery
CONSTANTS
    a = a
    b = b
    c = c
    d = d
    NoId = NoId
    Messages <- AllMessages
    Id <- AllIds
    Fate <- AllFates
    SinkKinds <- AllSinks
    Ttl = 1
    MaxItems = 2
    Strict = FALSE
    Idempotent = TRUE
    SinkFails = TRUE
    SourceFails = TRUE
    MaxFaults = 2
    Prefetch = 2
INVARIANT SentOnce
INVARIANT AckedStored
INVARIANT EntriesExpire
PROPERTY KeepsPromise
PROPERTY EventuallySettled
CHECK_DEADLOCK FALSE
