SPECIFICATION FairSpec
CONSTANTS
    Wal <- ThreeTxns
    KeepAliveLsns <- KeepAlives
    BufferEvents = 1
    StartLsn = 0
    SlotLsn = 0
    Temporary = FALSE
    HasApplier = TRUE
    EmitBoundaries = FALSE
    Sinks = {failing}
    Failing = {failing}
    healthy = healthy
    failing = failing
    MaxFaults = 2
INVARIANT TargetLosesNothing
INVARIANT OncePerProcess
PROPERTY EventuallyApplied
