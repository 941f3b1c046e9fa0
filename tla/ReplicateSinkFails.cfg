SPECIFICATION Spec
CONSTANTS
    Wal <- TwoTxns
    KeepAliveLsns <- KeepAlives
    BufferEvents = 1
    StartLsn = 0
    SlotLsn = 0
    Temporary = FALSE
    HasApplier = FALSE
    EmitBoundaries = FALSE
    Sinks = {failing}
    Failing = {failing}
    healthy = healthy
    failing = failing
    MaxFaults = 1
INVARIANT NoEventLost
