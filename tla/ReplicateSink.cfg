SPECIFICATION Spec
CONSTANTS
    Wal <- AllKinds
    KeepAliveLsns <- AllKeepAlives
    BufferEvents = 2
    StartLsn = 0
    SlotLsn = 0
    Temporary = FALSE
    HasApplier = FALSE
    EmitBoundaries = TRUE
    Sinks = {healthy, failing}
    Failing = {failing}
    healthy = healthy
    failing = failing
    MaxFaults = 2
INVARIANT SinkLosesNothing
PROPERTY ReconnectSkipsNothing
