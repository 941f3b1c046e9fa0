SPECIFICATION FairSpec
CONSTANTS
    Tables = {"t1", "t2"}
    NoRow = NoRow
    Stream <- SomeStream
    TxnStarts <- SomeStarts
    MaxRows = 2
    Kinds = {"parquet", "iceberg"}
    MaxFaults = 1
    MaxDrops = 1
INVARIANT Accounted
INVARIANT InOrder
INVARIANT RiskBounded
PROPERTY SignalStops
CHECK_DEADLOCK FALSE
