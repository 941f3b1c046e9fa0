SPECIFICATION FairSpec
CONSTANTS
    Commands <- AllCommands
    MaxAttempts <- Attempts
    BaseMs = 5
    MaxMs = 20
    Width = 5
    MaxSessions = 6
    MaxOutages = 4
INVARIANT GivesUpForRefusals
INVARIANT OnlyFirstSessionLate
PROPERTY BackoffHolds
PROPERTY SignalEnds
PROPERTY Reconnects
CHECK_DEADLOCK FALSE
