SPECIFICATION FairSpec
CONSTANTS
    Channels <- TwoChannels
    Behaviors <- BothBehaviors
    Capacity <- Capacities
    MaxNotifications = 3
    MaxFaults = 2
    MaxItems = 2
    SinkKinds <- AllSinks
    Retries = 1
    Payload <- Payloads
INVARIANT NothingVanishes
INVARIANT DeliveredInOrder
INVARIANT AcceptedReached
INVARIANT PostedOnce
PROPERTY LossNoticed
PROPERTY Offered
PROPERTY SignalEndsListen
PROPERTY EventuallyPosted
CHECK_DEADLOCK FALSE
