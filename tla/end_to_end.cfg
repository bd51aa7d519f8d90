SPECIFICATION FairSpec
CHECK_DEADLOCK FALSE
CONSTANTS
    Configurations <- Delivery
    MaxWrites = 2
    MaxUnmatches <- UnmatchedOnce
INVARIANTS
    AcknowledgedIsDelivered
PROPERTIES
    ImplementsDelivery
    OwedIsDelivered
    BlockedWriteReturns
