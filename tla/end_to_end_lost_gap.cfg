SPECIFICATION FairSpec
CHECK_DEADLOCK FALSE
CONSTANTS
    Configurations <- LateJoiner
    MaxWrites = 2
    MaxUnmatches <- UnmatchedOnce
PROPERTIES
    OwedIsDelivered
