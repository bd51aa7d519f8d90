SPECIFICATION FairSpec
CONSTANTS
    b1 = b1
    b2 = b2
    l1 = l1
    l2 = l2
    p1 = p1
    p2 = p2
    Buffers <- TwoBuffers
    Listeners <- TwoListeners
    Names <- TwoNames
    Scenarios <- MixedPorts
    Cells = 2
    ValidityIds = 8
    Generations = {1, 2}
    Counts = 1048576
CHECK_DEADLOCK FALSE
INVARIANTS
    FreeCellsAreExact
    WaiterIsNotified
    KeptUntilRead
PROPERTIES
    RingsAreQueues
    ClosedEnds
