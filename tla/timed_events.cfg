SPECIFICATION FairSpec
CONSTANTS
    t1 = t1
    t2 = t2
    u1 = u1
    u2 = u2
    Timers <- TwoTimers
    Threads <- TwoThreads
    Interval <- IntervalOf
    Intervals <- OneAndTwo
    CancelTime = 3
    IdleTime = 1
    MaxLag = 2
    MaxCalls = 4
INVARIANTS
    ArmedIsScheduled
    ActiveIsSorted
    DestroyedIsForgotten
PROPERTIES
    ArmedGoesOff
    DestructorsReturn
