SPECIFICATION Spec
CONSTANTS
    r1 = r1
    r2 = r2
    t1 = t1
    t2 = t2
    a = a
    b = b
    Readers <- TwoReaders
    Instances <- OneInstance
    Configurations <- Deliveries
    Threads <- TwoThreads
    ThreadsOf <- Users
    MaxWrites = 2
    LateInitialAcks = FALSE
INVARIANTS
    ProxiesMatchHistory
    OwedIsHeld
    KeepAllIsReliable
    PendingIsScheduled
    UnacknowledgedIsAnnounced
