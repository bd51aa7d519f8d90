SPECIFICATION Spec
CONSTANTS
    r1 = r1
    r2 = r2
    t1 = t1
    t2 = t2
    a = a
    b = b
    Readers <- OneReader
    Instances <- TwoInstances
    Configurations <- Waits
    Threads <- TwoThreads
    ThreadsOf <- Users
    MaxWrites = 3
    LateInitialAcks = FALSE
INVARIANTS
    BlockedWriteIsWoken
    AllAckedIsTrue
    WaiterIsTold
    RoomIsKept
    InstancesMatchHistory
PROPERTIES
    RefusedOnlyWhenFull
