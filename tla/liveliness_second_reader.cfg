SPECIFICATION Spec
CONSTANTS
    w1 = w1
    w2 = w2
    r1 = r1
    r2 = r2
    t1 = t1
    t2 = t2
    None = None
    Writers <- TwoWriters
    Readers <- TwoReaders
    Threads <- TwoThreads
    Scenarios <- Shared
    MaxCalls = 5
INVARIANTS
    AliveCountIsNatural
