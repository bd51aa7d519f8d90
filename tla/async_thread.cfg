SPECIFICATION FairSpec
CONSTANTS
    w1 = w1
    w2 = w2
    w3 = w3
    NULL = NULL
    Writers <- ThreeWriters
    Destroyed <- TwoWriters
    Timed <- FirstWriter
INVARIANTS
    WokenIsQueued
PROPERTIES
    ImplementsQueues
    ServedWhileNoneIsDestroyed
