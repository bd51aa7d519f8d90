CONSTANTS
    AckWindow = 2
    Writers = {"w1"}
    Fragments = {1, 2}
    HistoryKinds = {"KEEP_ALL"}
    MaxSamples = 5
    MaxMatchedWriters = 1
    DisablePositiveAcks = FALSE
    Persistent = TRUE
    DataNumbers = {1, 3}
    FragNumbers = {2}
    MaxSeq = 3
    Heartbeats <- MCHeartbeats
    Gaps <- MCGapLists
    MaxAcknacks = 1
    WithExpiry = TRUE
SPECIFICATION Spec
INVARIANTS
    ProxyConsistent
    NoSilentLoss
    AvailableIsAssembled
    NotifiedIsRecorded
PROPERTIES
    NotifiedOnceInOrder
    AcknackIsHonest
