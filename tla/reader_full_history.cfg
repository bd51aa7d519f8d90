CONSTANTS
    AckWindow = 2
    Writers = {w1, w2}
    Fragments = {1, 2}
    HistoryKinds = {"KEEP_ALL", "KEEP_LAST"}
    MaxSamples = 3
    MaxMatchedWriters = 2
    DisablePositiveAcks = FALSE
    Persistent = FALSE
    DataNumbers = {2, 3}
    FragNumbers = {1}
    MaxSeq = 3
    Heartbeats <- MCLivelinessHeartbeats
    Gaps <- MCGapRanges
    MaxAcknacks = 0
    WithExpiry = TRUE
SPECIFICATION Spec
SYMMETRY WriterSymmetry
VIEW ReaderView
INVARIANTS
    FullHistoryCanDrain
    HistoryAgreesWithProxy
    UnreadCountIsExact
