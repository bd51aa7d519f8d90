------------------------------ MODULE MCReader ------------------------------
\* Small instances of ReaderEnvironment.
EXTENDS ReaderEnvironment, TLC

CONSTANT MaxSeq   \* bound: greatest sequence number

MCHeartbeats ==
    {hb \in [count : 1 .. 2, first : 1 .. MaxSeq, last : 0 .. MaxSeq,
             final : BOOLEAN, liveliness : {FALSE}] : hb.first <= hb.last + 1}

\* GAPs with nothing after the range they start with.
MCGapRanges ==
    {g \in [start : 1 .. MaxSeq, base : 2 .. (MaxSeq + 1), list : {{}}] : g.start < g.base}

\* GAPs as RTPSGapBuilder makes them: the range, then numbers apart from it.
MCGapLists ==
    {g \in [start : 1 .. MaxSeq, base : 2 .. (MaxSeq + 1), list : SUBSET (3 .. MaxSeq)] :
        /\ g.start < g.base
        /\ g.list \subseteq (g.base + 1) .. (g.base + AckWindow - 1)}

\* One round of heartbeats that only assert liveliness.
MCLivelinessHeartbeats ==
    {hb \in [count : {1}, first : {1}, last : 0 .. MaxSeq,
             final : {TRUE}, liveliness : {TRUE}] : hb.first <= hb.last + 1}

WriterSymmetry == Permutations(Writers)

\* No action and none of the invariants of reader_full_history reads the other
\* variables, so states that only differ in them are one state.
ReaderView == <<reader, telling, early>>
=============================================================================
