------------------------ MODULE ReaderHistoryProofs ------------------------
(***************************************************************************)
(* Proofs about the history of a reader, for every set of writers, every   *)
(* history size and kind and every set of messages: what is stored agrees  *)
(* with what the proxies have settled, the unread counter never exceeds    *)
(* the unread samples and is exact when no listener takes a sample before  *)
(* it is counted, a history that refuses samples can drain, and, with room *)
(* for every sample, nothing is settled that neither arrived nor was       *)
(* declared gone.  HInv says what the history and the proxies have to do   *)
(* with each other, also while a listener runs; Heard and Faithful what    *)
(* the network has told the reader.                                        *)
(***************************************************************************)
EXTENDS ReaderProofs

\* A sample is sent whole or in fragments, never now this way and now that:
\* its writer decides when it creates the change.
SentOneWay == DataNumbers \cap FragNumbers = {}

\* The lists of the GAPs name no sample that is sent in fragments: for those
\* processGapMsg looks up the wrong number.
ListsSpareFragmented == \A gap \in Gaps : gap.list \cap FragNumbers = {}

\* Neither does a heartbeat drop such a sample: remove_fragmented_changes_until
\* takes changes out of the history and leaves m_isHistoryFull up.
HeartbeatsSpareFragmented == \A hb \in Heartbeats, n \in FragNumbers : hb.first <= n

\* The history never gets full.
RoomForAll ==
    /\ IsFiniteSet(DataNumbers \cup FragNumbers)
    /\ Cardinality(Writers \X (DataNumbers \cup FragNumbers)) < MaxSamples

----------------------------------------------------------------------------
\* No number of a writer is stored twice, and only matched writers are there.
Kept(rd) ==
    /\ \A c, d \in rd.history : (c.writer = d.writer /\ c.seq = d.seq) => c = d
    /\ \A c \in rd.history :
        /\ rd.matched_writers[c.writer].is_alive
        /\ c.seq \in DataNumbers \cup FragNumbers
        /\ ~is_fully_assembled(c) => c.seq \in FragNumbers

\* A complete change is settled as well.
Stored(rd) ==
    /\ Kept(rd)
    /\ \A c \in rd.history :
        is_fully_assembled(c) => change_was_received(rd.matched_writers[c.writer], c.seq)

\* An incomplete change is not settled.
Pending(rd) ==
    \A c \in rd.history :
        ~is_fully_assembled(c) => ~change_was_received(rd.matched_writers[c.writer], c.seq)

\* The changes NotifyChanges has counted and the user has not read.
Unread(rd) ==
    {c \in rd.history : /\ ~c.isRead
                        /\ c.seq <= rd.matched_writers[c.writer].last_notified}

\* The counter promises no change that is not there, ...
Counted(rd) == rd.total_unread <= Cardinality(Unread(rd))

\* ... and misses none.
Exact(rd) == rd.total_unread = Cardinality(Unread(rd))

SameCount(rd, rq) == Unread(rq) = Unread(rd) /\ rq.total_unread = rd.total_unread

\* The user can take the change, or its missing fragments can complete it.
Drainable(rd, c) ==
    \/ c.seq <= rd.matched_writers[c.writer].low_mark
    \/ c.seq = rd.matched_writers[c.writer].low_mark + 1 /\ ~is_fully_assembled(c)

Drains(rd) ==
    (HeartbeatsSpareFragmented /\ rd.history_kind = "KEEP_ALL" /\ rd.isHistoryFull) =>
        \E c \in rd.history : Drainable(rd, c)

Whole(rd) == Pending(rd) /\ Counted(rd) /\ Drains(rd)

\* What a step inside a handler does to the history.
Keeps(rd, rq) == Whole(rd) => Whole(rq) /\ (Exact(rd) => Exact(rq))

\* The counter is exact unless a listener was early.
Sound(rd) == Whole(rd) /\ (early \/ Exact(rd))

\* NotifyChanges has caught up with the low marks, but for the writers in T.
CaughtUp(rd, T) ==
    \A w \in Writers \ T : rd.matched_writers[w].last_notified = rd.matched_writers[w].low_mark

\* Only the heartbeats of matched writers are answered.
Answers(rd) ==
    \A w \in Writers :
        rd.matched_writers[w].heartbeat_response => rd.matched_writers[w].is_alive

HInv ==
    /\ IInv
    /\ Stored(reader)
    /\ CaughtUp(reader, telling)
    /\ \A v, w \in telling : v = w
    /\ Answers(reader)
    /\ ListsSpareFragmented => Sound(reader)

\* What the network has told the reader is settled, ...
Heard ==
    \A w \in Matched : \A n \in Nat \ {0} :
        n \in arrived[w] \cup excused[w] => change_was_received(reader.matched_writers[w], n)

\* ... and while the history has not been full nothing else is.
Faithful ==
    ~reader.isHistoryFull /\
    \A w \in Matched : \A n \in Nat \ {0} :
        change_was_received(reader.matched_writers[w], n) => n \in arrived[w] \cup excused[w]

----------------------------------------------------------------------------
\* What the proofs need to know of one stored change and of its proxy.
LEMMA ChangeTypes ==
    ASSUME NEW rd, ReaderOK(rd), NEW c \in rd.history
    PROVE  /\ c \in Change /\ c.writer \in Writers /\ c.seq \in Nat /\ c.seq # 0
           /\ Consistent(rd.matched_writers[c.writer])
           /\ rd.matched_writers[c.writer].low_mark \in Nat
           /\ rd.matched_writers[c.writer].last_notified \in Nat
           /\ rd.matched_writers[c.writer].last_notified <= rd.matched_writers[c.writer].low_mark
<1>1. c \in Change
    BY DEF ReaderOK, ReaderState
<1>2. c.writer \in Writers /\ c.seq \in Nat /\ c.seq # 0
    BY <1>1 DEF Change
<1> QED
    BY <1>1, <1>2, ReaderTypes

\* Removals, of whatever changes, leave a history that agrees with the proxies
\* and, as they take the flag down, that can drain.
LEMMA Shrink ==
    ASSUME NEW rd, ReaderOK(rd), NEW rq,
           rq.matched_writers = rd.matched_writers, rq.history_kind = rd.history_kind,
           rq.history \subseteq rd.history,
           HeartbeatsSpareFragmented /\ rq.isHistoryFull =>
                rd.isHistoryFull /\ rq.history = rd.history
    PROVE  /\ Stored(rd) => Stored(rq)
           /\ Pending(rd) => Pending(rq)
           /\ Drains(rd) => Drains(rq)
<1>1. Stored(rd) => Stored(rq)
    BY DEF Stored, Kept
<1>2. Pending(rd) => Pending(rq)
    BY DEF Pending
<1>3. \A c : Drainable(rd, c) <=> Drainable(rq, c)
    BY DEF Drainable
<1>4. Drains(rd) => Drains(rq)
    BY <1>3, Zenon DEF Drains
<1> QED
    BY <1>1, <1>2, <1>4

\* Incomplete changes are not counted as unread, so the removals that
\* processGapMsg and processHeartbeatMsg make do not touch the count.
LEMMA ShrinkIncomplete ==
    ASSUME NEW rd, ReaderOK(rd), NEW rq,
           rq.matched_writers = rd.matched_writers, rq.total_unread = rd.total_unread,
           rq.history \subseteq rd.history,
           \A c \in rd.history \ rq.history : ~is_fully_assembled(c),
           Pending(rd)
    PROVE  SameCount(rd, rq)
<1>1. ASSUME NEW c \in Unread(rd)
      PROVE  c \in rq.history
    <2>1. c \in rd.history /\ c.seq <= rd.matched_writers[c.writer].last_notified
        BY DEF Unread
    <2>2. c.seq <= rd.matched_writers[c.writer].low_mark
        BY <2>1, ChangeTypes
    <2>3. is_fully_assembled(c)
        BY <2>1, <2>2 DEF Pending, change_was_received
    <2> QED
        BY <2>1, <2>3
<1>2. Unread(rq) = Unread(rd)
    BY <1>1 DEF Unread
<1> QED
    BY <1>2 DEF SameCount

\* With the numbers N of writer w settled, every complete change is settled.
Covers(rd, w, N) ==
    \A c \in rd.history : is_fully_assembled(c) =>
        \/ change_was_received(rd.matched_writers[c.writer], c.seq)
        \/ c.writer = w /\ c.seq \in N

\* No incomplete change of writer w has a number in N.
Spares(rd, w, N) == \A c \in ChangesFrom(rd, w) : ~is_fully_assembled(c) => c.seq \notin N

\* What holds of rq when it is rd with the numbers N of writer w settled.
Advanced(rd, rq, w, N) ==
    /\ Stored(rq)
    /\ SameCount(rd, rq)
    /\ Pending(rd) /\ Spares(rd, w, N) =>
        /\ Pending(rq) /\ (Drains(rd) => Drains(rq))
        /\ \A c \in rd.history : Drainable(rd, c) => Drainable(rq, c)

\* A proxy that settles what is complete, and no number of an incomplete change.
LEMMA Advance ==
    ASSUME NEW rd, ReaderOK(rd), Kept(rd),
           NEW w \in Writers, NEW wq, NEW N, Covers(rd, w, N),
           Consistent(wq), Advances(rd.matched_writers[w], wq),
           Settles(rd.matched_writers[w], wq, N),
           NEW rq, rq.matched_writers = [rd.matched_writers EXCEPT ![w] = wq],
           rq.history = rd.history, rq.history_kind = rd.history_kind,
           rq.isHistoryFull = rd.isHistoryFull, rq.total_unread = rd.total_unread
    PROVE  Advanced(rd, rq, w, N)
<1>1. rd.matched_writers \in [Writers -> WriterProxyState]
    BY DEF ReaderOK, ReaderState
<1>2. rq.matched_writers[w] = wq
    BY <1>1
<1>3. \A v \in Writers : v # w => rq.matched_writers[v] = rd.matched_writers[v]
    BY <1>1
<1>4. ASSUME NEW c \in rd.history
      PROVE  /\ rq.matched_writers[c.writer].is_alive = rd.matched_writers[c.writer].is_alive
             /\ rq.matched_writers[c.writer].last_notified = rd.matched_writers[c.writer].last_notified
             /\ rd.matched_writers[c.writer].low_mark <= rq.matched_writers[c.writer].low_mark
             /\ change_was_received(rq.matched_writers[c.writer], c.seq)
                  <=> \/ change_was_received(rd.matched_writers[c.writer], c.seq)
                      \/ c.writer = w /\ c.seq \in N
             /\ Consistent(rq.matched_writers[c.writer])
    <2>1. c.writer \in Writers /\ c.seq \in Nat /\ rd.matched_writers[c.writer].low_mark \in Nat
          /\ Consistent(rd.matched_writers[c.writer])
        BY ChangeTypes
    <2>2. CASE c.writer = w
        BY <1>2, <2>1, <2>2 DEF Advances, Settles
    <2>3. CASE c.writer # w
        BY <1>3, <2>1, <2>3
    <2> QED
        BY <2>2, <2>3
<1>5. Stored(rq)
    BY <1>4 DEF Covers, Stored, Kept
<1>6. Unread(rq) = Unread(rd)
    BY <1>4 DEF Unread
<1>7. ASSUME Pending(rd), Spares(rd, w, N)
      PROVE  /\ Pending(rq) /\ (Drains(rd) => Drains(rq))
             /\ \A c \in rd.history : Drainable(rd, c) => Drainable(rq, c)
    <2>1. Pending(rq)
        BY <1>4, <1>7 DEF Pending, ChangesFrom, Spares
    <2>2. ASSUME NEW c \in rd.history, Drainable(rd, c)
          PROVE  Drainable(rq, c)
        <3>1. /\ c.seq \in Nat /\ rd.matched_writers[c.writer].low_mark \in Nat
              /\ rq.matched_writers[c.writer].low_mark \in Nat
            BY <1>4, ChangeTypes, LowMarkIsExact
        <3>2. CASE is_fully_assembled(c) \/ c.seq <= rd.matched_writers[c.writer].low_mark
            BY <1>4, <2>2, <3>1, <3>2 DEF Drainable
        <3>3. CASE ~is_fully_assembled(c) /\ c.seq = rd.matched_writers[c.writer].low_mark + 1
            <4>1. ~change_was_received(rq.matched_writers[c.writer], c.seq)
                BY <2>1, <3>3 DEF Pending
            <4>2. ~(c.seq <= rq.matched_writers[c.writer].low_mark)
                BY <4>1 DEF change_was_received
            <4> QED
                BY <1>4, <3>1, <3>3, <4>2 DEF Drainable
        <3> QED
            BY <2>2, <3>2, <3>3 DEF Drainable
    <2> QED
        BY <2>1, <2>2 DEF Drains
<1> QED
    BY <1>5, <1>6, <1>7 DEF SameCount, Advanced

\* What change_stored settles: the change if it is complete, and if the history
\* is full whatever precedes the writer's first change.
LEMMA ChangeStoredSettles ==
    ASSUME NEW rd, ReaderOK(rd), NEW c \in rd.history
    PROVE  \E wq, N :
            /\ change_stored(rd, c) = [rd EXCEPT !.matched_writers[c.writer] = wq]
            /\ Consistent(wq) /\ Advances(rd.matched_writers[c.writer], wq)
            /\ Settles(rd.matched_writers[c.writer], wq, N)
            /\ is_fully_assembled(c) => c.seq \in N
            /\ \A d \in ChangesFrom(rd, c.writer) :
                    d.seq \in N => (d.seq = c.seq /\ is_fully_assembled(c))
            /\ ~rd.isHistoryFull => N = IF is_fully_assembled(c) THEN {c.seq} ELSE {}
            /\ rd.isHistoryFull => \E d \in ChangesFrom(rd, c.writer) : 0 .. (d.seq - 1) \subseteq N
<1> DEFINE w    == c.writer
           wp   == rd.matched_writers[w]
           lost == make_older_changes_lost(rd, w)
           seqs == {d.seq : d \in ChangesFrom(rd, w)}
           n    == CHOOSE m \in seqs : \A d \in ChangesFrom(rd, w) : m <= d.seq
           L    == IF rd.isHistoryFull THEN 0 .. (n - 1) ELSE {}
           G    == IF is_fully_assembled(c) THEN {c.seq} ELSE {}
<1>1. w \in Writers /\ c.seq \in Nat /\ Consistent(wp) /\ rd \in ReaderState
    BY ChangeTypes DEF ReaderOK
<1>2. n \in Nat \ {0} /\ n \in seqs /\ \A d \in ChangesFrom(rd, w) : n <= d.seq
    <2>1. seqs \in SUBSET (Nat \ {0})
        BY DEF ReaderOK, ReaderState, Change, ChangesFrom
    <2>2. c.seq \in seqs
        BY DEF ChangesFrom
    <2>3. PICK m \in seqs : \A k \in seqs : m <= k
        BY Zenon, <2>1, <2>2, LeastNatural
    <2>4. \A d \in ChangesFrom(rd, w) : m <= d.seq
        BY <2>3
    <2>5. n \in seqs /\ \A d \in ChangesFrom(rd, w) : n <= d.seq
        BY <2>3, <2>4
    <2> QED
        BY Zenon, <2>1, <2>5
<1>3. PICK f \in ChangesFrom(rd, w) : n = f.seq
    BY <1>2
<1>4. \A d \in ChangesFrom(rd, w) : d.seq \in Nat /\ d.seq \notin L
    <2>1. \A d \in ChangesFrom(rd, w) : d.seq \in Nat
        BY ChangeTypes DEF ChangesFrom
    <2> QED
        BY <1>2, <2>1
<1> HIDE DEF n
<1>5. PICK wl : /\ lost = [rd EXCEPT !.matched_writers[w] = wl]
                /\ Consistent(wl) /\ Advances(wp, wl) /\ Settles(wp, wl, L)
    <2>1. CASE rd.isHistoryFull
        <3>1. lost = [rd EXCEPT !.matched_writers[w] = lost_changes_update(wp, n)]
            BY <2>1 DEF make_older_changes_lost, n
        <3>2. /\ Consistent(lost_changes_update(wp, n))
              /\ Advances(wp, lost_changes_update(wp, n))
              /\ Settles(wp, lost_changes_update(wp, n), 0 .. (n - 1))
            BY <1>1, <1>2, LostChangesConsistent
        <3> QED
            BY <2>1, <3>1, <3>2
    <2>2. CASE ~rd.isHistoryFull
        <3>1. lost = rd
            BY <2>2 DEF make_older_changes_lost
        <3>2. rd = [rd EXCEPT !.matched_writers[w] = wp]
            BY <1>1 DEF ReaderState
        <3>3. Advances(wp, wp) /\ Settles(wp, wp, {})
            BY <1>1 DEF Advances, Settles, Consistent, WriterProxyState
        <3> QED
            BY <1>1, <2>2, <3>1, <3>2, <3>3
    <2> QED
        BY <2>1, <2>2, Zenon
<1> HIDE DEF lost
<1>6. lost.matched_writers[w] = wl
    BY <1>1, <1>5 DEF ReaderState
<1>7. PICK wq : /\ change_stored(rd, c) = [lost EXCEPT !.matched_writers[w] = wq]
                /\ Consistent(wq) /\ Advances(wl, wq) /\ Settles(wl, wq, G)
    <2>1. CASE is_fully_assembled(c)
        <3>1. change_stored(rd, c) = [lost EXCEPT !.matched_writers[w] = received_change_set(wl, c.seq)]
            BY <1>6, <2>1 DEF change_stored, lost
        <3>2. /\ Consistent(received_change_set(wl, c.seq))
              /\ Advances(wl, received_change_set(wl, c.seq))
              /\ Settles(wl, received_change_set(wl, c.seq), {c.seq})
            BY <1>1, <1>5, ReceivedChangeConsistent
        <3> QED
            BY <2>1, <3>1, <3>2
    <2>2. CASE ~is_fully_assembled(c)
        <3>1. change_stored(rd, c) = lost
            BY <2>2 DEF change_stored, lost
        <3>2. lost = [lost EXCEPT !.matched_writers[w] = wl]
            BY <1>1, <1>5, Zenon DEF ReaderState
        <3>3. Advances(wl, wl) /\ Settles(wl, wl, {})
            BY <1>5 DEF Advances, Settles, Consistent, WriterProxyState
        <3> QED
            BY <1>5, <2>2, <3>1, <3>2, <3>3, Zenon
    <2> QED
        BY <2>1, <2>2
<1>8. change_stored(rd, c) = [rd EXCEPT !.matched_writers[w] = wq]
    BY <1>1, <1>5, <1>7, Zenon DEF ReaderState
<1>9. Advances(wp, wq)
    <2>1. wp.low_mark \in Nat /\ wl.low_mark \in Nat /\ wq.low_mark \in Nat
        BY <1>1, <1>5, <1>7 DEF Consistent, WriterProxyState
    <2> QED
        BY <1>5, <1>7, <2>1 DEF Advances
<1>10. Settles(wp, wq, L \cup G)
    BY <1>5, <1>7 DEF Settles
<1>11. \A d \in ChangesFrom(rd, w) : d.seq \in L \cup G => (d.seq = c.seq /\ is_fully_assembled(c))
    BY <1>4, Zenon
<1>12. rd.isHistoryFull => \E d \in ChangesFrom(rd, w) : 0 .. (d.seq - 1) \subseteq L \cup G
    BY <1>3
<1>13. /\ is_fully_assembled(c) => c.seq \in L \cup G
       /\ ~rd.isHistoryFull => L \cup G = IF is_fully_assembled(c) THEN {c.seq} ELSE {}
    OBVIOUS
<1> HIDE DEF L, G, wp
<1> QED
    BY <1>7, <1>8, <1>9, <1>10, <1>11, <1>12, <1>13, Zenon DEF wp

\* Only the proxy of w may differ.
SameBut(rd, rq, w) ==
    \A v \in Writers : v # w => rq.matched_writers[v] = rd.matched_writers[v]

\* ReaderHistory::remove_change keeps the counter in step, as long as the change
\* has been read or NotifyChanges has caught up with its writer.
LEMMA RemoveChangeWhole ==
    ASSUME NEW rd, ReaderOK(rd), Stored(rd), NEW c \in rd.history
    PROVE  LET rq == remove_change(rd, c)
           IN  /\ ReaderOK(rq) /\ Stored(rq)
               /\ rq.matched_writers = rd.matched_writers
               /\ rq.history_record = rd.history_record
               /\ rq.history_kind = rd.history_kind
               /\ rq.history = rd.history \ {c}
               /\ ~rq.isHistoryFull
               /\ (c.isRead \/ rd.matched_writers[c.writer].last_notified
                                = rd.matched_writers[c.writer].low_mark) => Keeps(rd, rq)
<1> DEFINE rq == remove_change(rd, c)
           r1 == change_removed_by_history(rd, c)
           wp == rd.matched_writers[c.writer]
<1>1. /\ rd \in ReaderState /\ rd.total_unread \in Nat /\ IsFiniteSet(rd.history)
      /\ c \in Change /\ c.writer \in Writers /\ c.seq \in Nat
      /\ wp.low_mark \in Nat
    BY ChangeTypes DEF ReaderOK, ReaderState
<1>2. ReaderOK(rq) /\ Untouched(rd, rq)
    BY <1>1, RemoveChangeOK
<1>3. \/ r1 = rd
      \/ r1 = [rd EXCEPT !.total_unread = rd.total_unread - 1]
    BY DEF change_removed_by_history
<1>4. /\ r1.history = rd.history /\ r1.history_kind = rd.history_kind
      /\ DOMAIN r1 = DOMAIN rd
    BY <1>1, <1>3 DEF ReaderState
<1>5. rq = [r1 EXCEPT !.history = r1.history \ {c}, !.isHistoryFull = FALSE]
    BY DEF remove_change
<1>6. r1.total_unread = IF /\ is_fully_assembled(c) /\ ~c.isRead
                           /\ wp.low_mark >= c.seq /\ 0 < rd.total_unread
                        THEN rd.total_unread - 1 ELSE rd.total_unread
    BY <1>1 DEF change_removed_by_history, available_changes_max, ReaderState
<1> HIDE DEF r1
<1>7. /\ rq.history = rd.history \ {c} /\ rq.history_kind = rd.history_kind
      /\ ~rq.isHistoryFull /\ rq.total_unread = r1.total_unread
    BY <1>1, <1>4, <1>5 DEF ReaderState
<1> HIDE DEF rq
<1>8. /\ Stored(rq) /\ (Pending(rd) => Pending(rq)) /\ (Drains(rd) => Drains(rq))
    BY <1>2, <1>7, Shrink DEF Untouched
<1>9. ASSUME c.isRead \/ wp.last_notified = wp.low_mark, Pending(rd), Counted(rd)
      PROVE  Counted(rq) /\ (Exact(rd) => Exact(rq))
    <2>1. Unread(rq) = Unread(rd) \ {c}
        BY <1>2, <1>7 DEF Unread, Untouched
    <2>2. IsFiniteSet(Unread(rd)) /\ Cardinality(Unread(rd)) \in Nat
        BY <1>1, SubsetFinite DEF Unread
    <2>3. CASE c \in Unread(rd)
        <3>1. ~c.isRead /\ wp.low_mark >= c.seq
            BY <1>1, <1>9, <2>3 DEF Unread
        <3>2. is_fully_assembled(c)
            BY <1>1, <1>9, <3>1 DEF Pending, change_was_received
        <3>3. Cardinality(Unread(rd)) # 0
            BY <2>2, <2>3, FS_EmptySet
        <3>4. Cardinality(Unread(rd) \ {c}) = Cardinality(Unread(rd)) - 1
            BY <2>2, <2>3, FS_RemoveElement, Zenon
        <3>5. rd.total_unread <= Cardinality(Unread(rd))
            BY <1>9 DEF Counted
        <3>6. r1.total_unread = IF 0 < rd.total_unread THEN rd.total_unread - 1
                                ELSE rd.total_unread
            BY <1>6, <3>1, <3>2, Zenon
        <3> QED
            BY <1>1, <1>7, <2>1, <2>2, <3>3, <3>4, <3>5, <3>6 DEF Counted, Exact
    <2>4. CASE c \notin Unread(rd)
        <3>1. c.isRead \/ ~(wp.low_mark >= c.seq)
            BY <1>1, <1>9, <2>4 DEF Unread
        <3>2. r1.total_unread = rd.total_unread
            BY <1>6, <3>1
        <3>3. Unread(rd) \ {c} = Unread(rd)
            BY <2>4
        <3> QED
            BY <1>7, <1>9, <2>1, <3>2, <3>3 DEF Counted, Exact
    <2> QED
        BY <2>3, <2>4
<1> QED
    BY <1>2, <1>7, <1>8, <1>9 DEF Untouched, Whole, Keeps, rq

\* rq is rd with the new change c stored and, if it is complete, settled.
Added(rd, rq, c) ==
    /\ Stored(rq) /\ SameBut(rd, rq, c.writer)
    /\ Keeps(rd, rq)
    /\ rq.history = rd.history \cup {c}
    /\ rq.isHistoryFull = (Cardinality(rd.history) + 1 = MaxSamples)
    /\ \E N : /\ Settles(rd.matched_writers[c.writer], rq.matched_writers[c.writer], N)
              /\ is_fully_assembled(c) => c.seq \in N
              /\ ~rq.isHistoryFull => N = IF is_fully_assembled(c) THEN {c.seq} ELSE {}

\* add_received_change and change_stored for a change that is new and not
\* settled: it is stored, and settled if it is complete; the history may become
\* full, but not stuck.
LEMMA ChangeAdded ==
    ASSUME NEW rd, ReaderOK(rd), Stored(rd), NEW c \in Change,
           rd.matched_writers[c.writer].is_alive,
           ~change_was_received(rd.matched_writers[c.writer], c.seq),
           c.seq \in DataNumbers \cup FragNumbers,
           ~is_fully_assembled(c) => c.seq \in FragNumbers,
           \A d \in rd.history : ~(d.writer = c.writer /\ d.seq = c.seq),
           NEW r1 \in add_received_change(rd, c)
    PROVE  Added(rd, change_stored(r1, c), c)
<1> DEFINE w  == c.writer
           wp == rd.matched_writers[w]
           rq == change_stored(r1, c)
           full == Cardinality(rd.history) + 1 = MaxSamples
<1>1. /\ w \in Writers /\ c.seq \in Nat /\ rd \in ReaderState /\ Consistent(wp)
      /\ IsFiniteSet(rd.history) /\ MaxSamples \in Nat /\ wp.low_mark \in Nat
      /\ wp.last_notified \in Nat /\ wp.last_notified <= wp.low_mark
    BY ReaderTypes, ReaderAssumption DEF Change, ReaderOK
<1>2. /\ c \notin rd.history
      /\ wp.low_mark < c.seq
    BY <1>1 DEF change_was_received
<1>3. r1 = [rd EXCEPT !.history = rd.history \cup {c}, !.isHistoryFull = full]
    BY DEF add_received_change
<1>4. ReaderOK(r1) /\ Untouched(rd, r1) /\ c \in r1.history
    BY AddReceivedChangeOK
<1> HIDE DEF full
<1>5. /\ r1.history = rd.history \cup {c} /\ r1.isHistoryFull = full
      /\ r1.history_kind = rd.history_kind /\ r1.total_unread = rd.total_unread
      /\ r1.matched_writers = rd.matched_writers
    BY <1>1, <1>3 DEF ReaderState
<1>6. PICK wq, N :
            /\ rq = [r1 EXCEPT !.matched_writers[w] = wq]
            /\ Consistent(wq) /\ Advances(wp, wq) /\ Settles(wp, wq, N)
            /\ is_fully_assembled(c) => c.seq \in N
            /\ \A d \in ChangesFrom(r1, w) : d.seq \in N => (d.seq = c.seq /\ is_fully_assembled(c))
            /\ ~full => N = IF is_fully_assembled(c) THEN {c.seq} ELSE {}
            /\ full => \E d \in ChangesFrom(r1, w) : 0 .. (d.seq - 1) \subseteq N
    BY <1>4, <1>5, ChangeStoredSettles
<1> HIDE DEF rq
<1>7. /\ rq.matched_writers = [rd.matched_writers EXCEPT ![w] = wq]
      /\ rq.history = r1.history /\ rq.history_kind = r1.history_kind
      /\ rq.total_unread = r1.total_unread /\ rq.isHistoryFull = full
    BY <1>4, <1>5, <1>6 DEF ReaderOK, ReaderState
<1>8. SameBut(rd, rq, w) /\ rq.matched_writers[w] = wq
    BY <1>1, <1>7 DEF SameBut, ReaderState
<1>9. Kept(r1)
    BY <1>5 DEF Stored, Kept
<1>10. Advanced(r1, rq, w, N)
    <2>1. Covers(r1, w, N)
        BY <1>5, <1>6 DEF Stored, Covers
    <2>2. /\ Advances(r1.matched_writers[w], wq) /\ Settles(r1.matched_writers[w], wq, N)
          /\ rq.matched_writers = [r1.matched_writers EXCEPT ![w] = wq]
          /\ rq.isHistoryFull = r1.isHistoryFull
        BY <1>5, <1>6, <1>7
    <2>3. Consistent(wq) /\ w \in Writers /\ ReaderOK(r1)
        BY <1>1, <1>4, <1>6
    <2> HIDE DEF w, wp
    <2> QED
        BY <1>7, <1>9, <2>1, <2>2, <2>3, Advance
<1>11. ASSUME Whole(rd)
       PROVE  Whole(rq) /\ (Exact(rd) => Exact(rq))
    <2>1. Pending(r1)
        BY <1>5, <1>11 DEF Whole, Pending
    <2>2. Spares(r1, w, N)
        BY <1>5, <1>6 DEF ChangesFrom, Spares
    <2>3. SameCount(rd, rq)
        <3>1. Unread(r1) = Unread(rd)
            BY <1>1, <1>2, <1>5 DEF Unread
        <3> QED
            BY <1>5, <1>10, <3>1 DEF SameCount, Advanced
    <2>4. Pending(rq)
        BY <1>10, <2>1, <2>2 DEF Advanced
    <2>5. ASSUME rq.isHistoryFull
          PROVE  \E d \in rq.history : Drainable(rq, d)
        <3>1. PICK d \in ChangesFrom(r1, w) : 0 .. (d.seq - 1) \subseteq N
            BY <1>6, <1>7, <2>5
        <3>2. d \in rq.history /\ d.writer = w /\ d.seq \in Nat /\ d.seq # 0
            BY <1>4, <1>7, <3>1, ChangeTypes DEF ChangesFrom
        <3>3. \A m \in 0 .. (d.seq - 1) : change_was_received(wq, m)
            BY <1>6, <3>1, <3>2 DEF Settles
        <3>4. d.seq - 1 <= wq.low_mark /\ wq.low_mark \in Nat
              /\ ~change_was_received(wq, wq.low_mark + 1)
            BY <1>6, <3>2, <3>3, LowMarkIsExact
        <3>5. CASE d.seq <= wq.low_mark
            BY <1>8, <3>2, <3>5 DEF Drainable
        <3>6. CASE ~(d.seq <= wq.low_mark)
            <4>1. d.seq = wq.low_mark + 1
                BY <3>2, <3>4, <3>6
            <4>2. ~is_fully_assembled(d)
                BY <1>8, <1>10, <3>2, <3>4, <4>1 DEF Advanced, Stored
            <4> QED
                BY <1>8, <3>2, <4>1, <4>2 DEF Drainable
        <3> QED
            BY <3>5, <3>6
    <2> QED
        BY <1>11, <2>3, <2>4, <2>5 DEF Whole, Drains, SameCount, Counted, Exact
<1> QED
    BY <1>5, <1>6, <1>7, <1>8, <1>10, <1>11, Zenon DEF rq, full, Advanced, Added, Keeps

\* NotifyChanges skips no change: it tells of the first one there is to tell of.
LEMMA NextIsFirst ==
    ASSUME NEW rd, ReaderOK(rd), NEW w \in Writers, NEW upto \in Nat,
           \A c \in NextToNotify(rd, w) : c.seq = upto,
           NEW c \in ChangesToNotify(rd, w), c.seq <= upto \/ NextToNotify(rd, w) = {}
    PROVE  c \in NextToNotify(rd, w)
<1> DEFINE all  == ChangesToNotify(rd, w)
           seqs == {d.seq : d \in all}
<1>1. \A d \in all : d.seq \in Nat
    BY ChangeTypes DEF ChangesToNotify, ChangesFrom
<1>2. seqs \in SUBSET Nat /\ c.seq \in seqs
    BY <1>1
<1>3. PICK m \in seqs : \A k \in seqs : m <= k
    BY Zenon, <1>2, LeastNatural
<1>4. PICK d \in all : d.seq = m
    BY <1>3
<1>5. d \in NextToNotify(rd, w)
    BY <1>3, <1>4 DEF NextToNotify
<1>6. c.seq <= m /\ c.seq \in Nat /\ m \in Nat
    BY <1>1, <1>4, <1>5
<1>7. \A e \in all : c.seq <= e.seq
    BY <1>1, <1>3, <1>6
<1> QED
    BY <1>7 DEF NextToNotify

\* An iteration of NotifyChanges counts the change it tells of, and no other.
LEMMA NotifyWhole ==
    ASSUME NEW rd, ReaderOK(rd), Stored(rd), NEW w \in Writers, CaughtUp(rd, {w})
    PROVE  LET rq == NotifyChanges(rd, w)
           IN  /\ Stored(rq) /\ SameBut(rd, rq, w) /\ CaughtUp(rq, {w})
               /\ NextToNotify(rd, w) = {} => CaughtUp(rq, {})
               /\ Keeps(rd, rq)
               /\ rq.isHistoryFull = rd.isHistoryFull
               /\ rq.matched_writers[w].is_alive = rd.matched_writers[w].is_alive
               /\ Settles(rd.matched_writers[w], rq.matched_writers[w], {})
<1> DEFINE rq   == NotifyChanges(rd, w)
           wp   == rd.matched_writers[w]
           new  == NextToNotify(rd, w)
           upto == IF new = {} THEN wp.low_mark ELSE CHOOSE n \in {c.seq : c \in new} : TRUE
           wq   == notified_until(wp, upto)
           rec  == IF rd.history_record[w] < wp.low_mark THEN wp.low_mark ELSE rd.history_record[w]
<1>1. /\ rd \in ReaderState /\ Consistent(wp) /\ IsFiniteSet(rd.history)
      /\ wp.low_mark \in Nat /\ wp.last_notified \in Nat
      /\ rd.matched_writers \in [Writers -> WriterProxyState] /\ rd.total_unread \in Nat
    BY ReaderTypes DEF ReaderOK
<1>2. rq = [rd EXCEPT !.history_record[w] = rec, !.matched_writers[w] = wq,
                      !.total_unread = rd.total_unread + Cardinality(new)]
    BY DEF NotifyChanges, available_changes_max
<1>3. /\ new \subseteq rd.history
      /\ upto \in Nat /\ wp.last_notified <= upto /\ upto <= wp.low_mark
      /\ \A c \in new : c.seq = upto /\ wp.last_notified < c.seq
    BY Zenon, NextNumber
<1>4. new = {} => upto = wp.low_mark
    OBVIOUS
<1> HIDE DEF upto
<1>5. /\ wq.low_mark = wp.low_mark /\ wq.last_notified = upto
      /\ wq.is_alive = wp.is_alive /\ Settles(wp, wq, {})
    BY Zenon, <1>1, <1>3, NotifiedConsistent
<1>6. ASSUME NEW c \in rd.history, c.writer = w
      PROVE  c \in new <=> (wp.last_notified < c.seq /\ c.seq <= upto /\ ~c.isRead)
    <2>1. c.seq \in Nat
        BY ChangeTypes
    <2>2. c \in ChangesToNotify(rd, w) <=>
            (wp.last_notified < c.seq /\ c.seq <= wp.low_mark /\ ~c.isRead)
        BY <1>6 DEF ChangesToNotify, ChangesFrom
    <2>3. new \subseteq ChangesToNotify(rd, w)
        BY DEF NextToNotify
    <2>4. (c \in ChangesToNotify(rd, w) /\ c.seq <= upto) => c \in new
        BY <1>3, NextIsFirst
    <2> HIDE DEF new
    <2> QED
        BY <1>1, <1>3, <2>1, <2>2, <2>3, <2>4
<1> HIDE DEF rq, wq, new, rec
<1>7. /\ rq.matched_writers = [rd.matched_writers EXCEPT ![w] = wq]
      /\ rq.history = rd.history /\ rq.history_kind = rd.history_kind
      /\ rq.isHistoryFull = rd.isHistoryFull
      /\ rq.total_unread = rd.total_unread + Cardinality(new)
    BY <1>1, <1>2 DEF ReaderState
<1>8. rq.matched_writers[w] = wq /\ SameBut(rd, rq, w)
    BY <1>1, <1>7 DEF SameBut
<1>9. CaughtUp(rq, {w}) /\ (new = {} => CaughtUp(rq, {}))
    BY <1>4, <1>5, <1>8 DEF CaughtUp, SameBut
<1>10. ASSUME NEW c \in rd.history
       PROVE  /\ rq.matched_writers[c.writer].is_alive = rd.matched_writers[c.writer].is_alive
              /\ rq.matched_writers[c.writer].low_mark = rd.matched_writers[c.writer].low_mark
              /\ change_was_received(rq.matched_writers[c.writer], c.seq)
                   <=> change_was_received(rd.matched_writers[c.writer], c.seq)
    BY <1>5, <1>8, ChangeTypes DEF SameBut, Settles
<1>11. Stored(rq)
    BY <1>7, <1>10 DEF Stored, Kept
<1>12. Pending(rd) => Pending(rq)
    BY <1>7, <1>10 DEF Pending
<1>13. Drains(rd) => Drains(rq)
    <2>1. \A c \in rd.history : Drainable(rd, c) <=> Drainable(rq, c)
        BY <1>10 DEF Drainable
    <2> QED
        BY <1>7, <2>1, Zenon DEF Drains
<1>14. Unread(rq) = Unread(rd) \cup new /\ Unread(rd) \cap new = {}
    <2>1. ASSUME NEW c \in rd.history
          PROVE  /\ c \in Unread(rq) <=> (c \in Unread(rd) \/ c \in new)
                 /\ ~(c \in Unread(rd) /\ c \in new)
        <3>1. /\ c.writer \in Writers /\ c.seq \in Nat
              /\ rd.matched_writers[c.writer].last_notified \in Nat
            BY ChangeTypes
        <3>2. CASE c.writer = w
            <4>1. c \in Unread(rq) <=> (~c.isRead /\ c.seq <= upto)
                BY <1>5, <1>7, <1>8, <3>2 DEF Unread
            <4>2. c \in Unread(rd) <=> (~c.isRead /\ c.seq <= wp.last_notified)
                BY <3>2 DEF Unread
            <4> QED
                BY <1>1, <1>3, <1>6, <3>1, <3>2, <4>1, <4>2
        <3>3. CASE c.writer # w
            <4>1. c \notin new
                BY <3>3 DEF new, NextToNotify, ChangesToNotify, ChangesFrom
            <4> QED
                BY <1>7, <1>8, <3>1, <3>3, <4>1 DEF Unread, SameBut
        <3> QED
            BY <3>2, <3>3
    <2>2. Unread(rq) \subseteq rd.history /\ Unread(rd) \subseteq rd.history
        BY <1>7 DEF Unread
    <2> QED
        BY <1>3, <2>1, <2>2
<1>15. Cardinality(Unread(rq)) = Cardinality(Unread(rd)) + Cardinality(new)
       /\ Cardinality(Unread(rd)) \in Nat /\ Cardinality(new) \in Nat
    <2>1. Unread(rd) \subseteq rd.history
        BY DEF Unread
    <2>2. /\ IsFiniteSet(new) /\ IsFiniteSet(Unread(rd))
          /\ Cardinality(new) \in Nat /\ Cardinality(Unread(rd)) \in Nat
        BY <1>1, <1>3, <2>1, SubsetFinite
    <2>3. Cardinality(Unread(rq)) =
            Cardinality(Unread(rd)) + Cardinality(new) - Cardinality(Unread(rd) \cap new)
        BY <1>14, <2>2, FS_Union
    <2>4. Cardinality(Unread(rd) \cap new) = 0
        BY <1>14, FS_EmptySet
    <2> QED
        BY <2>2, <2>3, <2>4
<1>16. Keeps(rd, rq)
    <2>1. (Counted(rd) => Counted(rq)) /\ (Exact(rd) => Exact(rq))
        BY <1>1, <1>7, <1>15 DEF Counted, Exact
    <2> QED
        BY <1>12, <1>13, <2>1 DEF Keeps, Whole
<1> QED
    BY <1>5, <1>7, <1>8, <1>9, <1>11, <1>16 DEF rq, new

----------------------------------------------------------------------------
\* What the last call of a handler leaves, once the handler has moved only the
\* proxy of w.
LEMMA NotifyHInv ==
    ASSUME HInv, IInv', NEW rd, ReaderOK(rd), Stored(rd), NEW w \in Writers,
           telling \subseteq {w}, SameBut(reader, rd, w), rd.matched_writers[w].is_alive,
           ListsSpareFragmented => Sound(rd), Notify(rd, w), UNCHANGED early
    PROVE  /\ HInv' /\ SameBut(reader, reader', w)
           /\ reader'.isHistoryFull = rd.isHistoryFull
           /\ reader'.matched_writers[w].is_alive = rd.matched_writers[w].is_alive
           /\ Settles(rd.matched_writers[w], reader'.matched_writers[w], {})
<1>1. /\ reader' = NotifyChanges(rd, w)
      /\ telling' = IF NextToNotify(rd, w) = {} THEN {} ELSE {w}
    BY DEF Notify
<1>2. CaughtUp(rd, {w})
    BY DEF HInv, CaughtUp, SameBut
<1>3. /\ Stored(reader') /\ SameBut(rd, reader', w) /\ CaughtUp(reader', {w})
      /\ NextToNotify(rd, w) = {} => CaughtUp(reader', {})
      /\ Keeps(rd, reader')
      /\ reader'.isHistoryFull = rd.isHistoryFull
      /\ reader'.matched_writers[w].is_alive = rd.matched_writers[w].is_alive
      /\ Settles(rd.matched_writers[w], reader'.matched_writers[w], {})
    BY <1>1, <1>2, NotifyWhole, Zenon
<1>4. SameBut(reader, reader', w)
    BY <1>3 DEF SameBut
<1>5. Answers(reader')
    BY <1>3, <1>4, Zenon DEF HInv, Answers, SameBut
<1>6. CaughtUp(reader', telling') /\ \A u, v \in telling' : u = v
    BY <1>1, <1>3
<1>7. ListsSpareFragmented => Sound(reader)'
    BY <1>3, Zenon DEF Sound, Keeps
<1> QED
    BY <1>3, <1>4, <1>5, <1>6, <1>7 DEF HInv

\* With room for every sample of every writer the history does not fill.
LEMMA HistoryFits ==
    ASSUME RoomForAll, NEW rd, ReaderOK(rd), Kept(rd)
    PROVE  Cardinality(rd.history) < MaxSamples
<1> DEFINE All == Writers \X (DataNumbers \cup FragNumbers)
           f   == [c \in rd.history |-> <<c.writer, c.seq>>]
<1>1. IsFiniteSet(All) /\ Cardinality(All) < MaxSamples
    BY ReaderAssumption, FS_Product DEF RoomForAll
<1>2. \A c \in rd.history : <<c.writer, c.seq>> \in All
    BY ChangeTypes DEF Kept
<1>3. f \in [rd.history -> All]
    BY <1>2
<1>4. \A c, d \in rd.history : f[c] = f[d] => c = d
    BY DEF Kept
<1> HIDE DEF f, All
<1>5. f \in Injection(rd.history, All)
    BY <1>3, <1>4 DEF Injection, IsInjective
<1>6. Cardinality(rd.history) <= Cardinality(All)
    BY <1>1, <1>5, FS_Injection
<1>7. Cardinality(rd.history) \in Nat /\ Cardinality(All) \in Nat /\ MaxSamples \in Nat
    BY <1>1, FS_CardinalityType, ReaderAssumption DEF ReaderOK
<1> QED
    BY <1>1, <1>6, <1>7

\* received_change and change_stored together, in either kind of history, for
\* a change of a number that is not stored.
LEMMA ReceivedAndStored ==
    ASSUME HInv, telling = {}, NEW c \in Change,
           reader.matched_writers[c.writer].is_alive,
           ~change_was_received(reader.matched_writers[c.writer], c.seq),
           c.seq \in DataNumbers \cup FragNumbers,
           ~is_fully_assembled(c) => c.seq \in FragNumbers,
           \A d \in reader.history : ~(d.writer = c.writer /\ d.seq = c.seq),
           NEW r1 \in received_change(reader, c)
    PROVE  LET rq == change_stored(r1, c)
               w  == c.writer
           IN  /\ ReaderOK(rq) /\ Stored(rq) /\ SameBut(reader, rq, w)
               /\ Keeps(reader, rq)
               /\ RoomForAll => ~rq.isHistoryFull
               /\ \E N : /\ Settles(reader.matched_writers[w], rq.matched_writers[w], N)
                         /\ is_fully_assembled(c) => c.seq \in N
                         /\ ~rq.isHistoryFull =>
                                N = IF is_fully_assembled(c) THEN {c.seq} ELSE {}
<1> DEFINE w  == c.writer
           rq == change_stored(r1, c)
<1>1. ReaderOK(reader) /\ Stored(reader) /\ CaughtUp(reader, {})
    BY DEF HInv, IInv
<1>2. ReaderOK(r1) /\ c \in r1.history
    BY <1>1, ReceivedChangeOK
<1>3. ReaderOK(rq)
    BY <1>2, ChangeStoredOK
<1>4. PICK rd : /\ ReaderOK(rd) /\ Stored(rd)
                /\ rd.matched_writers = reader.matched_writers
                /\ rd.history \subseteq reader.history
                /\ Keeps(reader, rd)
                /\ r1 \in add_received_change(rd, c)
    <2>1. CASE r1 \in add_received_change(reader, c)
        BY <1>1, <2>1 DEF Keeps
    <2>2. CASE \E old \in OldestChanges(reader) :
                    r1 \in add_received_change(remove_change(reader, old), c)
        <3>1. PICK old \in OldestChanges(reader) :
                    r1 \in add_received_change(remove_change(reader, old), c)
            BY <2>2
        <3>2. old \in reader.history
            BY DEF OldestChanges
        <3>3. reader.matched_writers[old.writer].last_notified
                = reader.matched_writers[old.writer].low_mark
            BY <1>1, <3>2, ChangeTypes DEF CaughtUp
        <3> DEFINE rd == remove_change(reader, old)
        <3>4. /\ ReaderOK(rd) /\ Stored(rd)
              /\ rd.matched_writers = reader.matched_writers
              /\ rd.history = reader.history \ {old}
              /\ Keeps(reader, rd)
            BY <1>1, <3>2, <3>3, RemoveChangeWhole
        <3> HIDE DEF rd
        <3> QED
            BY <3>1, <3>4 DEF rd
    <2> QED
        BY <2>1, <2>2 DEF received_change, received_change_keep_all_no_key,
                          received_change_keep_last_no_key
<1>5. /\ Stored(rq) /\ SameBut(rd, rq, w)
      /\ Keeps(rd, rq)
      /\ rq.history = rd.history \cup {c}
      /\ rq.isHistoryFull = (Cardinality(rd.history) + 1 = MaxSamples)
      /\ \E N : /\ Settles(rd.matched_writers[w], rq.matched_writers[w], N)
                /\ is_fully_assembled(c) => c.seq \in N
                /\ ~rq.isHistoryFull => N = IF is_fully_assembled(c) THEN {c.seq} ELSE {}
    <2>1. Added(rd, rq, c)
        BY <1>4, ChangeAdded
    <2> HIDE DEF rq
    <2> QED
        BY <2>1 DEF Added
<1> HIDE DEF rq
<1>6. ASSUME RoomForAll
      PROVE  ~rq.isHistoryFull
    <2>1. Cardinality(rq.history) < MaxSamples
        BY <1>3, <1>5, <1>6, HistoryFits, Zenon DEF Stored
    <2>2. c \notin rd.history
        BY <1>4
    <2>3. Cardinality(rq.history) = Cardinality(rd.history) + 1
        BY <1>4, <1>5, <2>2, FS_AddElement, Zenon DEF ReaderOK
    <2>4. Cardinality(rd.history) \in Nat /\ MaxSamples \in Nat
        BY <1>4, FS_CardinalityType, ReaderAssumption DEF ReaderOK
    <2>5. Cardinality(rd.history) + 1 # MaxSamples
        BY <2>1, <2>3, <2>4
    <2> QED
        BY Zenon, <1>5, <2>5
<1>7. Keeps(reader, rq) /\ SameBut(reader, rq, w)
    BY <1>4, <1>5, Zenon DEF Keeps, SameBut
<1> QED
    BY <1>3, <1>4, <1>5, <1>6, <1>7 DEF rq

----------------------------------------------------------------------------
\* What a step does to the two invariants about the history variables.
Remembers ==
    /\ Heard => Heard'
    /\ RoomForAll /\ Faithful => Faithful'

\* A handler that settles N for writer w, when S is what it was told.
LEMMA Remembered ==
    ASSUME NEW w \in Matched, NEW N, NEW S,
           SameBut(reader, reader', w),
           Settles(reader.matched_writers[w], reader'.matched_writers[w], N),
           arrived'[w] \cup excused'[w] = arrived[w] \cup excused[w] \cup S,
           \A v \in Writers : v # w => arrived'[v] = arrived[v] /\ excused'[v] = excused[v],
           S \subseteq N,
           RoomForAll /\ Faithful => N \subseteq S \cup {0} /\ ~reader'.isHistoryFull
    PROVE  Remembers
<1>1. ASSUME NEW v \in Matched'
      PROVE  v \in Matched
    BY DEF Matched, SameBut
<1>2. w \in Writers
    BY DEF Matched
<1>3. ASSUME Heard, NEW v \in Matched', NEW n \in Nat \ {0}, n \in arrived'[v] \cup excused'[v]
      PROVE  change_was_received(reader'.matched_writers[v], n)
    <2>1. CASE v = w
        BY <1>1, <1>3, <2>1 DEF Heard, Settles
    <2>2. CASE v # w
        BY <1>1, <1>3, <2>2 DEF Heard, SameBut, Matched
    <2> QED
        BY <2>1, <2>2
<1>4. ASSUME RoomForAll, Faithful, NEW v \in Matched', NEW n \in Nat \ {0},
             change_was_received(reader'.matched_writers[v], n)
      PROVE  n \in arrived'[v] \cup excused'[v]
    <2>1. CASE v = w
        BY <1>1, <1>4, <2>1 DEF Faithful, Settles
    <2>2. CASE v # w
        BY <1>1, <1>4, <2>2 DEF Faithful, SameBut, Matched
    <2> QED
        BY <2>1, <2>2
<1> QED
    BY <1>3, <1>4 DEF Remembers, Heard, Faithful

\* Storing a new change, then notifying.
LEMMA NewChangeStep ==
    ASSUME HInv, telling = {}, IInv', NEW c \in Change, NEW w \in Writers, c.writer = w,
           w \in Matched,
           ~change_was_received(reader.matched_writers[w], c.seq),
           c.seq \in DataNumbers \cup FragNumbers,
           ~is_fully_assembled(c) => c.seq \in FragNumbers,
           \A d \in reader.history : ~(d.writer = w /\ d.seq = c.seq),
           NEW rd \in received_change(reader, c), Notify(change_stored(rd, c), w),
           arrived' = IF is_fully_assembled(c)
                      THEN [arrived EXCEPT ![w] = arrived[w] \cup {c.seq}] ELSE arrived,
           UNCHANGED <<excused, early>>
    PROVE  HInv' /\ Remembers
<1> DEFINE rq == change_stored(rd, c)
           S  == IF is_fully_assembled(c) THEN {c.seq} ELSE {}
<1>1. PICK N :
            /\ ReaderOK(rq) /\ Stored(rq) /\ SameBut(reader, rq, w)
            /\ Keeps(reader, rq)
            /\ RoomForAll => ~rq.isHistoryFull
            /\ Settles(reader.matched_writers[w], rq.matched_writers[w], N)
            /\ is_fully_assembled(c) => c.seq \in N
            /\ ~rq.isHistoryFull => N = S
    BY ReceivedAndStored, Zenon DEF Matched
<1> HIDE DEF rq
<1>2. ListsSpareFragmented => Sound(rq)
    BY <1>1, Zenon DEF HInv, Sound, Keeps
<1>3. Notify(rq, w)
    BY DEF rq
<1>4. /\ HInv' /\ SameBut(reader, reader', w)
      /\ reader'.isHistoryFull = rq.isHistoryFull
      /\ Settles(rq.matched_writers[w], reader'.matched_writers[w], {})
    <2>1. ReaderOK(rd) /\ Untouched(reader, rd) /\ c \in rd.history
        BY ReceivedChangeOK, Zenon DEF HInv, IInv
    <2>2. rq.matched_writers[w].is_alive
        BY <2>1, ChangeStoredOK DEF rq, Untouched, Matched, Steady
    <2> QED
        BY <1>1, <1>2, <1>3, <2>2, NotifyHInv, Zenon
<1>5. Settles(reader.matched_writers[w], reader'.matched_writers[w], N)
    BY <1>1, <1>4 DEF Settles
<1>6. /\ arrived'[w] = arrived[w] \cup S
      /\ \A v \in Writers : v # w => arrived'[v] = arrived[v]
    BY DEF HInv, IInv, TypeOK
<1>7. S \subseteq N
    BY <1>1
<1>8. RoomForAll => N = S /\ ~reader'.isHistoryFull
    BY Zenon, <1>1, <1>4
<1> HIDE DEF S
<1>9. arrived'[w] \cup excused'[w] = arrived[w] \cup excused[w] \cup S
    BY <1>6
<1>10. Remembers
    BY <1>4, <1>5, <1>6, <1>7, <1>8, <1>9, Remembered, Zenon
<1> QED
    BY <1>4, <1>10

\* processDataMsg: no other change of the number is there, since a complete one
\* would be settled and an incomplete one was sent in fragments.
LEMMA DataHistory ==
    ASSUME SentOneWay, HInv, telling = {}, IInv',
           NEW w \in Writers, NEW n \in DataNumbers, processDataMsg(w, n)
    PROVE  HInv' /\ Remembers
<1> DEFINE c == NewChange(w, n, {})
<1>1. n \in Nat \ {0}
    BY EnvironmentAssumption
<1>2. c \in Change /\ c.writer = w /\ c.seq = n /\ is_fully_assembled(c)
    BY <1>1 DEF NewChange, Change, is_fully_assembled
<1>3. /\ w \in Matched /\ ~change_was_received(reader.matched_writers[w], n)
      /\ arrived' = [arrived EXCEPT ![w] = arrived[w] \cup {n}]
      /\ UNCHANGED <<excused, early>>
    BY DEF processDataMsg
<1>4. \A d \in reader.history : ~(d.writer = w /\ d.seq = n)
    BY <1>3 DEF HInv, Stored, Kept, SentOneWay
<1>5. PICK rd \in received_change(reader, c) : Notify(change_stored(rd, c), w)
    BY DEF processDataMsg
<1> HIDE DEF c
<1> QED
    BY <1>2, <1>3, <1>4, <1>5, NewChangeStep, Zenon

\* What a fragment leaves behind when it joins its change c, which becomes d.
Joined(rd, c, d, w, n) ==
    /\ ReaderOK(rd) /\ Kept(rd)
    /\ rd.matched_writers = reader.matched_writers
    /\ rd.history = (reader.history \ {c}) \cup {d}
    /\ rd.history_kind = reader.history_kind
    /\ rd.isHistoryFull = reader.isHistoryFull
    /\ rd.total_unread = reader.total_unread
    /\ c \in reader.history /\ ~is_fully_assembled(c) /\ c.writer = w /\ c.seq = n
    /\ d.writer = w /\ d.seq = n
    /\ \A x \in reader.history \ {c} : ~(x.writer = w /\ x.seq = n)
    /\ \A x \in reader.history \ {c} :
        is_fully_assembled(x) => change_was_received(reader.matched_writers[x.writer], x.seq)
    /\ Whole(reader) => Pending(rd) /\ SameCount(reader, rd)

\* A fragment that joins its change: same number, fewer missing fragments.
LEMMA FragmentJoined ==
    ASSUME HInv, NEW w \in Writers, NEW n \in Nat, NEW c \in Partial(reader, w, n),
           NEW M \in SUBSET Fragments, NEW d, d = [c EXCEPT !.missing = M],
           NEW rd, rd = [reader EXCEPT !.history = (reader.history \ {c}) \cup {d}]
    PROVE  Joined(rd, c, d, w, n)
<1>1. /\ ReaderOK(reader) /\ reader \in ReaderState /\ Stored(reader) /\ Kept(reader)
      /\ reader.history \in SUBSET Change /\ IsFiniteSet(reader.history)
    BY DEF HInv, IInv, ReaderOK, ReaderState, Stored
<1>2. c \in reader.history /\ ~is_fully_assembled(c) /\ c.writer = w /\ c.seq = n
    BY DEF Partial, ChangesFrom
<1>3. c \in Change
    BY <1>1, <1>2
<1>4. /\ d \in Change /\ d.writer = w /\ d.seq = n /\ d.isRead = c.isRead
    BY <1>2, <1>3 DEF Change
<1>5. \A x \in reader.history \ {c} : ~(x.writer = w /\ x.seq = n)
    BY <1>1, <1>2 DEF Kept
<1> DEFINE H == (reader.history \ {c}) \cup {d}
<1>6. H \in SUBSET Change
    BY <1>1, <1>4
<1>7. IsFiniteSet(H)
    <2>1. IsFiniteSet(reader.history \ {c})
        BY <1>1, SubsetFinite
    <2> QED
        BY <2>1, FS_AddElement, Zenon
<1> HIDE DEF H
<1>8. /\ rd \in ReaderState /\ rd.history = H
      /\ rd.matched_writers = reader.matched_writers
      /\ rd.history_record = reader.history_record
      /\ rd.history_kind = reader.history_kind
      /\ rd.isHistoryFull = reader.isHistoryFull
      /\ rd.total_unread = reader.total_unread
    <2>1. rd = [reader EXCEPT !.history = H]
        BY DEF H
    <2> QED
        BY <1>1, <1>6, <2>1 DEF ReaderState
<1>9. ReaderOK(rd)
    BY <1>1, <1>7, <1>8, HistoryStep, Zenon
<1>10. Kept(rd)
    <2>1. \A x, y \in H : (x.writer = y.writer /\ x.seq = y.seq) => x = y
        BY <1>1, <1>4, <1>5, Zenon DEF H, Kept
    <2>2. /\ reader.matched_writers[w].is_alive
          /\ n \in DataNumbers \cup FragNumbers /\ n \in FragNumbers
        BY <1>1, <1>2 DEF Kept
    <2>3. ASSUME NEW x \in H
          PROVE  /\ reader.matched_writers[x.writer].is_alive
                 /\ x.seq \in DataNumbers \cup FragNumbers
                 /\ ~is_fully_assembled(x) => x.seq \in FragNumbers
        <3>1. CASE x = d
            BY <1>4, <2>2, <3>1
        <3>2. CASE x # d
            BY <1>1, <3>2 DEF H, Kept
        <3> QED
            BY <3>1, <3>2
    <2> QED
        BY <1>8, <2>1, <2>3 DEF Kept
<1>11. ASSUME Whole(reader)
       PROVE  Pending(rd) /\ SameCount(reader, rd)
    <2>1. ~change_was_received(reader.matched_writers[w], n)
        BY <1>2, <1>11 DEF Whole, Pending
    <2>2. Pending(rd)
        BY <1>4, <1>8, <1>11, <2>1, Zenon DEF H, Whole, Pending
    <2>3. ~(n <= reader.matched_writers[w].last_notified)
        BY <1>1, <2>1, ReaderTypes DEF change_was_received
    <2>4. Unread(rd) = Unread(reader)
        BY <1>2, <1>4, <1>8, <2>3, Zenon DEF H, Unread
    <2> QED
        BY <1>8, <2>2, <2>4 DEF SameCount
<1> QED
    BY <1>1, <1>2, <1>4, <1>5, <1>8, <1>9, <1>10, <1>11 DEF H, Stored, Joined

\* A fragment that leaves its change incomplete.
LEMMA FragmentKept ==
    ASSUME HInv, IInv', NEW w \in Writers, NEW n \in Nat, NEW c \in Partial(reader, w, n),
           NEW M \in SUBSET Fragments, NEW d, d = [c EXCEPT !.missing = M], ~is_fully_assembled(d),
           reader' = [reader EXCEPT !.history = (reader.history \ {c}) \cup {d}],
           UNCHANGED <<telling, arrived, excused, early>>
    PROVE  HInv' /\ Remembers
<1>1. /\ Kept(reader')
      /\ reader'.matched_writers = reader.matched_writers
      /\ reader'.history = (reader.history \ {c}) \cup {d}
      /\ reader'.history_kind = reader.history_kind
      /\ reader'.isHistoryFull = reader.isHistoryFull
      /\ c \in reader.history /\ ~is_fully_assembled(c) /\ c.writer = w /\ c.seq = n
      /\ d.writer = w /\ d.seq = n
      /\ \A x \in reader.history \ {c} :
            is_fully_assembled(x) => change_was_received(reader.matched_writers[x.writer], x.seq)
      /\ Whole(reader) => Pending(reader') /\ SameCount(reader, reader')
    <2>1. Joined(reader', c, d, w, n)
        BY FragmentJoined, Zenon
    <2> QED
        BY <2>1 DEF Joined
<1>2. Stored(reader')
    BY <1>1 DEF Stored
<1>3. ASSUME Whole(reader)
      PROVE  Drains(reader')
    <2>1. ASSUME NEW x \in reader.history, Drainable(reader, x)
          PROVE  \E y \in reader'.history : Drainable(reader', y)
        <3>1. CASE x = c
            BY <1>1, <2>1, <3>1, Zenon DEF Drainable
        <3>2. CASE x # c
            BY <1>1, <2>1, <3>2 DEF Drainable
        <3> QED
            BY <3>1, <3>2, Zenon
    <2> QED
        BY <1>1, <1>3, <2>1, Zenon DEF Whole, Drains
<1>4. CaughtUp(reader', telling') /\ Answers(reader') /\ \A u, v \in telling' : u = v
    BY <1>1 DEF HInv, CaughtUp, Answers
<1>5. Keeps(reader, reader')
    BY <1>1, <1>3 DEF Keeps, Whole, SameCount, Counted, Exact
<1>6. HInv'
    BY <1>2, <1>4, <1>5, Zenon DEF HInv, Sound, Keeps
<1>7. Remembers
    BY <1>1 DEF Remembers, Heard, Faithful, Matched
<1> QED
    BY <1>6, <1>7

\* The fragment that completes its change: it is settled, and available at once
\* if it is the next one.
LEMMA FragmentCompletes ==
    ASSUME HInv, telling = {}, IInv',
           NEW w \in Matched, NEW n \in Nat, NEW c \in Partial(reader, w, n),
           NEW M \in SUBSET Fragments, NEW d, d = [c EXCEPT !.missing = M], is_fully_assembled(d),
           NEW rd, rd = [reader EXCEPT !.history = (reader.history \ {c}) \cup {d}],
           Notify([rd EXCEPT !.matched_writers[w] =
                        received_change_set(rd.matched_writers[w], n)], w),
           arrived' = [arrived EXCEPT ![w] = arrived[w] \cup {n}], UNCHANGED <<excused, early>>
    PROVE  HInv' /\ Remembers
<1> DEFINE wp == reader.matched_writers[w]
           wq == received_change_set(wp, n)
           rq == [rd EXCEPT !.matched_writers[w] = wq]
<1>0. w \in Writers
    BY DEF Matched
<1>1. /\ ReaderOK(rd) /\ Kept(rd)
      /\ rd.matched_writers = reader.matched_writers
      /\ rd.history = (reader.history \ {c}) \cup {d}
      /\ rd.history_kind = reader.history_kind
      /\ rd.isHistoryFull = reader.isHistoryFull
      /\ c \in reader.history /\ ~is_fully_assembled(c) /\ c.writer = w /\ c.seq = n
      /\ d.writer = w /\ d.seq = n
      /\ \A x \in reader.history \ {c} : ~(x.writer = w /\ x.seq = n)
      /\ \A x \in reader.history \ {c} :
            is_fully_assembled(x) => change_was_received(reader.matched_writers[x.writer], x.seq)
      /\ Whole(reader) => Pending(rd) /\ SameCount(reader, rd)
    <2>1. Joined(rd, c, d, w, n)
        BY <1>0, FragmentJoined, Zenon
    <2> QED
        BY <2>1 DEF Joined
<1>2. Consistent(wp)
    BY <1>0 DEF HInv, IInv, ReaderOK
<1>3. Consistent(wq) /\ Advances(wp, wq) /\ Settles(wp, wq, {n})
    BY <1>2, ReceivedChangeConsistent
<1>4. Notify(rq, w)
    BY <1>1
<1> HIDE DEF wq
<1>5. ReaderOK(rq)
    BY <1>0, <1>1, <1>3, ProxyStep, Zenon
<1>6. /\ rq.matched_writers = [rd.matched_writers EXCEPT ![w] = wq]
      /\ rq.history = rd.history /\ rq.history_kind = rd.history_kind
      /\ rq.total_unread = rd.total_unread /\ rq.isHistoryFull = rd.isHistoryFull
      /\ rd.matched_writers \in [Writers -> WriterProxyState]
    BY <1>1 DEF ReaderOK, ReaderState
<1> HIDE DEF rq
<1>7. rq.matched_writers[w] = wq /\ SameBut(reader, rq, w)
    BY <1>0, <1>1, <1>6 DEF SameBut
<1>8. Covers(rd, w, {n})
    BY <1>1, Zenon DEF Covers
<1>9. Advanced(rd, rq, w, {n})
    <2>1. /\ Consistent(wq) /\ Advances(rd.matched_writers[w], wq)
          /\ Settles(rd.matched_writers[w], wq, {n})
        BY <1>1, <1>3
    <2>2. ReaderOK(rd) /\ Kept(rd)
        BY <1>1
    <2> QED
        BY <1>0, <1>6, <1>8, <2>1, <2>2, Advance, Zenon
<1>10. ASSUME Whole(reader)
       PROVE  Whole(rq) /\ SameCount(reader, rq)
    <2>1. Spares(rd, w, {n})
        BY <1>1 DEF ChangesFrom, Spares
    <2>2. /\ Pending(rq) /\ SameCount(rd, rq)
          /\ \A x \in rd.history : Drainable(rd, x) => Drainable(rq, x)
        BY <1>1, <1>9, <1>10, <2>1, Zenon DEF Advanced
    <2>3. ASSUME NEW x \in reader.history, Drainable(reader, x)
          PROVE  \E y \in rq.history : Drainable(rq, y)
        <3>1. CASE x = c
            <4>1. wp.low_mark \in Nat /\ wq.low_mark \in Nat /\ n <= wp.low_mark + 1
                BY <1>1, <1>2, <1>3, <2>3, <3>1, LowMarkIsExact DEF Drainable
            <4>2. \A m \in 0 .. n : change_was_received(wq, m)
                BY <1>3, <4>1 DEF Settles, change_was_received
            <4>3. n <= wq.low_mark
                BY <1>3, <4>2, LowMarkIsExact
            <4> QED
                <5>1. d \in rq.history /\ d.seq <= rq.matched_writers[d.writer].low_mark
                    BY <1>1, <1>6, <1>7, <4>3
                <5> QED
                    BY <5>1, Zenon DEF Drainable
        <3>2. CASE x # c
            <4>1. x \in rd.history /\ Drainable(rd, x)
                BY <1>1, <2>3, <3>2 DEF Drainable
            <4> QED
                BY <1>6, <2>2, <4>1, Zenon
        <3> QED
            BY <3>1, <3>2
    <2>4. Drains(rq)
        BY <1>1, <1>6, <1>10, <2>3 DEF Whole, Drains
    <2>5. SameCount(reader, rq)
        BY <1>1, <1>10, <2>2 DEF SameCount
    <2> QED
        BY <1>10, <2>2, <2>4, <2>5 DEF Whole, Counted, SameCount
<1>11. ListsSpareFragmented => Sound(rq)
    <2>1. Keeps(reader, rq)
        BY <1>10 DEF Keeps, SameCount, Exact
    <2> QED
        BY <2>1, Zenon DEF HInv, Sound, Keeps
<1>12. /\ HInv' /\ SameBut(reader, reader', w)
       /\ reader'.isHistoryFull = rq.isHistoryFull
       /\ Settles(rq.matched_writers[w], reader'.matched_writers[w], {})
    <2>1. rq.matched_writers[w].is_alive
        BY <1>3, <1>7 DEF Advances, Matched
    <2> QED
        BY <1>0, <1>4, <1>5, <1>7, <1>9, <1>11, <2>1, NotifyHInv DEF Advanced
<1>13. Settles(wp, reader'.matched_writers[w], {n})
    BY <1>3, <1>7, <1>12 DEF Settles
<1>14. /\ arrived'[w] \cup excused'[w] = arrived[w] \cup excused[w] \cup {n}
       /\ \A v \in Writers : v # w => arrived'[v] = arrived[v]
    BY <1>0 DEF HInv, IInv, TypeOK
<1>15. Faithful => ~reader'.isHistoryFull
    BY <1>1, <1>6, <1>12 DEF Faithful
<1>16. Remembers
    BY <1>12, <1>13, <1>14, <1>15, Remembered, Zenon
<1> QED
    BY <1>12, <1>16

\* processDataFragMsg, for the first fragment of a change, a later one and the
\* last one.
LEMMA FragmentHistory ==
    ASSUME SentOneWay, HInv, telling = {}, IInv',
           NEW w \in Writers, NEW n \in FragNumbers, NEW f \in Fragments,
           processDataFragMsg(w, n, {f})
    PROVE  HInv' /\ Remembers
<1>1. /\ n \in Nat \ {0} /\ w \in Matched
      /\ ~change_was_received(reader.matched_writers[w], n)
      /\ UNCHANGED <<excused, early>>
    BY EnvironmentAssumption, Zenon DEF processDataFragMsg
<1>2. CASE /\ Partial(reader, w, n) = {}
           /\ LET c == NewChange(w, n, Fragments \ {f})
              IN  \E rd \in received_change(reader, c) :
                    /\ Notify(change_stored(rd, c), w)
                    /\ arrived' = IF is_fully_assembled(c)
                                  THEN [arrived EXCEPT ![w] = arrived[w] \cup {n}] ELSE arrived
    <2> DEFINE c == NewChange(w, n, Fragments \ {f})
    <2>1. c \in Change /\ c.writer = w /\ c.seq = n
        BY <1>1 DEF NewChange, Change
    <2>2. PICK rd \in received_change(reader, c) :
                    /\ Notify(change_stored(rd, c), w)
                    /\ arrived' = IF is_fully_assembled(c)
                                  THEN [arrived EXCEPT ![w] = arrived[w] \cup {n}] ELSE arrived
        BY <1>2
    <2> HIDE DEF c
    <2>3. \A d \in reader.history : ~(d.writer = w /\ d.seq = n)
        BY <1>1, <1>2 DEF HInv, Stored, Kept, Partial, ChangesFrom
    <2> QED
        BY <1>1, <2>1, <2>2, <2>3, NewChangeStep
<1>3. ASSUME NEW c \in Partial(reader, w, n),
             LET d  == [c EXCEPT !.missing = c.missing \ {f}]
                 rd == [reader EXCEPT !.history = (reader.history \ {c}) \cup {d}]
             IN  IF is_fully_assembled(d)
                 THEN /\ Notify([rd EXCEPT !.matched_writers[w] =
                                    received_change_set(rd.matched_writers[w], n)], w)
                      /\ arrived' = [arrived EXCEPT ![w] = arrived[w] \cup {n}]
                 ELSE reader' = rd /\ UNCHANGED <<telling, notified, arrived>>
      PROVE  HInv' /\ Remembers
    <2> DEFINE M  == c.missing \ {f}
               d  == [c EXCEPT !.missing = M]
               rd == [reader EXCEPT !.history = (reader.history \ {c}) \cup {d}]
    <2>1. M \in SUBSET Fragments
        <3>1. c \in reader.history /\ ReaderOK(reader)
            BY DEF HInv, IInv, Partial, ChangesFrom
        <3>2. c \in Change
            BY <3>1, ChangeTypes
        <3> QED
            BY <3>2 DEF Change
    <2>2. CASE is_fully_assembled(d)
        <3>1. /\ Notify([rd EXCEPT !.matched_writers[w] =
                            received_change_set(rd.matched_writers[w], n)], w)
              /\ arrived' = [arrived EXCEPT ![w] = arrived[w] \cup {n}]
            BY <1>3, <2>2
        <3> HIDE DEF M
        <3> QED
            BY <1>1, <2>1, <2>2, <3>1, FragmentCompletes, Zenon
    <2>3. CASE ~is_fully_assembled(d)
        <3>1. reader' = rd /\ UNCHANGED <<telling, notified, arrived>>
            BY <1>3, <2>3
        <3> HIDE DEF M
        <3> QED
            BY <1>1, <2>1, <2>3, <3>1, FragmentKept, Zenon
    <2> QED
        BY <2>2, <2>3
<1> QED
    BY Zenon, <1>2, <1>3 DEF processDataFragMsg

----------------------------------------------------------------------------
(* The handlers other than the reception of samples.                       *)

\* A handler that first removes incomplete changes of a writer, r1, and then
\* settles numbers of it because the writer says they are gone.
LEMMA SweptStep ==
    ASSUME HInv, telling = {}, IInv',
           NEW w \in Matched, NEW N, NEW S, S \subseteq N, N \subseteq S \cup {0},
           NEW r1, ReaderOK(r1), r1.matched_writers = reader.matched_writers,
           r1.history_kind = reader.history_kind, r1.total_unread = reader.total_unread,
           r1.history \subseteq reader.history,
           \A c \in reader.history \ r1.history : ~is_fully_assembled(c),
           r1.isHistoryFull => reader.isHistoryFull,
           HeartbeatsSpareFragmented /\ r1.isHistoryFull => r1.history = reader.history,
           ListsSpareFragmented => Spares(r1, w, N),
           NEW wq, Consistent(wq), Advances(r1.matched_writers[w], wq),
           Settles(r1.matched_writers[w], wq, N),
           Notify([r1 EXCEPT !.matched_writers[w] = wq], w),
           arrived' = arrived, excused' = [excused EXCEPT ![w] = excused[w] \cup S],
           UNCHANGED early
    PROVE  HInv' /\ Remembers
<1> DEFINE rq == [r1 EXCEPT !.matched_writers[w] = wq]
<1>1. /\ w \in Writers /\ ReaderOK(reader) /\ Stored(reader)
      /\ ListsSpareFragmented => Sound(reader)
    BY DEF Matched, HInv, IInv
<1>2. Notify(rq, w)
    OBVIOUS
<1>3. ReaderOK(rq)
    BY <1>1, ProxyStep
<1>4. /\ rq.matched_writers = [r1.matched_writers EXCEPT ![w] = wq]
      /\ rq.history = r1.history /\ rq.history_kind = r1.history_kind
      /\ rq.total_unread = r1.total_unread /\ rq.isHistoryFull = r1.isHistoryFull
      /\ reader.matched_writers \in [Writers -> WriterProxyState]
    BY <1>1 DEF ReaderOK, ReaderState
<1> HIDE DEF rq
<1>5. rq.matched_writers[w] = wq /\ SameBut(reader, rq, w)
    <2>1. rq.matched_writers = [reader.matched_writers EXCEPT ![w] = wq]
        BY <1>4
    <2>2. wq.is_alive = reader.matched_writers[w].is_alive
        BY DEF Advances
    <2> QED
        BY <1>1, <1>4, <2>1, <2>2 DEF SameBut
<1>6. Stored(r1) /\ Kept(r1) /\ Covers(r1, w, N)
    <2>1. Stored(r1)
        BY <1>1, Shrink
    <2> QED
        BY <2>1 DEF Stored, Covers
<1>7. Advanced(r1, rq, w, N)
    BY <1>1, <1>4, <1>6, Advance
<1>8. ASSUME ListsSpareFragmented
      PROVE  Sound(rq)
    <2>1. Pending(reader) /\ Counted(reader) /\ Drains(reader) /\ (early \/ Exact(reader))
        BY <1>1, <1>8, Zenon DEF Sound, Whole
    <2>2. Pending(r1) /\ Drains(r1)
        BY <1>1, <2>1, Shrink
    <2>3. SameCount(reader, r1)
        BY <1>1, <2>1, ShrinkIncomplete
    <2>4. Pending(rq) /\ Drains(rq) /\ SameCount(r1, rq)
        BY <1>7, <1>8, <2>2 DEF Advanced
    <2>5. Counted(rq) /\ (Exact(reader) => Exact(rq))
        BY <2>1, <2>3, <2>4 DEF SameCount, Counted, Exact
    <2> QED
        BY <2>1, <2>4, <2>5, Zenon DEF Sound, Whole
<1>9. /\ HInv' /\ SameBut(reader, reader', w)
      /\ reader'.isHistoryFull = rq.isHistoryFull
      /\ Settles(rq.matched_writers[w], reader'.matched_writers[w], {})
    <2>1. rq.matched_writers[w].is_alive
        BY <1>5 DEF Advances, Matched
    <2> QED
        BY <1>1, <1>2, <1>3, <1>5, <1>7, <1>8, <2>1, NotifyHInv DEF Advanced
<1>10. Settles(reader.matched_writers[w], reader'.matched_writers[w], N)
    BY <1>5, <1>9 DEF Settles
<1>11. /\ arrived'[w] \cup excused'[w] = arrived[w] \cup excused[w] \cup S
       /\ \A v \in Writers : v # w => arrived'[v] = arrived[v] /\ excused'[v] = excused[v]
    BY <1>1 DEF HInv, IInv, TypeOK
<1>12. Faithful => ~reader'.isHistoryFull
    BY <1>4, <1>9 DEF Faithful
<1>13. Remembers
    BY <1>9, <1>10, <1>11, <1>12, Remembered, Zenon
<1> QED
    BY <1>9, <1>13

\* processHeartbeatMsg: what the writer no longer has is settled, and the
\* incomplete changes below its first number leave the history.
LEMMA HeartbeatHistory ==
    ASSUME HInv, telling = {}, IInv',
           NEW w \in Writers, NEW hb \in Heartbeats, processHeartbeatMsg(w, hb)
    PROVE  HInv' /\ Remembers
<1> DEFINE wp   == reader.matched_writers[w]
           wq   == process_heartbeat(wp, hb, DisablePositiveAcks)
           kept == {c \in reader.history : ~(/\ c.writer = w
                                             /\ c.seq < hb.first
                                             /\ ~is_fully_assembled(c))}
           r1   == [reader EXCEPT !.history = kept]
           N    == 0 .. (hb.first - 1)
           S    == 1 .. (hb.first - 1)
<1>1. hb \in [count : Nat \ {0}, first : Nat \ {0}, last : Nat,
              final : BOOLEAN, liveliness : BOOLEAN]
    BY EnvironmentAssumption DEF Heartbeat
<1>2. /\ w \in Matched /\ Notify(heartbeat_applied(reader, w, hb), w)
      /\ excused' = [excused EXCEPT ![w] = excused[w] \cup S] /\ arrived' = arrived
      /\ UNCHANGED early
    BY DEF processHeartbeatMsg
<1>3. ReaderOK(reader) /\ reader \in ReaderState /\ Consistent(wp)
    BY DEF HInv, IInv, ReaderOK
<1>4. Consistent(wq) /\ Advances(wp, wq) /\ Settles(wp, wq, N)
    BY <1>1, <1>3, HeartbeatConsistent, ReaderAssumption
<1>5. S \subseteq N /\ N \subseteq S \cup {0}
    BY <1>1
<1>6. \A c \in ChangesFrom(r1, w) : ~is_fully_assembled(c) => c.seq \notin N
    BY <1>1, <1>3 DEF ReaderState, ChangesFrom
<1>7. kept \subseteq reader.history /\ \A c \in reader.history \ kept : ~is_fully_assembled(c)
    OBVIOUS
<1>spare. HeartbeatsSpareFragmented => kept = reader.history
    <2>1. ASSUME HeartbeatsSpareFragmented, NEW c \in reader.history, ~is_fully_assembled(c)
          PROVE  hb.first <= c.seq /\ c.seq \in Nat
        BY <1>3, <2>1, ChangeTypes DEF HInv, Stored, Kept, HeartbeatsSpareFragmented
    <2> QED
        BY <1>1, <2>1
<1>8. heartbeat_applied(reader, w, hb) = [r1 EXCEPT !.matched_writers[w] = wq]
    <2>1. [reader EXCEPT !.matched_writers[w] = wq].history = reader.history
        BY <1>3 DEF ReaderState
    <2>2. heartbeat_applied(reader, w, hb)
            = [[reader EXCEPT !.matched_writers[w] = wq] EXCEPT !.history = kept]
        BY <2>1 DEF heartbeat_applied, remove_fragmented_changes_until
    <2> HIDE DEF wq, kept
    <2> QED
        BY <1>3, <2>2, Zenon DEF ReaderState
<1> HIDE DEF wq, kept, N, S
<1>9. /\ r1 \in ReaderState /\ r1.history = kept
      /\ r1.matched_writers = reader.matched_writers /\ r1.history_record = reader.history_record
      /\ r1.history_kind = reader.history_kind /\ r1.total_unread = reader.total_unread
      /\ r1.isHistoryFull = reader.isHistoryFull
    BY <1>3, <1>7 DEF ReaderState
<1>10. ReaderOK(r1)
    <2>1. IsFiniteSet(r1.history)
        BY <1>3, <1>7, <1>9, SubsetFinite DEF ReaderOK
    <2> QED
        BY <1>3, <1>9, <2>1, HistoryStep, Zenon
<1>11. Notify([r1 EXCEPT !.matched_writers[w] = wq], w)
    BY <1>2, <1>8
<1> HIDE DEF r1
<1>12. Spares(r1, w, N)
    BY <1>6 DEF Spares
<1>13. Advances(r1.matched_writers[w], wq) /\ Settles(r1.matched_writers[w], wq, N)
    BY <1>4, <1>9
<1> QED
    BY <1>2, <1>4, <1>5, <1>7, <1>9, <1>10, <1>11, <1>12, <1>13, <1>spare, SweptStep, Zenon

\* processGapMsg: the numbers of the GAP are settled, and the incomplete changes
\* of its range leave the history.
LEMMA GapHistory ==
    ASSUME HInv, telling = {}, IInv', NEW w \in Writers, NEW gap \in Gaps, processGapMsg(w, gap)
    PROVE  HInv' /\ Remembers
<1> DEFINE wp   == reader.matched_writers[w]
           gone == GapRemovals(reader, w, gap)
           N    == (gap.start .. (gap.base - 1)) \cup gap.list
           wq   == irrelevant_changes_set(wp, N)
           r1   == [reader EXCEPT !.history = reader.history \ gone,
                                  !.isHistoryFull = reader.isHistoryFull /\ gone = {}]
<1>1. gap.start \in Nat \ {0} /\ gap.base \in Nat \ {0} /\ gap.base + AckWindow \in Nat
    BY EnvironmentAssumption, AckWindowAssumption DEF Gap
<1>2. N \in SUBSET Nat /\ \A n \in N : n <= gap.base + AckWindow
    BY <1>1, EnvironmentAssumption, AckWindowAssumption
<1>3. /\ w \in Matched /\ Notify(gap_applied(reader, w, gap), w)
      /\ excused' = [excused EXCEPT ![w] = excused[w] \cup N] /\ arrived' = arrived
      /\ UNCHANGED early
    <2>1. excused[w] \cup (gap.start .. (gap.base - 1)) \cup gap.list = excused[w] \cup N
        OBVIOUS
    <2> QED
        BY <2>1, Zenon DEF processGapMsg
<1>4. ReaderOK(reader) /\ reader \in ReaderState /\ Consistent(wp) /\ Kept(reader)
    BY DEF HInv, IInv, ReaderOK, Stored
<1>5. gone \subseteq reader.history /\ \A c \in gone : ~is_fully_assembled(c)
    BY DEF GapRemovals, ChangesFrom
<1>6. ASSUME ListsSpareFragmented, NEW c \in reader.history \ gone,
             c.writer = w, ~is_fully_assembled(c)
      PROVE  c.seq \notin N
    <2>1. ~change_was_received(wp, c.seq) /\ c.seq \in FragNumbers
        BY <1>4, <1>6 DEF HInv, Sound, Whole, Pending, Kept
    <2>2. c.seq \notin gap.list
        BY <1>6, <2>1 DEF ListsSpareFragmented
    <2>3. c.seq \notin gap.start .. (gap.base - 1)
        BY <1>6, <2>1 DEF GapRemovals, ChangesFrom
    <2> QED
        BY <2>2, <2>3
<1>7. (reader.isHistoryFull /\ gone = {}) \in BOOLEAN
    OBVIOUS
<1> HIDE DEF N
<1>8. Consistent(wq) /\ Advances(wp, wq) /\ Settles(wp, wq, N)
    BY Zenon, <1>1, <1>2, <1>4, IrrelevantChangesConsistent
<1> HIDE DEF wq, gone
<1>9. /\ r1 \in ReaderState /\ r1.history = reader.history \ gone
      /\ r1.matched_writers = reader.matched_writers /\ r1.history_record = reader.history_record
      /\ r1.history_kind = reader.history_kind /\ r1.total_unread = reader.total_unread
      /\ r1.isHistoryFull = (reader.isHistoryFull /\ gone = {})
    BY Zenon, <1>4, <1>5, <1>7 DEF ReaderState
<1>10. ReaderOK(r1)
    <2>1. IsFiniteSet(r1.history)
        BY <1>4, <1>5, <1>9, SubsetFinite DEF ReaderOK
    <2> QED
        BY <1>4, <1>9, <2>1, HistoryStep, Zenon
<1>11. Notify([r1 EXCEPT !.matched_writers[w] = wq], w)
    <2>1. gap_applied(reader, w, gap) = [r1 EXCEPT !.matched_writers[w] = wq]
        BY <1>4 DEF gap_applied, gone, wq, N, ReaderState
    <2> QED
        BY <1>3, <2>1
<1> HIDE DEF r1
<1>12. ListsSpareFragmented => Spares(r1, w, N)
    BY <1>6, <1>9 DEF Spares, ChangesFrom
<1>13. Advances(r1.matched_writers[w], wq) /\ Settles(r1.matched_writers[w], wq, N)
    BY <1>8, <1>9
<1>14. /\ r1.isHistoryFull => reader.isHistoryFull
       /\ r1.history \subseteq reader.history
       /\ \A c \in reader.history \ r1.history : ~is_fully_assembled(c)
       /\ r1.isHistoryFull => r1.history = reader.history
    BY <1>5, <1>9, Zenon
<1>15. N \subseteq N /\ N \subseteq N \cup {0}
    OBVIOUS
<1> QED
    BY <1>3, <1>8, <1>9, <1>10, <1>11, <1>12, <1>13, <1>14, <1>15, SweptStep, Zenon

\* A step that leaves the history and what the proxies have settled alone.
LEMMA FlagsOnly ==
    ASSUME HInv, IInv',
           reader'.history = reader.history, reader'.history_kind = reader.history_kind,
           reader'.total_unread = reader.total_unread,
           reader'.isHistoryFull = reader.isHistoryFull,
           \A v \in Writers :
                /\ reader'.matched_writers[v].is_alive = reader.matched_writers[v].is_alive
                /\ reader'.matched_writers[v].low_mark = reader.matched_writers[v].low_mark
                /\ reader'.matched_writers[v].last_notified = reader.matched_writers[v].last_notified
                /\ reader'.matched_writers[v].changes_received
                     = reader.matched_writers[v].changes_received
                /\ reader'.matched_writers[v].heartbeat_response
                     => reader.matched_writers[v].heartbeat_response,
           UNCHANGED <<telling, arrived, excused, early>>
    PROVE  HInv' /\ Remembers
<1>1. \A c \in reader.history : c.writer \in Writers
    BY ChangeTypes DEF HInv, IInv
<1>2. \A v \in Writers : \A n : change_was_received(reader'.matched_writers[v], n)
                              <=> change_was_received(reader.matched_writers[v], n)
    BY DEF change_was_received
<1>3. Stored(reader')
    BY <1>1, <1>2 DEF HInv, Stored, Kept
<1>4. CaughtUp(reader', telling') /\ Answers(reader') /\ \A u, v \in telling' : u = v
    BY DEF HInv, CaughtUp, Answers
<1>5. Keeps(reader, reader')
    <2>1. Pending(reader) => Pending(reader')
        BY <1>1, <1>2 DEF Pending
    <2>2. Unread(reader') = Unread(reader)
        BY <1>1 DEF Unread
    <2>3. \A c \in reader.history : Drainable(reader', c) <=> Drainable(reader, c)
        BY <1>1 DEF Drainable
    <2>4. Drains(reader) => Drains(reader')
        BY <2>3, Zenon DEF Drains
    <2> QED
        BY <2>1, <2>2, <2>4 DEF Keeps, Whole, Counted, Exact
<1>6. HInv'
    BY <1>3, <1>4, <1>5, Zenon DEF HInv, Sound, Keeps
<1>7. Remembers
    BY <1>2 DEF Remembers, Heard, Faithful, Matched
<1> QED
    BY <1>6, <1>7

\* The timers of a proxy change its flags and the counters of the messages sent.
LEMMA TimersHistory ==
    ASSUME HInv, IInv', NEW w \in Writers, Timers(w)
    PROVE  HInv' /\ Remembers
<1> DEFINE wp == reader.matched_writers[w]
           wi == [wp EXCEPT !.initial_acknack = FALSE]
           wh == [wp EXCEPT !.heartbeat_response = FALSE]
<1>1. reader \in ReaderState /\ wp \in WriterProxyState
    BY DEF HInv, IInv, ReaderOK, ReaderState
<1>2. /\ wi.is_alive = wp.is_alive /\ wi.low_mark = wp.low_mark
      /\ wi.last_notified = wp.last_notified /\ wi.changes_received = wp.changes_received
      /\ wh.is_alive = wp.is_alive /\ wh.low_mark = wp.low_mark
      /\ wh.last_notified = wp.last_notified /\ wh.changes_received = wp.changes_received
      /\ wi.heartbeat_response = wp.heartbeat_response /\ ~wh.heartbeat_response
    BY <1>1 DEF WriterProxyState
<1>3. \E wq \in {wi, wh} : \E a, b :
        \/ reader' = [reader EXCEPT !.matched_writers[w] = wq]
        \/ reader' = [reader EXCEPT !.matched_writers[w] = wq, !.acknack_count = a]
        \/ reader' = [reader EXCEPT !.matched_writers[w] = wq, !.acknack_count = a,
                                    !.nackfrag_count = b]
    <2>1. CASE perform_initial_ack_nack(w)
        <3>1. reader' = [reader EXCEPT !.matched_writers[w] = wi,
                                       !.acknack_count = reader.acknack_count + 1]
            BY <1>1, <2>1 DEF perform_initial_ack_nack, ReaderState
        <3> HIDE DEF wi, wh
        <3> QED
            BY <3>1, Zenon
    <2>2. CASE perform_heartbeat_response(w)
        <3> DEFINE b == reader.nackfrag_count + Cardinality(PartlyReceived(w))
        <3>1. \/ reader' = [reader EXCEPT !.matched_writers[w] = wh]
              \/ reader' = [reader EXCEPT !.matched_writers[w] = wh,
                                          !.acknack_count = reader.acknack_count + 1,
                                          !.nackfrag_count = b]
            BY <1>1, <2>2 DEF perform_heartbeat_response, ReaderState
        <3> HIDE DEF wi, wh, b
        <3> QED
            BY <3>1, Zenon
    <2> QED
        BY <2>1, <2>2, Zenon DEF Timers
<1> HIDE DEF wi, wh
<1>4. PICK wq \in {wi, wh} :
        /\ reader'.matched_writers = [reader.matched_writers EXCEPT ![w] = wq]
        /\ reader'.history = reader.history /\ reader'.history_kind = reader.history_kind
        /\ reader'.total_unread = reader.total_unread
        /\ reader'.isHistoryFull = reader.isHistoryFull
    BY <1>1, <1>3, Zenon DEF ReaderState
<1>5. UNCHANGED <<telling, arrived, excused, early>>
    BY DEF Timers, perform_initial_ack_nack, perform_heartbeat_response
<1>6. reader'.matched_writers[w] = wq
      /\ \A v \in Writers : v # w => reader'.matched_writers[v] = reader.matched_writers[v]
    BY <1>1, <1>4 DEF ReaderState
<1>7. \A v \in Writers :
        /\ reader'.matched_writers[v].is_alive = reader.matched_writers[v].is_alive
        /\ reader'.matched_writers[v].low_mark = reader.matched_writers[v].low_mark
        /\ reader'.matched_writers[v].last_notified = reader.matched_writers[v].last_notified
        /\ reader'.matched_writers[v].changes_received
             = reader.matched_writers[v].changes_received
        /\ reader'.matched_writers[v].heartbeat_response
             => reader.matched_writers[v].heartbeat_response
    BY <1>2, <1>4, <1>6
<1> QED
    BY <1>4, <1>5, <1>7, FlagsOnly

\* matched_writer_add: nothing of an unmatched writer is stored, and a proxy
\* starts with what its history record covers.
LEMMA MatchHistory ==
    ASSUME HInv, IInv', NEW w \in Writers, matched_writer_add(w)
    PROVE  HInv' /\ Remembers
<1> DEFINE wq == start(reader.history_record[w])
<1>1. /\ ReaderOK(reader) /\ reader \in ReaderState /\ reader.history_record[w] \in Nat
      /\ Stored(reader) /\ CaughtUp(reader, telling)
    BY DEF HInv, IInv, ReaderOK, ReaderState
<1>2. /\ wq.is_alive /\ wq.low_mark = wq.last_notified
      /\ \A m \in Nat : change_was_received(wq, m) <=> m <= reader.history_record[w]
    BY <1>1, StartConsistent
<1>3. /\ reader' = [reader EXCEPT !.matched_writers[w] = wq]
      /\ ~reader.matched_writers[w].is_alive
    BY DEF matched_writer_add, Matched
<1>4. /\ arrived' = [arrived EXCEPT ![w] = {}]
      /\ excused' = [excused EXCEPT ![w] = 1 .. reader.history_record[w]]
      /\ UNCHANGED <<telling, early>>
    BY DEF matched_writer_add
<1> HIDE DEF wq
<1>5. /\ reader'.history = reader.history /\ reader'.history_kind = reader.history_kind
      /\ reader'.total_unread = reader.total_unread
      /\ reader'.isHistoryFull = reader.isHistoryFull
      /\ reader'.matched_writers[w] = wq
      /\ \A v \in Writers : v # w => reader'.matched_writers[v] = reader.matched_writers[v]
    BY <1>1, <1>3 DEF ReaderState
<1>6. \A c \in reader.history : reader'.matched_writers[c.writer] = reader.matched_writers[c.writer]
    BY <1>1, <1>3, <1>5, ChangeTypes DEF Stored, Kept
<1>7. Stored(reader')
    BY <1>1, <1>5, <1>6 DEF Stored, Kept
<1>8. CaughtUp(reader', telling') /\ Answers(reader') /\ \A u, v \in telling' : u = v
    BY <1>1, <1>2, <1>4, <1>5 DEF HInv, CaughtUp, Answers
<1>9. Keeps(reader, reader')
    <2>1. Pending(reader) => Pending(reader')
        BY <1>5, <1>6 DEF Pending
    <2>2. Unread(reader') = Unread(reader)
        BY <1>5, <1>6 DEF Unread
    <2>3. \A c \in reader.history : Drainable(reader', c) <=> Drainable(reader, c)
        BY <1>6 DEF Drainable
    <2>4. Drains(reader) => Drains(reader')
        BY <1>5, <2>3, Zenon DEF Drains
    <2> QED
        BY <1>5, <2>1, <2>2, <2>4 DEF Keeps, Whole, Counted, Exact
<1>10. HInv'
    <2>1. early' = early
        BY <1>4
    <2> QED
        BY <1>7, <1>8, <1>9, <2>1, Zenon DEF HInv, Sound, Keeps
<1>11. /\ arrived'[w] \cup excused'[w] = 1 .. reader.history_record[w]
       /\ \A v \in Writers : v # w => arrived'[v] = arrived[v] /\ excused'[v] = excused[v]
    BY <1>4 DEF HInv, IInv, TypeOK
<1>12. ASSUME NEW n \in Nat \ {0}
       PROVE  change_was_received(reader'.matched_writers[w], n) <=> n \in arrived'[w] \cup excused'[w]
    <2>1. n \in 1 .. reader.history_record[w] <=> n <= reader.history_record[w]
        BY <1>1
    <2>2. change_was_received(wq, n) <=> n <= reader.history_record[w]
        BY <1>2
    <2>3. reader'.matched_writers[w] = wq
        BY <1>5
    <2>4. arrived'[w] \cup excused'[w] = 1 .. reader.history_record[w]
        BY <1>11
    <2> QED
        BY <2>1, <2>2, <2>3, <2>4, Zenon
<1>13. \A v \in Matched' : v # w => v \in Matched
    BY <1>5 DEF Matched
<1>14. Heard => Heard'
    BY <1>5, <1>11, <1>12, <1>13 DEF Heard, Matched
<1>15. Faithful => Faithful'
    BY <1>5, <1>11, <1>12, <1>13 DEF Faithful, Matched
<1> QED
    BY <1>10, <1>14, <1>15 DEF Remembers

\* remove_changes_with_guid subtracts exactly the unread changes of the writer.
LEMMA RemoveChangesWithGuidWhole ==
    ASSUME NEW rd, ReaderOK(rd), Stored(rd), CaughtUp(rd, {}), NEW w \in Writers
    PROVE  LET rq == remove_changes_with_guid(rd, w)
           IN  /\ ReaderOK(rq) /\ Stored(rq)
               /\ rq.matched_writers = rd.matched_writers
               /\ rq.history_kind = rd.history_kind
               /\ rq.history = rd.history \ ChangesFrom(rd, w)
               /\ rq.isHistoryFull => rd.isHistoryFull
               /\ Keeps(rd, rq)
<1> DEFINE gone    == ChangesFrom(rd, w)
           counted == {c \in gone : /\ is_fully_assembled(c)
                                    /\ ~c.isRead
                                    /\ available_changes_max(rd.matched_writers[w]) >= c.seq}
           unread  == IF Cardinality(counted) <= rd.total_unread
                      THEN rd.total_unread - Cardinality(counted) ELSE 0
           full    == rd.isHistoryFull /\ gone = {}
           rq      == [rd EXCEPT !.history = rd.history \ gone, !.isHistoryFull = full,
                                 !.total_unread = unread]
<1>1. /\ rd \in ReaderState /\ IsFiniteSet(rd.history) /\ rd.history \in SUBSET Change
      /\ rd.total_unread \in Nat
    BY DEF ReaderOK, ReaderState
<1>2. remove_changes_with_guid(rd, w) = rq
    BY DEF remove_changes_with_guid
<1>3. ReaderOK(rq)
    BY <1>2, RemoveChangesWithGuidOK
<1> HIDE DEF unread, full, gone, counted
<1>4. /\ rq.history = rd.history \ gone /\ rq.matched_writers = rd.matched_writers
      /\ rq.history_kind = rd.history_kind /\ rq.isHistoryFull = full /\ rq.total_unread = unread
    BY Zenon, <1>1 DEF ReaderState
<1> HIDE DEF rq
<1>5. rq.history \subseteq rd.history
      /\ (rq.isHistoryFull => rd.isHistoryFull /\ rq.history = rd.history)
    BY <1>4, Zenon DEF full
<1>6. Stored(rq)
    BY <1>4, <1>5, Shrink
<1>7. ASSUME Whole(rd)
      PROVE  Whole(rq) /\ (Exact(rd) => Exact(rq))
    <2>1. Pending(rq) /\ Drains(rq)
        BY <1>4, <1>5, <1>7, Shrink DEF Whole
    <2>2. \A c \in gone : c \in Unread(rd) <=> c \in counted
        <3>1. SUFFICES ASSUME NEW c \in gone
                       PROVE  c \in Unread(rd) <=> c \in counted
            OBVIOUS
        <3>2. c \in rd.history /\ c.writer = w
            BY DEF gone, ChangesFrom
        <3>3. /\ c.seq \in Nat /\ rd.matched_writers[w].low_mark \in Nat
              /\ rd.matched_writers[w].last_notified = rd.matched_writers[w].low_mark
            BY <3>2, ChangeTypes DEF CaughtUp
        <3>4. c.seq <= rd.matched_writers[w].low_mark => is_fully_assembled(c)
            BY <1>7, <3>2 DEF Whole, Pending, change_was_received
        <3> QED
            BY <3>2, <3>3, <3>4 DEF counted, Unread, available_changes_max
    <2>3. counted \subseteq Unread(rd) /\ Unread(rd) \subseteq rd.history
        BY <2>2 DEF counted, Unread
    <2>4. Unread(rq) = Unread(rd) \ counted
        <3>1. counted \subseteq gone
            BY DEF counted
        <3>2. Unread(rq) = Unread(rd) \ gone
            BY <1>4 DEF Unread
        <3> QED
            BY <2>2, <3>1, <3>2
    <2>5. /\ IsFiniteSet(Unread(rd)) /\ IsFiniteSet(counted)
          /\ Cardinality(Unread(rd)) \in Nat /\ Cardinality(counted) \in Nat
        BY <1>1, <2>3, SubsetFinite
    <2>6. Cardinality(Unread(rd) \ counted) = Cardinality(Unread(rd)) - Cardinality(counted)
        <3>1. Unread(rd) \cap counted = counted
            BY <2>3
        <3> QED
            BY <2>5, <3>1, FS_Difference, Zenon
    <2>7. Cardinality(counted) <= Cardinality(Unread(rd))
        BY <2>3, <2>5, FS_Subset
    <2>8. rd.total_unread <= Cardinality(Unread(rd))
        BY <1>7 DEF Whole, Counted
    <2>9. Counted(rq) /\ (Exact(rd) => Exact(rq))
        BY <1>1, <1>4, <2>4, <2>5, <2>6, <2>7, <2>8 DEF Counted, Exact, unread
    <2> QED
        BY <2>1, <2>9 DEF Whole
<1> QED
    BY <1>2, <1>3, <1>4, <1>5, <1>6, <1>7 DEF gone, Keeps

\* matched_writer_remove: the changes of the writer leave with its proxy.
LEMMA UnmatchHistory ==
    ASSUME HInv, telling = {}, IInv',
           NEW w \in Writers, NEW lease \in BOOLEAN, matched_writer_remove(w, lease)
    PROVE  HInv' /\ Remembers
<1> DEFINE r1  == remove_changes_with_guid(reader, w)
           forget == ~lease /\ ~Persistent
           rec == IF forget THEN 0 ELSE r1.history_record[w]
<1>1. ReaderOK(reader) /\ Stored(reader) /\ CaughtUp(reader, {})
    BY DEF HInv, IInv
<1>2. /\ ReaderOK(r1) /\ Stored(r1)
      /\ r1.matched_writers = reader.matched_writers
      /\ r1.history_kind = reader.history_kind
      /\ r1.history = reader.history \ ChangesFrom(reader, w)
      /\ r1.isHistoryFull => reader.isHistoryFull
      /\ Keeps(reader, r1)
    BY <1>1, RemoveChangesWithGuidWhole, Zenon
<1>3. reader' = [r1 EXCEPT !.matched_writers[w] = stop, !.history_record[w] = rec]
    BY DEF matched_writer_remove
<1>4. ~stop.is_alive /\ stop.low_mark = stop.last_notified /\ ~stop.heartbeat_response
    BY DEF stop
<1> HIDE DEF r1, rec
<1>5. r1 \in ReaderState
    BY <1>2, Zenon DEF ReaderOK
<1>6. /\ reader'.history = r1.history /\ reader'.history_kind = r1.history_kind
      /\ reader'.total_unread = r1.total_unread /\ reader'.isHistoryFull = r1.isHistoryFull
      /\ reader'.matched_writers = [r1.matched_writers EXCEPT ![w] = stop]
      /\ r1.matched_writers \in [Writers -> WriterProxyState]
    BY <1>3, <1>5 DEF ReaderState
<1>7. /\ reader'.matched_writers[w] = stop
      /\ \A v \in Writers : v # w => reader'.matched_writers[v] = r1.matched_writers[v]
    BY <1>6
<1>8. \A c \in r1.history : reader'.matched_writers[c.writer] = r1.matched_writers[c.writer]
    <2>1. \A c \in r1.history : c.writer \in Writers /\ c.writer # w
        BY <1>2, ChangeTypes DEF ChangesFrom
    <2> QED
        BY <1>7, <2>1
<1>9. Stored(reader')
    BY <1>2, <1>6, <1>8, Zenon DEF Stored, Kept
<1>10. UNCHANGED <<telling, arrived, excused, early>>
    BY DEF matched_writer_remove
<1>11. CaughtUp(reader', telling') /\ Answers(reader') /\ \A u, v \in telling' : u = v
    BY <1>1, <1>2, <1>4, <1>7, <1>10 DEF HInv, CaughtUp, Answers
<1>12. Keeps(reader, reader')
    <2>1. Pending(r1) => Pending(reader')
        BY <1>6, <1>8 DEF Pending
    <2>2. Unread(reader') = Unread(r1)
        BY <1>6, <1>8 DEF Unread
    <2>3. \A c \in r1.history : Drainable(reader', c) <=> Drainable(r1, c)
        BY <1>8 DEF Drainable
    <2>4. Drains(r1) => Drains(reader')
        BY <1>6, <2>3, Zenon DEF Drains
    <2> QED
        BY <1>2, <1>6, <2>1, <2>2, <2>4, Zenon DEF Keeps, Whole, Counted, Exact
<1>13. HInv'
    BY <1>9, <1>10, <1>11, <1>12, Zenon DEF HInv, Sound, Keeps
<1>14. \A v \in Matched' : v \in Matched /\ reader'.matched_writers[v] = reader.matched_writers[v]
    BY <1>2, <1>4, <1>7 DEF Matched
<1>15. Remembers
    BY <1>2, <1>6, <1>10, <1>14, Zenon DEF Remembers, Heard, Faithful
<1> QED
    BY <1>13, <1>15

\* A step that leaves the proxies alone and the history whole.
LEMMA ProxiesOnly ==
    ASSUME HInv, IInv', reader'.matched_writers = reader.matched_writers, Stored(reader'),
           ListsSpareFragmented => Sound(reader)', reader'.isHistoryFull => reader.isHistoryFull,
           UNCHANGED <<telling, arrived, excused>>
    PROVE  HInv' /\ Remembers
<1>1. CaughtUp(reader', telling') /\ Answers(reader') /\ \A u, v \in telling' : u = v
    BY DEF HInv, CaughtUp, Answers
<1>2. HInv'
    BY <1>1 DEF HInv
<1>3. Remembers
    BY DEF Remembers, Heard, Faithful, Matched
<1> QED
    BY <1>2, <1>3

\* rd is the reader with its change c read.  The counter stays exact when c had
\* been counted.
KeepsUp(rd, c, read) ==
    /\ ReaderOK(rd) /\ Stored(rd) /\ read \in rd.history /\ read.isRead
    /\ rd.matched_writers = reader.matched_writers
    /\ rd.isHistoryFull = reader.isHistoryFull
    /\ Whole(reader) => Whole(rd) /\ (~NotToldYet(c) /\ Exact(reader) => Exact(rd))

\* change_read_by_user: an available change becomes a read one, and total_unread_
\* counts one less if it was not read before, also when a listener reads it
\* before NotifyChanges has counted it.
LEMMA ChangeRead ==
    ASSUME HInv, NEW c \in reader.history,
           c.seq <= reader.matched_writers[c.writer].low_mark,
           NEW read, read = [c EXCEPT !.isRead = TRUE],
           NEW unread,
           unread = IF ~c.isRead /\ 0 < reader.total_unread
                    THEN reader.total_unread - 1 ELSE reader.total_unread,
           NEW rd, rd = [reader EXCEPT !.history = (reader.history \ {c}) \cup {read},
                                       !.total_unread = unread]
    PROVE  KeepsUp(rd, c, read)
<1> DEFINE H == (reader.history \ {c}) \cup {read}
           wp == reader.matched_writers[c.writer]
<1>1. /\ ReaderOK(reader) /\ reader \in ReaderState /\ Stored(reader)
      /\ CaughtUp(reader, telling) /\ reader.history \in SUBSET Change /\ IsFiniteSet(reader.history)
      /\ reader.total_unread \in Nat
    BY DEF HInv, IInv, ReaderOK, ReaderState
<1>2. /\ c \in Change /\ c.writer \in Writers /\ c.seq \in Nat
      /\ wp.low_mark \in Nat /\ wp.last_notified \in Nat
    BY <1>1, ChangeTypes
<1>3. /\ read \in Change /\ read.writer = c.writer /\ read.seq = c.seq
      /\ read.missing = c.missing /\ read.isRead
    BY <1>2, Zenon DEF Change
<1>4. is_fully_assembled(read) <=> is_fully_assembled(c)
    BY <1>3 DEF is_fully_assembled
<1>5. \A x \in reader.history \ {c} : ~(x.writer = c.writer /\ x.seq = c.seq)
    BY <1>1 DEF Stored, Kept
<1>6. H \in SUBSET Change
    BY <1>1, <1>3, Zenon
<1>7. IsFiniteSet(H)
    <2>1. IsFiniteSet(reader.history \ {c})
        BY <1>1, SubsetFinite
    <2> QED
        BY <2>1, FS_AddElement, Zenon
<1>8. unread \in Nat
    BY <1>1
<1> HIDE DEF H
<1>9. /\ rd \in ReaderState /\ rd.history = H
      /\ rd.matched_writers = reader.matched_writers
      /\ rd.history_record = reader.history_record
      /\ rd.history_kind = reader.history_kind
      /\ rd.isHistoryFull = reader.isHistoryFull
      /\ rd.total_unread = unread
    <2>1. rd = [reader EXCEPT !.history = H, !.total_unread = unread]
        BY DEF H
    <2> QED
        BY <1>1, <1>6, <1>8, <2>1, Zenon DEF ReaderState
<1>10. ReaderOK(rd)
    BY <1>1, <1>7, <1>9, HistoryStep, Zenon
<1>11. Stored(rd)
    <2>1. ASSUME NEW x \in H, NEW y \in H, x.writer = y.writer, x.seq = y.seq
          PROVE  x = y
        <3>1. CASE x \in reader.history \ {c} /\ y \in reader.history \ {c}
            BY <1>1, <2>1, <3>1 DEF Stored, Kept
        <3>2. CASE x = read \/ y = read
            <4>1. x.writer = c.writer /\ x.seq = c.seq /\ y.writer = c.writer /\ y.seq = c.seq
                BY <1>3, <2>1, <3>2, Zenon
            <4>2. x \notin reader.history \ {c} /\ y \notin reader.history \ {c}
                BY <1>5, <4>1
            <4>3. x = read /\ y = read
                BY Zenon, <4>2 DEF H
            <4> QED
                BY <4>3
        <3> QED
            BY <2>1, <3>1, <3>2 DEF H
    <2>2. ASSUME NEW x \in H
          PROVE  /\ reader.matched_writers[x.writer].is_alive
                 /\ x.seq \in DataNumbers \cup FragNumbers
                 /\ ~is_fully_assembled(x) => x.seq \in FragNumbers
                 /\ is_fully_assembled(x) =>
                        change_was_received(reader.matched_writers[x.writer], x.seq)
        <3>1. CASE x = read
            BY <1>1, <1>3, <1>4, <3>1 DEF Stored, Kept
        <3>2. CASE x # read
            BY <1>1, <3>2 DEF H, Stored, Kept
        <3> QED
            BY <3>1, <3>2
    <2> QED
        BY <1>9, <2>1, <2>2 DEF Stored, Kept
<1>12. ASSUME Whole(reader)
       PROVE  Whole(rd) /\ (~NotToldYet(c) /\ Exact(reader) => Exact(rd))
    <2>1. Pending(rd)
        BY <1>3, <1>4, <1>9, <1>12, Zenon DEF H, Whole, Pending
    <2>2. Unread(rd) = Unread(reader) \ {c}
        BY <1>3, <1>9, Zenon DEF H, Unread
    <2>3. c \in Unread(reader) => ~c.isRead
        BY DEF Unread
    <2>4. ASSUME c \notin Unread(reader), ~c.isRead
          PROVE  NotToldYet(c)
        <3>1. wp.last_notified < c.seq
            BY <1>2, <2>4 DEF Unread
        <3>2. c.writer \in telling
            BY <1>1, <1>2, <3>1 DEF CaughtUp
        <3>3. c \in ChangesToNotify(reader, c.writer)
            BY <2>4, <3>1 DEF ChangesToNotify, ChangesFrom
        <3> QED
            BY <3>2, <3>3, Zenon DEF NotToldYet
    <2>5. /\ IsFiniteSet(Unread(reader)) /\ Cardinality(Unread(reader)) \in Nat
          /\ reader.total_unread <= Cardinality(Unread(reader))
        <3>1. Unread(reader) \subseteq reader.history
            BY DEF Unread
        <3> QED
            BY <1>1, <1>12, <3>1, SubsetFinite DEF Whole, Counted
    <2>6. Counted(rd) /\ (~NotToldYet(c) /\ Exact(reader) => Exact(rd))
        <3>1. CASE c \in Unread(reader)
            <4>1. /\ Cardinality(Unread(rd)) = Cardinality(Unread(reader)) - 1
                  /\ Cardinality(Unread(rd)) \in Nat
                BY <2>2, <2>5, <3>1, FS_RemoveElement, FS_CardinalityType
            <4>2. unread = IF 0 < reader.total_unread
                           THEN reader.total_unread - 1 ELSE reader.total_unread
                BY <2>3, <3>1, Zenon
            <4> QED
                BY <1>1, <1>9, <2>5, <4>1, <4>2 DEF Counted, Exact
        <3>2. CASE c \notin Unread(reader)
            <4>1. Unread(rd) = Unread(reader)
                BY <2>2, <3>2
            <4>2. unread <= reader.total_unread /\ (c.isRead => unread = reader.total_unread)
                BY <1>1
            <4> QED
                BY <1>1, <1>8, <1>9, <2>4, <2>5, <3>2, <4>1, <4>2 DEF Counted, Exact
        <3> QED
            BY <3>1, <3>2
    <2>7. Drains(rd)
        <3>1. read \in rd.history /\ read.seq <= rd.matched_writers[read.writer].low_mark
            BY <1>3, <1>9 DEF H
        <3> QED
            BY <3>1, Zenon DEF Drains, Drainable
    <2> QED
        BY <2>1, <2>6, <2>7 DEF Whole
<1> QED
    BY <1>3, <1>9, <1>10, <1>11, <1>12 DEF H, KeepsUp

\* readNextData and takeNextData, called by the user's thread or by a listener.
LEMMA UserHistory ==
    ASSUME HInv, IInv', User
    PROVE  HInv' /\ Remembers
<1>1. PICK c \in reader.history : readNextData(c) \/ takeNextData(c)
    BY Zenon DEF User
<1>2. UNCHANGED <<telling, arrived, excused>> /\ early' = (early \/ NotToldYet(c))
    BY Zenon, <1>1 DEF readNextData, takeNextData
<1> DEFINE read   == [c EXCEPT !.isRead = TRUE]
           unread == IF ~c.isRead /\ 0 < reader.total_unread
                     THEN reader.total_unread - 1 ELSE reader.total_unread
           rd     == [reader EXCEPT !.history = (reader.history \ {c}) \cup {read},
                                    !.total_unread = unread]
<1>3. /\ c.seq <= reader.matched_writers[c.writer].low_mark
      /\ reader' = rd \/ reader' = remove_change(rd, read)
    <2>1. CASE readNextData(c)
        BY <2>1 DEF readNextData
    <2>2. CASE takeNextData(c)
        BY <2>2 DEF takeNextData
    <2> QED
        BY <1>1, <2>1, <2>2
<1>4. KeepsUp(rd, c, read)
    <2>1. /\ read = [c EXCEPT !.isRead = TRUE]
          /\ unread = IF ~c.isRead /\ 0 < reader.total_unread
                      THEN reader.total_unread - 1 ELSE reader.total_unread
        OBVIOUS
    <2>2. rd = [reader EXCEPT !.history = (reader.history \ {c}) \cup {read},
                              !.total_unread = unread]
        OBVIOUS
    <2> HIDE DEF rd, read, unread
    <2> QED
        BY Zenon, <1>3, <2>1, <2>2, ChangeRead
<1> HIDE DEF rd, read, unread
<1>5. /\ ReaderOK(rd) /\ Stored(rd) /\ read \in rd.history /\ read.isRead
      /\ rd.matched_writers = reader.matched_writers
      /\ rd.isHistoryFull = reader.isHistoryFull
      /\ Whole(reader) => Whole(rd) /\ (~NotToldYet(c) /\ Exact(reader) => Exact(rd))
    BY <1>4 DEF KeepsUp
<1>6. /\ Stored(remove_change(rd, read))
      /\ remove_change(rd, read).matched_writers = rd.matched_writers
      /\ ~remove_change(rd, read).isHistoryFull
      /\ Keeps(rd, remove_change(rd, read))
    BY <1>5, RemoveChangeWhole, Zenon
<1>7. /\ Stored(reader') /\ reader'.matched_writers = reader.matched_writers
      /\ reader'.isHistoryFull => reader.isHistoryFull
      /\ Keeps(rd, reader')
    <2>1. Keeps(rd, rd)
        BY DEF Keeps
    <2> QED
        BY <1>3, <1>5, <1>6, <2>1, Zenon
<1>8. ListsSpareFragmented => Sound(reader)'
    BY Zenon, <1>2, <1>5, <1>7 DEF HInv, Sound, Keeps
<1> QED
    BY <1>2, <1>7, <1>8, ProxiesOnly

\* The lifespan timer removes a change, read or not, available or not.
LEMMA ExpiryHistory ==
    ASSUME HInv, telling = {}, IInv', Expiry
    PROVE  HInv' /\ Remembers
<1>1. ReaderOK(reader) /\ Stored(reader) /\ CaughtUp(reader, {})
    BY DEF HInv, IInv
<1>2. PICK c \in reader.history : lifespan_expired(c)
    BY DEF Expiry
<1>3. reader' = remove_change(reader, c) /\ UNCHANGED <<telling, arrived, excused, early>>
    BY <1>2 DEF lifespan_expired
<1>4. reader.matched_writers[c.writer].last_notified = reader.matched_writers[c.writer].low_mark
    BY <1>1, ChangeTypes DEF CaughtUp
<1>5. /\ Stored(reader') /\ reader'.matched_writers = reader.matched_writers
      /\ ~reader'.isHistoryFull /\ Keeps(reader, reader')
    BY <1>1, <1>3, <1>4, RemoveChangeWhole, Zenon
<1>6. ListsSpareFragmented => Sound(reader)'
    BY Zenon, <1>3, <1>5 DEF HInv, Sound, Keeps
<1> QED
    BY <1>3, <1>5, <1>6, ProxiesOnly

\* The loop of NotifyChanges goes on when its listener returns.
LEMMA ListenerHistory ==
    ASSUME HInv, IInv', NEW w \in telling, listener_returns(w)
    PROVE  HInv' /\ Remembers
<1>1. /\ w \in Writers /\ telling \subseteq {w} /\ ReaderOK(reader) /\ Stored(reader)
      /\ reader.matched_writers[w].is_alive
    BY Zenon DEF HInv, IInv, TypeOK, Told
<1>2. SameBut(reader, reader, w) /\ (ListsSpareFragmented => Sound(reader))
    BY DEF SameBut, HInv
<1>3. Notify(reader, w) /\ UNCHANGED <<arrived, excused, early>>
    BY DEF listener_returns
<1>4. /\ HInv' /\ SameBut(reader, reader', w)
      /\ reader'.isHistoryFull = reader.isHistoryFull
      /\ Settles(reader.matched_writers[w], reader'.matched_writers[w], {})
    BY <1>1, <1>2, <1>3, NotifyHInv, Zenon
<1>5. w \in Matched
    BY <1>1 DEF Matched
<1>6. /\ arrived'[w] \cup excused'[w] = arrived[w] \cup excused[w] \cup {}
      /\ {} \subseteq {} \cup {0} /\ {} \subseteq {}
      /\ \A v \in Writers : v # w => arrived'[v] = arrived[v] /\ excused'[v] = excused[v]
    BY <1>3
<1>7. Faithful => ~reader'.isHistoryFull
    BY <1>4 DEF Faithful
<1> QED
    BY <1>4, <1>5, <1>6, <1>7, Remembered, Zenon

\* A reader with no matched writer and an empty history.
LEMMA EmptyHistory ==
    ASSUME NEW rd, rd.history = {}, rd.total_unread = 0, ~rd.isHistoryFull,
           \A w \in Writers : rd.matched_writers[w] = stop
    PROVE  Stored(rd) /\ CaughtUp(rd, {}) /\ Answers(rd) /\ Whole(rd) /\ Exact(rd)
<1>1. Stored(rd) /\ Pending(rd) /\ Unread(rd) = {}
    BY DEF Stored, Kept, Pending, Unread
<1>2. CaughtUp(rd, {}) /\ Answers(rd)
    <2>1. stop.last_notified = 0 /\ stop.low_mark = 0 /\ ~stop.heartbeat_response
        BY DEF stop
    <2> QED
        BY <2>1 DEF CaughtUp, Answers
<1>3. Counted(rd) /\ Exact(rd)
    BY <1>1, FS_EmptySet DEF Counted, Exact
<1>4. Drains(rd)
    BY DEF Drains
<1> QED
    BY <1>1, <1>2, <1>3, <1>4, Zenon DEF Whole

\* A persistent reader that starts again has an empty history.
LEMMA RestartHistory ==
    ASSUME HInv, IInv', Restart
    PROVE  HInv' /\ Remembers
<1>1. /\ reader'.history = {} /\ reader'.total_unread = 0 /\ ~reader'.isHistoryFull
      /\ \A w \in Writers : reader'.matched_writers[w] = stop
    BY DEF Restart, created
<1>2. HInv'
    <2>1. telling' = {}
        BY DEF Restart
    <2>2. /\ Stored(reader') /\ CaughtUp(reader', {}) /\ Answers(reader')
          /\ Whole(reader') /\ Exact(reader')
        BY <1>1, EmptyHistory
    <2> QED
        BY <2>1, <2>2 DEF HInv, Sound
<1>3. Matched' = {}
    BY <1>1 DEF Matched, stop
<1> QED
    BY <1>1, <1>2, <1>3 DEF Remembers, Heard, Faithful

\* A reader that has just been created.
LEMMA InitHistory == Init => HInv /\ Heard /\ Faithful
<1> SUFFICES ASSUME Init
             PROVE  HInv /\ Heard /\ Faithful
    OBVIOUS
<1>1. /\ reader.history = {} /\ reader.total_unread = 0 /\ ~reader.isHistoryFull
      /\ \A w \in Writers : reader.matched_writers[w] = stop
    BY DEF Init, created
<1>2. HInv
    <2>1. telling = {}
        BY DEF Init
    <2>2. /\ Stored(reader) /\ CaughtUp(reader, {}) /\ Answers(reader)
          /\ Whole(reader) /\ Exact(reader)
        BY <1>1, EmptyHistory
    <2> QED
        BY <2>1, <2>2, InitOK DEF HInv, Sound
<1>3. Matched = {}
    BY <1>1 DEF Matched, stop
<1> QED
    BY <1>1, <1>2, <1>3 DEF Heard, Faithful

\* Every step of the reader keeps its history in order.
LEMMA NextHistory ==
    ASSUME SentOneWay, HInv, [Next]_vars
    PROVE  HInv' /\ Remembers
<1>1. IInv'
    BY NextOK DEF HInv
<1>2. CASE Next
    <2>1. ASSUME telling = {}, NEW w \in Writers, Reception(w)
          PROVE  HInv' /\ Remembers
        BY Zenon, <1>1, <2>1, DataHistory, FragmentHistory, HeartbeatHistory, GapHistory
            DEF Reception
    <2>2. ASSUME telling = {}, NEW w \in Writers, Matching(w)
          PROVE  HInv' /\ Remembers
        BY <1>1, <2>2, MatchHistory, UnmatchHistory DEF Matching
    <2> QED
        BY Zenon, <1>1, <1>2, <2>1, <2>2, TimersHistory, ExpiryHistory, ListenerHistory,
            UserHistory, RestartHistory DEF Next
<1>3. CASE UNCHANGED vars
    <2>1. UNCHANGED <<reader, telling, arrived, excused, early>>
        BY <1>3 DEF vars
    <2>2. \A v \in Writers :
            /\ reader'.matched_writers[v].is_alive = reader.matched_writers[v].is_alive
            /\ reader'.matched_writers[v].low_mark = reader.matched_writers[v].low_mark
            /\ reader'.matched_writers[v].last_notified = reader.matched_writers[v].last_notified
            /\ reader'.matched_writers[v].changes_received
                 = reader.matched_writers[v].changes_received
            /\ reader'.matched_writers[v].heartbeat_response
                 => reader.matched_writers[v].heartbeat_response
        BY <2>1
    <2> QED
        BY <1>1, <2>1, <2>2, FlagsOnly
<1> QED
    BY <1>2, <1>3

----------------------------------------------------------------------------
\* The history of the reader agrees with its proxies in every reachable state.
LEMMA AlwaysHInv ==
    ASSUME SentOneWay
    PROVE  Spec => []HInv
<1>1. Init => HInv
    BY InitHistory
<1>2. HInv /\ [Next]_vars => HInv'
    BY NextHistory
<1> QED
    BY <1>1, <1>2, PTL DEF Spec

\* What the network has told the reader is settled.
LEMMA AlwaysHeard ==
    ASSUME SentOneWay
    PROVE  Spec => []Heard
<1>1. Init => Heard
    BY InitHistory
<1>2. HInv /\ Heard /\ [Next]_vars => Heard'
    BY NextHistory DEF Remembers
<1> QED
    BY <1>1, <1>2, AlwaysHInv, PTL DEF Spec

\* With room for every sample nothing else is.
LEMMA AlwaysFaithful ==
    ASSUME SentOneWay, RoomForAll
    PROVE  Spec => []Faithful
<1>1. Init => Faithful
    BY InitHistory
<1>2. HInv /\ Faithful /\ [Next]_vars => Faithful'
    BY NextHistory DEF Remembers
<1> QED
    BY <1>1, <1>2, AlwaysHInv, PTL DEF Spec

\* The assertion of WriterProxy::change_removed_from_history never fails: what
\* the history holds above a low mark is complete exactly when the proxy has
\* settled it, whatever is received, removed, read, matched or restarted, as
\* long as no GAP lists a sample that is being received in fragments.
THEOREM HistoryStaysInAgreement ==
    ASSUME SentOneWay, ListsSpareFragmented
    PROVE  Spec => []HistoryAgreesWithProxy
<1>1. HInv => HistoryAgreesWithProxy
    <2> SUFFICES ASSUME HInv, NEW c \in reader.history
                 PROVE  /\ reader.matched_writers[c.writer].is_alive
                        /\ c.seq > reader.matched_writers[c.writer].low_mark =>
                             (is_fully_assembled(c) <=>
                                c.seq \in reader.matched_writers[c.writer].changes_received)
        BY DEF HistoryAgreesWithProxy
    <2>1. reader.matched_writers[c.writer].is_alive
        BY DEF HInv, Stored, Kept
    <2>2. is_fully_assembled(c) <=> change_was_received(reader.matched_writers[c.writer], c.seq)
        BY Zenon DEF HInv, Stored, Sound, Whole, Pending
    <2>3. c.seq \in Nat /\ reader.matched_writers[c.writer].low_mark \in Nat
        BY ChangeTypes DEF HInv, IInv
    <2> QED
        BY <2>1, <2>2, <2>3 DEF change_was_received
<1> QED
    BY <1>1, AlwaysHInv, PTL

\* The user never gets a sample of which a fragment is missing.
THEOREM AvailableStaysAssembled ==
    ASSUME SentOneWay, ListsSpareFragmented
    PROVE  Spec => []AvailableIsAssembled
<1>1. HInv => AvailableIsAssembled
    BY DEF HInv, Sound, Whole, Pending, change_was_received, AvailableIsAssembled
<1> QED
    BY <1>1, AlwaysHInv, PTL

\* Whenever no listener runs, total_unread_ is at most the number of unread
\* samples the user can get, and exactly that number when no listener has read
\* or taken a sample before NotifyChanges counted it, for every set of messages
\* that list no sample sent in fragments in a GAP.
THEOREM UnreadCountStaysExact ==
    ASSUME SentOneWay, ListsSpareFragmented
    PROVE  Spec => []UnreadCountIsExact
<1>1. HInv => UnreadCountIsExact
    <2> SUFFICES ASSUME HInv, telling = {}
                 PROVE  LET unread == {c \in reader.history :
                                /\ ~c.isRead
                                /\ c.seq <= reader.matched_writers[c.writer].low_mark}
                        IN  /\ reader.total_unread <= Cardinality(unread)
                            /\ ~early => reader.total_unread = Cardinality(unread)
        BY Zenon DEF UnreadCountIsExact
    <2>1. Unread(reader) = {c \in reader.history :
                                /\ ~c.isRead
                                /\ c.seq <= reader.matched_writers[c.writer].low_mark}
        BY ChangeTypes DEF HInv, IInv, CaughtUp, Unread
    <2>2. Counted(reader) /\ (early \/ Exact(reader))
        BY Zenon DEF HInv, Sound, Whole
    <2> QED
        BY Zenon, <2>1, <2>2 DEF Counted, Exact
<1> QED
    BY <1>1, AlwaysHInv, PTL

\* A KEEP_ALL history whose flag is up can make room, whatever arrives, as long
\* as no GAP lists a sample sent in fragments and no heartbeat drops one, which
\* would empty the history under the flag.
THEOREM FullHistoryStaysDrainable ==
    ASSUME SentOneWay, ListsSpareFragmented, HeartbeatsSpareFragmented
    PROVE  Spec => []FullHistoryCanDrain
<1>1. HInv => FullHistoryCanDrain
    BY DEF HInv, Sound, Whole, Drains, Drainable, FullHistoryCanDrain
<1> QED
    BY <1>1, AlwaysHInv, PTL

\* With room for every sample, the reader settles, and so acknowledges, only
\* numbers that arrived or that their writer declared gone, for every set of
\* messages in any order and multiplicity.
THEOREM NothingIsLostSilently ==
    ASSUME SentOneWay, RoomForAll
    PROVE  Spec => []NoSilentLoss
<1>1. HInv /\ Faithful => NoSilentLoss
    <2> SUFFICES ASSUME HInv, Faithful, NEW w \in Matched,
                        NEW n \in (1 .. reader.matched_writers[w].low_mark)
                                    \cup reader.matched_writers[w].changes_received
                 PROVE  n \in arrived[w] \cup excused[w]
        BY DEF NoSilentLoss
    <2>1. w \in Writers /\ Consistent(reader.matched_writers[w])
        BY DEF Matched, HInv, IInv, ReaderOK
    <2>2. /\ reader.matched_writers[w].low_mark \in Nat
          /\ reader.matched_writers[w].changes_received \subseteq Nat
        BY <2>1 DEF Consistent, WriterProxyState
    <2>3. n \in Nat \ {0} /\ change_was_received(reader.matched_writers[w], n)
        BY <2>1, <2>2 DEF Consistent, change_was_received
    <2> QED
        BY <2>3 DEF Faithful
<1> QED
    BY <1>1, AlwaysHInv, AlwaysFaithful, PTL

\* The ACKNACK that send_acknack builds.
LEMMA AckNackIsHonest ==
    ASSUME HInv, Heard, Faithful, NEW w \in Matched
    PROVE  /\ AckNack(w).writer = w
           /\ \A n \in 1 .. (AckNack(w).base - 1) : n \in arrived[w] \cup excused[w]
           /\ \A n \in AckNack(w).list : /\ n \notin arrived[w] \cup excused[w]
                                         /\ Partial(reader, w, n) = {}
<1> DEFINE wp == reader.matched_writers[w]
<1>1. /\ wp.low_mark \in Nat /\ wp.max_sequence_number \in Nat
    BY Zenon DEF Matched, HInv, IInv, ReaderOK, Consistent, WriterProxyState
<1>2. /\ AckNack(w).writer = w /\ AckNack(w).base = wp.low_mark + 1
      /\ AckNack(w).list = missing_changes(wp) \ {c.seq : c \in PartlyReceived(w)}
    BY Zenon DEF AckNack
<1>3. ASSUME NEW n \in 1 .. (AckNack(w).base - 1)
      PROVE  n \in arrived[w] \cup excused[w]
    <2>1. n \in Nat \ {0} /\ change_was_received(wp, n)
        BY <1>1, <1>2, <1>3 DEF change_was_received
    <2> QED
        BY <2>1 DEF Faithful
<1>4. ASSUME NEW n \in AckNack(w).list
      PROVE  n \notin arrived[w] \cup excused[w] /\ Partial(reader, w, n) = {}
    <2>1. n \in missing_changes(wp) /\ n \notin {c.seq : c \in PartlyReceived(w)}
        BY <1>2, <1>4
    <2>2. n \in Nat \ {0} /\ ~change_was_received(wp, n)
        BY <1>1, <2>1 DEF missing_changes, change_was_received
    <2>3. n \notin arrived[w] \cup excused[w]
        BY <2>2 DEF Heard
    <2>4. Partial(reader, w, n) = {}
        BY <2>1 DEF Partial, PartlyReceived
    <2> QED
        BY <2>3, <2>4
<1> QED
    BY <1>2, <1>3, <1>4

\* With room for every sample, an ACKNACK never acknowledges a number that
\* neither arrived nor was declared gone, and never asks again for one that did
\* or of which a fragment is stored (StatefulReader::send_acknack), whatever the
\* network delivers and in whatever order.
THEOREM AcknacksStayHonest ==
    ASSUME SentOneWay, RoomForAll
    PROVE  Spec => AcknackIsHonest
<1> DEFINE Honest(m) ==
        m.type = "ACKNACK" =>
            LET w == m.writer
            IN  /\ \A n \in 1 .. (m.base - 1) : n \in arrived[w] \cup excused[w]
                /\ \A n \in m.list : /\ n \notin arrived[w] \cup excused[w]
                                     /\ Partial(reader, w, n) = {}
<1>1. HInv /\ Heard /\ Faithful /\ [Next]_vars => [\A m \in sent' \ sent : Honest(m)]_vars
    <2> SUFFICES ASSUME HInv, Heard, Faithful, Next, NEW m \in sent' \ sent
                 PROVE  Honest(m)
        OBVIOUS
    <2>1. PICK w \in Writers : Timers(w)
        <3>1. ASSUME NEW w \in Writers, Reception(w) \/ Matching(w)
              PROVE  sent' = sent
            BY <3>1, Zenon DEF Reception, Matching, processDataMsg, processDataFragMsg,
                        processHeartbeatMsg, processGapMsg, matched_writer_add,
                        matched_writer_remove
        <3>2. User \/ Expiry \/ Restart \/ (\E w \in telling : listener_returns(w)) =>
                    sent' \subseteq sent
            BY Zenon DEF User, readNextData, takeNextData, Expiry, lifespan_expired, Restart,
                        listener_returns
        <3> QED
            BY Zenon, <3>1, <3>2 DEF Next
    <2>2. CASE perform_initial_ack_nack(w)
        <3>1. m = [type |-> "ACKNACK", writer |-> w, base |-> 0, list |-> {},
                   count |-> reader.acknack_count + 1, final |-> FALSE]
            BY <2>2 DEF perform_initial_ack_nack
        <3>2. m.base = 0 /\ m.list = {}
            BY <3>1
        <3> QED
            BY <3>2
    <2>3. CASE perform_heartbeat_response(w)
        <3>1. w \in Matched
            BY <2>3 DEF perform_heartbeat_response, HInv, Answers, Matched
        <3>2. m = AckNack(w) \/ \E c \in PartlyReceived(w) : m = NackFrag(w, c)
            BY <2>3 DEF perform_heartbeat_response
        <3>3. CASE m = AckNack(w)
            BY <3>1, <3>3, AckNackIsHonest
        <3>4. CASE \E c \in PartlyReceived(w) : m = NackFrag(w, c)
            BY <3>4 DEF NackFrag
        <3> QED
            BY <3>2, <3>3, <3>4
    <2> QED
        BY <2>1, <2>2, <2>3 DEF Timers
<1> QED
    BY <1>1, AlwaysHInv, AlwaysHeard, AlwaysFaithful, PTL DEF Spec, AcknackIsHonest
=============================================================================
