------------------------- MODULE ReaderEnvironment -------------------------
(***************************************************************************)
(* A StatefulReader on its own: the network may hand it any of the given   *)
(* messages in any order and any number of times, so loss, duplication and *)
(* reordering are all there; the user reads, takes and lets samples expire *)
(* at will.                                                                *)
(***************************************************************************)
EXTENDS StatefulReader

CONSTANTS
    DataNumbers,   \* sequence numbers of the samples sent whole
    FragNumbers,   \* sequence numbers of the samples sent in fragments
    Heartbeats,    \* heartbeats on the network
    Gaps,          \* gaps on the network
    MaxAcknacks,   \* bound: ACKNACKs sent since the reader was created
    WithExpiry     \* whether samples have a finite lifespan

Heartbeat == [count : Nat \ {0}, first : Nat \ {0}, last : Nat,
              final : BOOLEAN, liveliness : BOOLEAN]

Gap == [start : Nat \ {0}, base : Nat \ {0}, list : SUBSET Nat]

ASSUME EnvironmentAssumption ==
    /\ DataNumbers \subseteq Nat \ {0}
    /\ FragNumbers \subseteq Nat \ {0}
    /\ Heartbeats \subseteq Heartbeat
    /\ \A hb \in Heartbeats : hb.first <= hb.last + 1
    /\ Gaps \subseteq Gap
    /\ \A g \in Gaps : g.list \subseteq g.base .. (g.base + AckWindow - 1)
    /\ MaxAcknacks \in Nat
    /\ WithExpiry \in BOOLEAN
    /\ Fragments # {}

Reception(w) ==
    \/ \E n \in DataNumbers : processDataMsg(w, n)
    \/ \E n \in FragNumbers, f \in Fragments : processDataFragMsg(w, n, {f})
    \/ \E hb \in Heartbeats : processHeartbeatMsg(w, hb)
    \/ \E gap \in Gaps : processGapMsg(w, gap)

Timers(w) ==
    /\ reader.acknack_count < MaxAcknacks
    /\ perform_initial_ack_nack(w) \/ perform_heartbeat_response(w)

Matching(w) ==
    \/ matched_writer_add(w)
    \/ \E lease \in BOOLEAN : matched_writer_remove(w, lease)

Expiry == WithExpiry /\ \E c \in reader.history : lifespan_expired(c)

\* The user's thread when no handler runs, the listener's when one does.
User ==
    \/ \E c \in reader.history : readNextData(c)
    \/ \E c \in reader.history : takeNextData(c)

\* While a listener runs the mutex is taken: the other threads wait.
Next ==
    \/ /\ telling = {}
       /\ \/ \E w \in Writers : Reception(w) \/ Timers(w) \/ Matching(w)
          \/ Expiry
    \/ \E w \in telling : listener_returns(w)
    \/ User
    \/ Restart

Spec == Init /\ [][Next]_vars

----------------------------------------------------------------------------
\* Type correctness of the reader, its proxies and history, and of what it has
\* sent to the writers and told the user.
TypeOK ==
    /\ reader \in ReaderState
    /\ \A m \in sent : m.type \in {"ACKNACK", "NACKFRAG"} /\ m.writer \in Writers
    /\ telling \in SUBSET Writers /\ early \in BOOLEAN
    /\ arrived \in [Writers -> SUBSET Nat]
    /\ excused \in [Writers -> SUBSET Nat]
    /\ notified \subseteq Writers \X Nat

\* The counters of a WriterProxy never contradict each other: nothing above
\* the low mark has been notified, the received set starts after a number
\* that is still missing, and ends no later than the greatest number known.
ProxyConsistent ==
    \A w \in Writers :
        LET wp == reader.matched_writers[w]
        IN  /\ wp.last_notified <= wp.low_mark
            /\ wp.low_mark <= wp.max_sequence_number
            /\ \A n \in wp.changes_received :
                    wp.low_mark + 1 < n /\ n <= wp.max_sequence_number

\* Every sequence number the reader treats as settled, and will acknowledge,
\* was stored completely or was declared gone by the writer: with room for
\* every sample nothing is lost in silence (received_change_set,
\* lost_changes_update and the isFull branch of change_received).
NoSilentLoss ==
    \A w \in Matched :
        LET wp == reader.matched_writers[w]
        IN  \A n \in (1 .. wp.low_mark) \cup wp.changes_received :
                n \in arrived[w] \cup excused[w]

\* The assertion of WriterProxy::change_removed_from_history: a complete
\* change above the low mark is in changes_received; an incomplete one is not.
HistoryAgreesWithProxy ==
    \A c \in reader.history :
        LET wp == reader.matched_writers[c.writer]
        IN  /\ wp.is_alive
            /\ c.seq > wp.low_mark =>
                 (is_fully_assembled(c) <=> c.seq \in wp.changes_received)

\* total_unread_, on which wait_for_unread_cache blocks, is the number of
\* unread changes the user can get whenever the mutex is free, as long as no
\* listener has read or taken a change before NotifyChanges counted it.  One
\* that has may leave it too small, since both decrement it, but never too
\* large: get_unread_count promises no sample that is not there.
UnreadCountIsExact ==
    LET unread == {c \in reader.history :
                        /\ ~c.isRead
                        /\ c.seq <= reader.matched_writers[c.writer].low_mark}
    IN  telling = {} => /\ reader.total_unread <= Cardinality(unread)
                        /\ ~early => reader.total_unread = Cardinality(unread)

\* The user is told about a sample once, and about the samples of a writer in
\* order, even when the writer is matched again after losing its lease or the
\* persistent reader restarts (last_notified_ and history_record).
NotifiedOnceInOrder ==
    [][\A p \in notified' \ notified : \A q \in notified :
            p[1] = q[1] => q[2] < p[2]]_vars

\* notified only ever holds numbers covered by the record that the next match
\* of the writer starts from.
NotifiedIsRecorded ==
    \A p \in notified : p[2] <= reader.history_record[p[1]]

\* isFull: "Check if the history is full" (History.h:110).
FullFlagIsExact ==
    reader.isHistoryFull <=> Cardinality(reader.history) = MaxSamples

\* A change is in the user's hands only when all its fragments have arrived:
\* "If change has been fully reassembled, mark as received and add notify
\* user" (StatefulReader.cpp:572).
AvailableIsAssembled ==
    \A c \in reader.history :
        c.seq <= reader.matched_writers[c.writer].low_mark => is_fully_assembled(c)

\* A KEEP_ALL history whose m_isHistoryFull refuses every new sample can make
\* room: one of the stored samples is available to the user, or is the next
\* one of its writer and only waits for fragments, which need no room
\* (add_received_change, the isFull branch of change_received and the
\* removals that take the flag down).
FullHistoryCanDrain ==
    (reader.history_kind = "KEEP_ALL" /\ reader.isHistoryFull) =>
        \E c \in reader.history :
            LET low == reader.matched_writers[c.writer].low_mark
            IN  c.seq <= low \/ (c.seq = low + 1 /\ ~is_fully_assembled(c))

\* An ACKNACK acknowledges only settled numbers, and does not ask again for a
\* number that was stored or declared gone; a sample stored in part is asked
\* for by a NACKFRAG instead (StatefulReader::send_acknack).
AcknackIsHonest ==
    [][\A m \in sent' \ sent :
         m.type = "ACKNACK" =>
           LET w == m.writer
           IN  /\ \A n \in 1 .. (m.base - 1) : n \in arrived[w] \cup excused[w]
               /\ \A n \in m.list : /\ n \notin arrived[w] \cup excused[w]
                                    /\ Partial(reader, w, n) = {}]_vars
=============================================================================
