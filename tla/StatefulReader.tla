--------------------------- MODULE StatefulReader ---------------------------
(***************************************************************************)
(* rtps::StatefulReader with the SubscriberHistory (no key) it fills: the  *)
(* reliable reader of one topic, matched with remote writers.  Every       *)
(* handler runs under the reader's mutex, so it is one step up to its end  *)
(* or to its next call of the user's listener; it is written as an         *)
(* operator from the reader's state before the call to the state after it, *)
(* and the actions below it say when it runs.  The mutex is recursive: the *)
(* listener may read and take, and everybody else waits for its return.    *)
(*                                                                         *)
(* A change is [writer, seq, missing, isRead]; missing is the set of its   *)
(* fragments not yet received, and m_changes is ordered by seq within a    *)
(* writer (sourceTimestamp order).                                         *)
(***************************************************************************)
EXTENDS WriterProxy

CONSTANTS
    Writers,             \* remote writers of the topic
    Fragments,           \* fragments of a sample that is sent fragmented
    HistoryKinds,        \* HistoryQosPolicy: "KEEP_ALL", "KEEP_LAST" or either
    MaxSamples,          \* max_samples (KEEP_ALL) or depth (KEEP_LAST)
    MaxMatchedWriters,   \* matched_writers_allocation.maximum
    DisablePositiveAcks, \* disable_positive_acks_
    Persistent           \* the reader is a StatefulPersistentReader

ASSUME ReaderAssumption ==
    /\ HistoryKinds \subseteq {"KEEP_ALL", "KEEP_LAST"}
    /\ MaxSamples \in Nat \ {0}
    /\ MaxMatchedWriters \in Nat
    /\ DisablePositiveAcks \in BOOLEAN
    /\ Persistent \in BOOLEAN
    /\ IsFiniteSet(Writers)

VARIABLES
    reader,    \* the state of the StatefulReader and its history
    sent,      \* the ACKNACK and NACKFRAG messages it has sent since it was created
    telling,   \* the writer, if any, of the change the listener is being told of
    arrived,   \* ghost: numbers of each writer stored completely since it was matched
    excused,   \* ghost: numbers a writer has declared irrelevant, lost or already seen
    notified,  \* ghost: <<writer, number>> of every notification since the
               \* history record of the writer was created
    early      \* ghost: the listener has read or taken a change it was not told of yet

vars == <<reader, sent, telling, arrived, excused, notified, early>>

Change == [writer : Writers, seq : Nat \ {0}, missing : SUBSET Fragments, isRead : BOOLEAN]

ReaderState ==
    [matched_writers : [Writers -> WriterProxyState],
     history         : SUBSET Change,
     isHistoryFull   : BOOLEAN,
     total_unread    : Nat,
     history_record  : [Writers -> Nat],
     acknack_count   : Nat,
     nackfrag_count  : Nat,
     history_kind    : HistoryKinds]

is_fully_assembled(c) == c.missing = {}

ChangesFrom(rd, w) == {c \in rd.history : c.writer = w}

\* First change of each writer in m_changes; the clocks of two writers are
\* not related, so any of them may be the first one of all.
OldestChanges(rd) ==
    {c \in rd.history : \A d \in ChangesFrom(rd, c.writer) : c.seq <= d.seq}

----------------------------------------------------------------------------
(* The history, and what the reader does when it loses a change.           *)

\* Faulty: a change that was already read is counted again.
change_removed_by_history_ReadToo(rd, c) ==
    IF /\ is_fully_assembled(c)
       /\ available_changes_max(rd.matched_writers[c.writer]) >= c.seq
       /\ 0 < rd.total_unread
    THEN [rd EXCEPT !.total_unread = @ - 1]
    ELSE rd

change_removed_by_history(rd, c) ==
    IF /\ is_fully_assembled(c)
       /\ ~c.isRead
       /\ available_changes_max(rd.matched_writers[c.writer]) >= c.seq
       /\ 0 < rd.total_unread
    THEN [rd EXCEPT !.total_unread = @ - 1]
    ELSE rd

remove_change(rd, c) ==
    [change_removed_by_history(rd, c) EXCEPT !.history = @ \ {c},
                                             !.isHistoryFull = FALSE]

\* remove_changes_with_guid: remove_change on every change of the writer.
remove_changes_with_guid(rd, w) ==
    LET gone    == ChangesFrom(rd, w)
        counted == {c \in gone : /\ is_fully_assembled(c)
                                 /\ ~c.isRead
                                 /\ available_changes_max(rd.matched_writers[w]) >= c.seq}
    IN  [rd EXCEPT !.history = @ \ gone,
                   !.isHistoryFull = @ /\ gone = {},
                   !.total_unread = IF Cardinality(counted) <= @
                                    THEN @ - Cardinality(counted) ELSE 0]

\* Faulty: the change just below the first available number stays.
remove_fragmented_changes_until_OffByOne(rd, w, seq_num) ==
    [rd EXCEPT !.history = {c \in @ : ~(/\ c.writer = w
                                        /\ c.seq < seq_num - 1
                                        /\ ~is_fully_assembled(c))}]

\* Incomplete changes of the writer below seq_num leave the history; unlike
\* the other removals this one does not touch m_isHistoryFull.
remove_fragmented_changes_until(rd, w, seq_num) ==
    [rd EXCEPT !.history = {c \in @ : ~(/\ c.writer = w
                                        /\ c.seq < seq_num
                                        /\ ~is_fully_assembled(c))}]

\* add_received_change: the states in which the change has been stored.
add_received_change(rd, c) ==
    IF rd.isHistoryFull
    THEN {}
    ELSE {[rd EXCEPT !.history = @ \cup {c},
                     !.isHistoryFull = Cardinality(rd.history) + 1 = MaxSamples]}

received_change_keep_all_no_key(rd, c) ==
    IF Cardinality(rd.history)
         + unknown_missing_changes_up_to(rd.matched_writers[c.writer], c.seq) < MaxSamples
    THEN add_received_change(rd, c)
    ELSE {}

received_change_keep_last_no_key(rd, c) ==
    IF Cardinality(rd.history) < MaxSamples
    THEN add_received_change(rd, c)
    ELSE UNION {add_received_change(remove_change(rd, old), c) : old \in OldestChanges(rd)}

received_change(rd, c) ==
    IF rd.history_kind = "KEEP_ALL"
    THEN received_change_keep_all_no_key(rd, c)
    ELSE received_change_keep_last_no_key(rd, c)

----------------------------------------------------------------------------
(* Reception.                                                              *)

ChangesToNotify(rd, w) ==
    {c \in ChangesFrom(rd, w) :
        /\ rd.matched_writers[w].last_notified < c.seq
        /\ c.seq <= rd.matched_writers[w].low_mark
        /\ ~c.isRead}

\* The change NotifyChanges tells the listener of next, if there is one.
NextToNotify(rd, w) ==
    {c \in ChangesToNotify(rd, w) : \A d \in ChangesToNotify(rd, w) : c.seq <= d.seq}

\* Faulty: update_last_notified is not called.
NotifyChanges_Unrecorded(rd, w) ==
    LET next == NextToNotify(rd, w)
        upto == IF next = {} THEN available_changes_max(rd.matched_writers[w])
                ELSE CHOOSE n \in {c.seq : c \in next} : TRUE
    IN  [rd EXCEPT !.matched_writers[w] = notified_until(@, upto),
                   !.total_unread = @ + Cardinality(next)]

\* NotifyChanges up to its next call of the listener, or to its end.
NotifyChanges(rd, w) ==
    LET low  == available_changes_max(rd.matched_writers[w])
        next == NextToNotify(rd, w)
        upto == IF next = {} THEN low ELSE CHOOSE n \in {c.seq : c \in next} : TRUE
    IN  [rd EXCEPT !.history_record[w] = IF @ < low THEN low ELSE @,
                   !.matched_writers[w] = notified_until(@, upto),
                   !.total_unread = @ + Cardinality(next)]

\* The whole of NotifyChanges when the listener leaves the reader alone.
NotifyAllChanges(rd, w) ==
    LET low == available_changes_max(rd.matched_writers[w])
    IN  [rd EXCEPT !.history_record[w] = IF @ < low THEN low ELSE @,
                   !.matched_writers[w] = notified_until(@, low),
                   !.total_unread = @ + Cardinality(ChangesToNotify(rd, w))]

\* Faulty: the full history keeps waiting for the older changes.
make_older_changes_lost_Never(rd, w) == rd

\* A full history loses what precedes the writer's first stored change.
make_older_changes_lost(rd, w) ==
    IF rd.isHistoryFull
    THEN [rd EXCEPT !.matched_writers[w] =
            lost_changes_update(@, CHOOSE n \in {c.seq : c \in ChangesFrom(rd, w)} :
                                      \A c \in ChangesFrom(rd, w) : n <= c.seq)]
    ELSE rd

\* Faulty: a change that arrives early is stored but not recorded.
change_stored_InOrderOnly(rd, c) ==
    LET lost == make_older_changes_lost(rd, c.writer)
    IN  IF is_fully_assembled(c) /\ c.seq = lost.matched_writers[c.writer].low_mark + 1
        THEN [lost EXCEPT !.matched_writers[c.writer] = received_change_set(@, c.seq)]
        ELSE lost

\* What change_received does once the history has accepted change c, up to
\* the call of NotifyChanges.
change_stored(rd, c) ==
    LET lost == make_older_changes_lost(rd, c.writer)
    IN  IF is_fully_assembled(c)
        THEN [lost EXCEPT !.matched_writers[c.writer] = received_change_set(@, c.seq)]
        ELSE lost

NewChange(w, n, missing) == [writer |-> w, seq |-> n, missing |-> missing, isRead |-> FALSE]

Partial(rd, w, n) ==
    {c \in ChangesFrom(rd, w) : c.seq = n /\ ~is_fully_assembled(c)}

\* Incomplete changes leave the history when the GAP settles their number.
\* For the numbers of gapList the lookup uses auxSN, which is still the
\* number that ended the first loop.
GapRemovals(rd, w, gap) ==
    LET wp    == rd.matched_writers[w]
        auxSN == IF gap.start <= gap.base THEN gap.base ELSE gap.start
    IN  {c \in ChangesFrom(rd, w) :
            /\ ~is_fully_assembled(c)
            /\ \/ c.seq \in gap.start .. (gap.base - 1) /\ ~change_was_received(wp, c.seq)
               \/ c.seq = auxSN /\ \E n \in gap.list : ~change_was_received(wp, n)}

gap_applied(rd, w, gap) ==
    LET gone == GapRemovals(rd, w, gap)
    IN  [rd EXCEPT !.history = @ \ gone,
                   !.isHistoryFull = @ /\ gone = {},
                   !.matched_writers[w] =
                        irrelevant_changes_set(@, (gap.start .. (gap.base - 1)) \cup gap.list)]

heartbeat_applied(rd, w, hb) ==
    remove_fragmented_changes_until(
        [rd EXCEPT !.matched_writers[w] = process_heartbeat(@, hb, DisablePositiveAcks)],
        w, hb.first)
----------------------------------------------------------------------------
(* Actions.  Notify completes the handlers that end with NotifyChanges.    *)

Notify(rd, w) ==
    LET next == NextToNotify(rd, w)
    IN  /\ reader' = NotifyChanges(rd, w)
        /\ telling' = IF next = {} THEN {} ELSE {w}
        /\ notified' = notified \cup {<<w, c.seq>> : c \in next}

\* onNewCacheChangeAdded returns and the loop of NotifyChanges goes on.
listener_returns(w) ==
    /\ w \in telling
    /\ Notify(reader, w)
    /\ UNCHANGED <<sent, arrived, excused, early>>

created(kind) ==
    [matched_writers |-> [w \in Writers |-> stop],
     history |-> {}, isHistoryFull |-> FALSE, total_unread |-> 0,
     history_record |-> [w \in Writers |-> 0],
     acknack_count |-> 0, nackfrag_count |-> 0, history_kind |-> kind]

Init ==
    /\ \E kind \in HistoryKinds : reader = created(kind)
    /\ sent = {}
    /\ telling = {}
    /\ arrived = [w \in Writers |-> {}]
    /\ excused = [w \in Writers |-> {}]
    /\ notified = {}
    /\ early = FALSE

Matched == {w \in Writers : reader.matched_writers[w].is_alive}

\* Faulty: the history record is not consulted.
matched_writer_add_Afresh(w) ==
    /\ w \notin Matched
    /\ Cardinality(Matched) < MaxMatchedWriters
    /\ reader' = [reader EXCEPT !.matched_writers[w] = start(0)]
    /\ arrived' = [arrived EXCEPT ![w] = {}]
    /\ excused' = [excused EXCEPT ![w] = 1 .. reader.history_record[w]]
    /\ UNCHANGED <<sent, telling, notified, early>>

matched_writer_add(w) ==
    /\ w \notin Matched
    /\ Cardinality(Matched) < MaxMatchedWriters
    /\ reader' = [reader EXCEPT !.matched_writers[w] = start(reader.history_record[w])]
    /\ arrived' = [arrived EXCEPT ![w] = {}]
    /\ excused' = [excused EXCEPT ![w] = 1 .. reader.history_record[w]]
    /\ UNCHANGED <<sent, telling, notified, early>>

\* remove_persistence_guid forgets the history record unless the writer was
\* removed by its lease or the reader is persistent.
matched_writer_remove(w, removed_by_lease) ==
    LET forget == ~removed_by_lease /\ ~Persistent
    IN  /\ w \in Matched
        /\ reader' = [remove_changes_with_guid(reader, w) EXCEPT
                        !.matched_writers[w] = stop,
                        !.history_record[w] = IF forget THEN 0 ELSE @]
        /\ notified' = IF forget THEN {p \in notified : p[1] # w} ELSE notified
        /\ UNCHANGED <<sent, telling, arrived, excused, early>>

processDataMsg(w, n) ==
    /\ w \in Matched
    /\ ~change_was_received(reader.matched_writers[w], n)
    /\ \E rd \in received_change(reader, NewChange(w, n, {})) :
            Notify(change_stored(rd, NewChange(w, n, {})), w)
    /\ arrived' = [arrived EXCEPT ![w] = @ \cup {n}]
    /\ UNCHANGED <<sent, excused, early>>

\* The first fragments of a sample create its change; later ones complete it.
processDataFragMsg(w, n, frags) ==
    /\ w \in Matched
    /\ ~change_was_received(reader.matched_writers[w], n)
    /\ \/ /\ Partial(reader, w, n) = {}
          /\ LET c == NewChange(w, n, Fragments \ frags)
             IN  \E rd \in received_change(reader, c) :
                    /\ Notify(change_stored(rd, c), w)
                    /\ arrived' = IF is_fully_assembled(c)
                                  THEN [arrived EXCEPT ![w] = @ \cup {n}] ELSE arrived
       \/ \E c \in Partial(reader, w, n) :
            LET d  == [c EXCEPT !.missing = @ \ frags]
                rd == [reader EXCEPT !.history = (@ \ {c}) \cup {d}]
            IN  IF is_fully_assembled(d)
                THEN /\ Notify([rd EXCEPT !.matched_writers[w] = received_change_set(@, n)], w)
                     /\ arrived' = [arrived EXCEPT ![w] = @ \cup {n}]
                ELSE reader' = rd /\ UNCHANGED <<telling, notified, arrived>>
    /\ UNCHANGED <<sent, excused, early>>

processHeartbeatMsg(w, hb) ==
    /\ w \in Matched
    /\ hb.count > reader.matched_writers[w].last_heartbeat_count
    /\ Notify(heartbeat_applied(reader, w, hb), w)
    /\ excused' = [excused EXCEPT ![w] = @ \cup (1 .. (hb.first - 1))]
    /\ UNCHANGED <<sent, arrived, early>>

processGapMsg(w, gap) ==
    /\ w \in Matched
    /\ Notify(gap_applied(reader, w, gap), w)
    /\ excused' = [excused EXCEPT ![w] = @ \cup (gap.start .. (gap.base - 1)) \cup gap.list]
    /\ UNCHANGED <<sent, arrived, early>>

\* The initial acknack timer: the preemptive ACKNACK.
perform_initial_ack_nack(w) ==
    /\ reader.matched_writers[w].initial_acknack
    /\ reader' = [reader EXCEPT !.matched_writers[w].initial_acknack = FALSE,
                                !.acknack_count = @ + 1]
    /\ sent' = sent \cup {[type |-> "ACKNACK", writer |-> w, base |-> 0, list |-> {},
                           count |-> reader.acknack_count + 1, final |-> FALSE]}
    /\ UNCHANGED <<telling, arrived, excused, notified, early>>

\* send_acknack asks for the missing changes with an ACKNACK, and for the
\* missing fragments of those received in part with NACKFRAGs.
PartlyReceived(w) ==
    {c \in ChangesFrom(reader, w) :
        c.seq \in missing_changes(reader.matched_writers[w]) /\ ~is_fully_assembled(c)}

NackFrag(w, c) ==
    [type |-> "NACKFRAG", writer |-> w, seq |-> c.seq, list |-> c.missing,
     count |-> reader.nackfrag_count + Cardinality({d \in PartlyReceived(w) : d.seq <= c.seq})]

\* Faulty: samples received in part are asked for again as a whole.
AckNack_Whole(w) ==
    LET wp == reader.matched_writers[w]
    IN  [type |-> "ACKNACK", writer |-> w, base |-> wp.low_mark + 1,
         list |-> missing_changes(wp),
         count |-> reader.acknack_count + 1, final |-> missing_changes(wp) = {}]

AckNack(w) ==
    LET wp   == reader.matched_writers[w]
        list == missing_changes(wp) \ {c.seq : c \in PartlyReceived(w)}
    IN  [type |-> "ACKNACK", writer |-> w, base |-> wp.low_mark + 1, list |-> list,
         count |-> reader.acknack_count + 1, final |-> list = {}]

\* The heartbeat response timer.
perform_heartbeat_response(w) ==
    LET wp == reader.matched_writers[w]
    IN  /\ wp.heartbeat_response
        /\ IF missing_changes(wp) # {} \/ ~wp.heartbeat_final_flag
           THEN /\ sent' = sent \cup {NackFrag(w, c) : c \in PartlyReceived(w)} \cup {AckNack(w)}
                /\ reader' = [reader EXCEPT !.matched_writers[w].heartbeat_response = FALSE,
                                            !.acknack_count = @ + 1,
                                            !.nackfrag_count = @ + Cardinality(PartlyReceived(w))]
           ELSE /\ reader' = [reader EXCEPT !.matched_writers[w].heartbeat_response = FALSE]
                /\ UNCHANGED sent
        /\ UNCHANGED <<telling, arrived, excused, notified, early>>

\* The change is available, but the loop of NotifyChanges has not counted it.
NotToldYet(c) == \E w \in telling : c \in ChangesToNotify(reader, w)

\* nextUnreadCache: the first unread change of a writer that is available.
readNextData(c) ==
    LET Readable(d) == ~d.isRead /\ d.seq <= reader.matched_writers[d.writer].low_mark
    IN  /\ c \in reader.history
        /\ Readable(c)
        /\ \A d \in ChangesFrom(reader, c.writer) : Readable(d) => c.seq <= d.seq
        /\ reader' = [reader EXCEPT !.history = (@ \ {c}) \cup {[c EXCEPT !.isRead = TRUE]},
                                    !.total_unread = IF 0 < @ THEN @ - 1 ELSE @]
        /\ early' = (early \/ NotToldYet(c))
        /\ UNCHANGED <<sent, telling, arrived, excused, notified>>

\* nextUntakenCache, change_read_by_user, then remove_change_sub.
takeNextData(c) ==
    LET read == [c EXCEPT !.isRead = TRUE]
        rd   == [reader EXCEPT !.history = (@ \ {c}) \cup {read},
                               !.total_unread = IF ~c.isRead /\ 0 < @ THEN @ - 1 ELSE @]
    IN  /\ c \in OldestChanges(reader)
        /\ c.seq <= reader.matched_writers[c.writer].low_mark
        /\ reader' = remove_change(rd, read)
        /\ early' = (early \/ NotToldYet(c))
        /\ UNCHANGED <<sent, telling, arrived, excused, notified>>

\* The lifespan timer removes the first change, available or not.
lifespan_expired(c) ==
    /\ c \in OldestChanges(reader)
    /\ reader' = remove_change(reader, c)
    /\ UNCHANGED <<sent, telling, arrived, excused, notified, early>>

\* The process of a persistent reader ends and the reader is created again:
\* load_reader_from_storage brings back the history record and nothing else.
Restart ==
    /\ Persistent
    /\ reader' = [created(reader.history_kind) EXCEPT !.history_record = reader.history_record]
    /\ sent' = {} /\ telling' = {} /\ early' = FALSE
    /\ UNCHANGED <<arrived, excused, notified>>
=============================================================================
