--------------------------- MODULE StatefulWriter ---------------------------
(***************************************************************************)
(* rtps::StatefulWriter with its WriterHistory: the reliable writer of one *)
(* topic, matched with remote readers.  Every handler runs under the       *)
(* writer's mutex; it is an operator from the writer's state before the    *)
(* call to the state after it.  Two fields describe one handler and are    *)
(* empty between handlers: out, the messages it hands to the transport,    *)
(* and notify, its calls of may_remove_change_cond_.notify_one().          *)
(*                                                                         *)
(* No flow controllers, no separate sending, no local or data-sharing      *)
(* readers, no data filter, and the transport takes every message it is    *)
(* given in time except where a timeout is a parameter.  The readers only  *)
(* compare the counts of HEARTBEATs, so the counts are left out.           *)
(***************************************************************************)
EXTENDS ReaderProxy, Sequences

CONSTANTS
    Readers,             \* remote readers of the topic
    Instances,           \* instances of the topic's key
    Configurations       \* what the writer and the readers may be configured with

\* The QoS the code looks at: of the writer, then the readers of each kind.
Configuration ==
    [async                 : BOOLEAN,          \* isAsync()
     push_mode             : BOOLEAN,          \* m_pushMode
     disable_positive_acks : BOOLEAN,
     volatile              : BOOLEAN,          \* durability of the writer
     lifespan              : BOOLEAN,          \* whether the changes expire
     fragmented            : BOOLEAN,          \* whether the changes are sent in fragments
     keep_all              : BOOLEAN,          \* history kind: KEEP_ALL or KEEP_LAST
     keyed                 : BOOLEAN,          \* whether the topic has a key
     max_samples           : Nat \ {0},        \* maximumReservedCaches
     samples_per_instance  : Nat \ {0},        \* max_samples_per_instance, or depth
     best_effort           : SUBSET Readers,
     volatile_readers      : SUBSET Readers,
     no_positive_acks      : SUBSET Readers]

ASSUME WriterAssumption ==
    /\ IsFiniteSet(Readers)
    /\ Instances # {}
    /\ Configurations \subseteq Configuration

Data == [type : {"DATA"}, to : SUBSET Readers, seq : Nat]

Heartbeat == [type : {"HEARTBEAT"}, to : SUBSET Readers, first : Nat, last : Nat,
              final : BOOLEAN]

Gap == [type : {"GAP"}, to : SUBSET Readers, numbers : SUBSET Nat]

WriterState ==
    [qos               : Configurations,
     matched_readers   : [Readers -> ReaderProxyState],
     history           : SUBSET (Nat \ {0}),
     keyed_changes     : [Instances -> Seq(Nat)],
     isHistoryFull     : BOOLEAN,
     last_seq          : Nat,          \* m_lastCacheChangeSeqNum
     next_all_acked    : Nat,          \* next_all_acked_notify_sequence_
     min_low_mark      : Nat,          \* min_readers_low_mark_
     biggest_removed   : Nat,
     may_remove_change : 0 .. 2,
     all_acked         : BOOLEAN,
     last_sequence_number : Nat,       \* last_sequence_number_, for ack_event
     periodic_hb       : BOOLEAN,      \* timers that are armed
     nack_response     : BOOLEAN,
     ack_event         : BOOLEAN,
     async_pending     : BOOLEAN,      \* woken up in the asynchronous thread
     notify            : Nat,
     out               : SUBSET (Data \cup Heartbeat \cup Gap)]

created(qos) ==
    [qos |-> qos, matched_readers |-> [r \in Readers |-> stopped],
     history |-> {}, keyed_changes |-> [i \in Instances |-> <<>>],
     isHistoryFull |-> FALSE, last_seq |-> 0, next_all_acked |-> 1,
     min_low_mark |-> 0, biggest_removed |-> 0, may_remove_change |-> 0,
     all_acked |-> FALSE, last_sequence_number |-> 0,
     periodic_hb |-> FALSE, nack_response |-> FALSE, ack_event |-> FALSE,
     async_pending |-> FALSE, notify |-> 0, out |-> {}]

next_sequence_number(wr) == wr.last_seq + 1

MatchedReaders(wr) == {r \in Readers : wr.matched_readers[r].is_active}

\* for_matched_readers: the proxies of the readers in S become Op(proxy).
OnReaders(wr, S, Op(_)) ==
    [wr EXCEPT !.matched_readers =
        [r \in Readers |-> IF r \in S THEN Op(@[r]) ELSE @[r]]]

----------------------------------------------------------------------------
(* Messages.                                                               *)

heartbeat(wr, to, final) ==
    [type |-> "HEARTBEAT", to |-> to,
     first |-> IF wr.history = {} THEN next_sequence_number(wr) ELSE Least(wr.history),
     last  |-> IF wr.history = {} THEN wr.last_seq ELSE Greatest(wr.history),
     final |-> final]

\* send_heartbeat_nts_ in a group with the given number of readers.
send_heartbeat_nts(wr, number_of_readers, to, final) ==
    IF number_of_readers = 0 \/ (wr.history = {} /\ number_of_readers # 1)
    THEN wr
    ELSE [wr EXCEPT !.out = @ \cup {heartbeat(wr, to, final)}]

send_heartbeat_to_all_readers(wr) ==
    send_heartbeat_nts(wr, Cardinality(MatchedReaders(wr)), MatchedReaders(wr),
                       wr.qos.disable_positive_acks)

add_gap(wr, to, numbers) ==
    IF numbers = {} \/ to = {}
    THEN wr
    ELSE [wr EXCEPT !.out = @ \cup {[type |-> "GAP", to |-> to, numbers |-> numbers]}]

add_data(wr, to, n) ==
    [wr EXCEPT !.out = @ \cup {[type |-> "DATA", to |-> to, seq |-> n]}]

\* send_heartbeat_to_nts with force: the heartbeat a preemptive ACKNACK asks
\* for, and the numbers that do not concern the reader.
send_heartbeat_to_nts(wr, r) ==
    LET rp       == wr.matched_readers[r]
        relevant == first_relevant_sequence_number(rp)
        beat     == send_heartbeat_nts(wr, 1, {r}, wr.qos.disable_positive_acks)
    IN  CASE ~rp.is_reliable -> wr
          [] rp.is_reliable /\ wr.history = {} -> beat
          [] rp.is_reliable /\ wr.history # {} ->
                add_gap(add_gap(beat, {r},
                                IF rp.is_volatile THEN Least(wr.history) .. (relevant - 1) ELSE {}),
                        {r}, send_gaps(rp, next_sequence_number(wr)))

----------------------------------------------------------------------------
(* The history, and what has been acknowledged.                            *)

\* Faulty: a removed change stays in the list of its instance.
LeaveInstances_Kept(keyed_changes, S) == keyed_changes

LeaveInstances(keyed_changes, S) ==
    [i \in Instances |-> SelectSeq(keyed_changes[i], LAMBDA n : n \notin S)]

\* PublisherHistory::remove_change_pub, with change_removed_by_history, on every
\* change of S.
remove_changes(wr, S) ==
    IF S = {}
    THEN wr
    ELSE [OnReaders(wr, MatchedReaders(wr), LAMBDA rp : change_has_been_removed(rp, S)) EXCEPT
            !.history = @ \ S,
            !.keyed_changes = LeaveInstances(@, S),
            !.isHistoryFull = FALSE,
            !.biggest_removed = Greatest({@} \cup S),
            !.may_remove_change = 2,
            !.notify = @ + Cardinality(S)]

\* Least low mark of the matched readers.
MinLowMark(wr) ==
    IF MatchedReaders(wr) = {}
    THEN wr.last_seq
    ELSE Least({wr.matched_readers[r].low_mark : r \in MatchedReaders(wr)})

\* Changes notified as received by all; a VOLATILE writer removes them.
ReceivedByAll(wr) ==
    {n \in wr.history : wr.next_all_acked <= n /\ n <= MinLowMark(wr)}

\* Faulty: the wait is told that a change has been removed, not that one may be.
notify_received_by_all_Removed(wr) ==
    LET low  == MinLowMark(wr)
        kept == IF wr.qos.volatile THEN remove_changes(wr, ReceivedByAll(wr)) ELSE wr
    IN  [kept EXCEPT
            !.next_all_acked = IF @ <= low THEN low + 1 ELSE @,
            !.may_remove_change =
                IF kept.history = {} \/ Least(kept.history) <= low THEN 2 ELSE @,
            !.min_low_mark = low]

\* The branch of check_acked_status for a history that is not empty.  An empty
\* history has the unknown number -1 as its first one, below every low mark.
notify_received_by_all(wr) ==
    LET low  == MinLowMark(wr)
        kept == IF wr.qos.volatile THEN remove_changes(wr, ReceivedByAll(wr)) ELSE wr
    IN  [kept EXCEPT
            !.next_all_acked = IF @ <= low THEN low + 1 ELSE @,
            !.may_remove_change =
                IF kept.history = {} \/ Least(kept.history) <= low THEN 1 ELSE @,
            !.min_low_mark = low]

\* Faulty: only changes in status UNACKNOWLEDGED are waited for.
AllAcked_Unacknowledged(wr) ==
    \A r \in MatchedReaders(wr) : ~has_unacknowledged(wr.matched_readers[r])

AllAcked(wr) == \A r \in MatchedReaders(wr) : ~has_changes(wr.matched_readers[r])

\* Faulty: the flag of wait_for_all_acked is not raised.
NotifyAllAcked_NoFlag(wr) ==
    [wr EXCEPT !.next_all_acked = next_sequence_number(wr), !.min_low_mark = wr.last_seq]

\* Whoever waits in wait_for_all_acked is told.
NotifyAllAcked(wr) ==
    [wr EXCEPT !.next_all_acked = next_sequence_number(wr),
               !.min_low_mark = wr.last_seq,
               !.all_acked = TRUE]

\* Faulty: nobody is notified.
NotifyMayRemove_Never(wr) == wr

\* may_remove_change_cond_.notify_one()
NotifyMayRemove(wr) == [wr EXCEPT !.notify = @ + 1]

check_acked_status(wr) ==
    LET notified == IF wr.history # {} THEN notify_received_by_all(wr) ELSE wr
        settled  == IF AllAcked(wr) THEN NotifyAllAcked(notified) ELSE notified
    IN  IF AllAcked(wr) \/ wr.history # {} THEN NotifyMayRemove(settled) ELSE settled

is_acked_by_all(wr, n) ==
    \/ n < wr.next_all_acked
    \/ \A r \in MatchedReaders(wr) : change_is_acked(wr.matched_readers[r], n)

----------------------------------------------------------------------------
(* A new change.                                                           *)

\* Readers to which a new change is sent without waiting to be asked.
SentAtOnce(wr) ==
    {r \in MatchedReaders(wr) : wr.qos.push_mode \/ ~wr.matched_readers[r].is_reliable}

async_delivery(wr, n) ==
    LET added == OnReaders(wr, MatchedReaders(wr),
                    LAMBDA rp : add_change(rp, n, IF wr.qos.push_mode \/ ~rp.is_reliable
                                                  THEN "UNSENT" ELSE "UNACKNOWLEDGED", TRUE))
    IN  IF SentAtOnce(wr) # {}
        THEN [added EXCEPT !.async_pending = TRUE]
        ELSE [added EXCEPT !.periodic_hb = TRUE]

\* Status of the change for each reader before it is sent.
sync_status(wr, rp) ==
    CASE ~rp.is_reliable -> "ACKNOWLEDGED"
      [] rp.is_reliable /\ wr.qos.push_mode -> "UNDERWAY"
      [] OTHER -> "UNACKNOWLEDGED"

\* The send may give up when max_blocking_time is over (timeout).
sync_delivery(wr, n, timeout) ==
    LET added == OnReaders(wr, MatchedReaders(wr),
                    LAMBDA rp : add_change(restart_nack_supression(rp), n,
                                           sync_status(wr, rp), TRUE))
        to    == SentAtOnce(wr)
        sent  == send_heartbeat_nts(add_data(added, to, n), Cardinality(MatchedReaders(wr)),
                                    to, wr.qos.disable_positive_acks)
    IN  check_acked_status(
            CASE to = {} -> [added EXCEPT !.periodic_hb = TRUE]
              [] to # {} /\ timeout -> added
              [] to # {} /\ ~timeout ->
                    [sent EXCEPT !.periodic_hb = TRUE,
                                 !.last_sequence_number =
                                    IF wr.qos.disable_positive_acks /\ @ = 0 THEN n ELSE @])

unsent_change_added_to_history(wr, n, timeout) ==
    IF MatchedReaders(wr) = {}
    THEN check_acked_status(wr)
    ELSE [IF wr.qos.async THEN async_delivery(wr, n) ELSE sync_delivery(wr, n, timeout) EXCEPT
            !.ack_event = @ \/ wr.qos.disable_positive_acks]

\* WriterHistory::add_change_ on a history that is not full.
add_change_to_history(wr, timeout) ==
    LET n == next_sequence_number(wr)
    IN  unsent_change_added_to_history(
            [wr EXCEPT !.last_seq = n,
                       !.history = @ \cup {n},
                       !.isHistoryFull = Cardinality(wr.history) + 1 = wr.qos.max_samples],
            n, timeout)

remove_min_change(wr) ==
    IF wr.history = {} THEN wr ELSE remove_changes(wr, {Least(wr.history)})

----------------------------------------------------------------------------
(* The asynchronous thread.                                                *)

\* The numbers missing from the history, for the readers that may wait for one.
send_hole_gaps_to_group(wr) ==
    LET to    == {r \in MatchedReaders(wr) : wr.matched_readers[r].low_mark < wr.biggest_removed}
        holes == (Least(wr.history) .. wr.last_seq) \ wr.history
        beat  == send_heartbeat_nts(wr, Cardinality(MatchedReaders(wr)), to, TRUE)
    IN  IF wr.min_low_mark < wr.biggest_removed /\ holes # {}
        THEN add_gap(beat, to, holes)
        ELSE wr

\* Readers that wait for change n to be sent.
Unsent(wr, n) == {r \in MatchedReaders(wr) : change_is_unsent(wr.matched_readers[r], n)}

\* The changes of S are sent, each to the readers that wait for it.
SendChanges(wr, S) ==
    LET ReaderSent(r) ==
            LET mine == {n \in S : r \in Unsent(wr, n)}
                rp   == wr.matched_readers[r]
            IN  IF mine = {} THEN rp
                ELSE set_changes_to_sent(rp, mine)
        sent == {n \in S : Unsent(wr, n) # {}}
    IN  [wr EXCEPT !.matched_readers = [r \in Readers |-> ReaderSent(r)],
                   !.out = @ \cup {[type |-> "DATA", to |-> Unsent(wr, n), seq |-> n] : n \in sent},
                   !.periodic_hb = @ \/ \E n \in sent : \E r \in Unsent(wr, n) :
                                            wr.matched_readers[r].is_reliable]

\* The readers whose locators are selected once change n has been visited: the
\* heartbeat that a full history sends with the data selects all of them.
Selected(wr, n) ==
    IF wr.isHistoryFull /\ Unsent(wr, n) # {} THEN MatchedReaders(wr) ELSE Unsent(wr, n)

\* The loop of send_all_unsent_changes over the history stops after change
\* upto when enough bytes have been sent; then the thread is woken up again.
\* A heartbeat goes with the data of a full history or of a full send buffer,
\* and one at the end when it is required, to the readers selected by then.
send_all_unsent_changes(wr, upto, buffer_full) ==
    LET visited  == {n \in wr.history : n <= upto}
        required == wr.next_all_acked < Least(wr.history)
        gaps     == send_hole_gaps_to_group(wr)
        sent     == SendChanges(gaps, visited)
        last     == IF required \/ gaps # wr THEN {Greatest(visited)} ELSE {}
        beats    == {Selected(wr, n) : n \in last \cup (IF wr.isHistoryFull \/ buffer_full
                                                        THEN visited ELSE {})}
    IN  [sent EXCEPT
            !.out = @ \cup {heartbeat(wr, to, wr.qos.disable_positive_acks) : to \in beats \ {{}}},
            !.async_pending = visited # wr.history]

send_any_unsent_changes(wr, upto, buffer_full) ==
    LET woken == [wr EXCEPT !.async_pending = FALSE]
    IN  check_acked_status(
            IF wr.history = {} \/ MatchedReaders(wr) = {}
            THEN send_heartbeat_to_all_readers(woken)
            ELSE send_all_unsent_changes(woken, upto, buffer_full))

----------------------------------------------------------------------------
(* The timers.                                                             *)

send_periodic_heartbeat(wr) ==
    IF wr.history # {} /\ \E r \in MatchedReaders(wr) : has_unacknowledged(wr.matched_readers[r])
    THEN send_heartbeat_to_all_readers(wr)
    ELSE [wr EXCEPT !.periodic_hb = FALSE]

\* Faulty: the asynchronous thread is not woken.
perform_nack_response_NoWake(wr) ==
    [OnReaders(wr, MatchedReaders(wr),
               LAMBDA rp : convert_status_on_all_changes(rp, "REQUESTED", "UNSENT")) EXCEPT
        !.nack_response = FALSE]

perform_nack_response(wr) ==
    LET wake == \E r \in MatchedReaders(wr) :
                    \/ WithStatus(wr.matched_readers[r], "REQUESTED") # {}
                    \/ are_there_gaps(wr.matched_readers[r])
    IN  [OnReaders(wr, MatchedReaders(wr),
                   LAMBDA rp : convert_status_on_all_changes(rp, "REQUESTED", "UNSENT")) EXCEPT
            !.nack_response = FALSE,
            !.async_pending = @ \/ wake]

\* Faulty: the periodic heartbeat is not armed.
perform_nack_supression_NoHeartbeat(wr, r) ==
    OnReaders(wr, {r},
        LAMBDA rp : [convert_status_on_all_changes(rp, "UNDERWAY", "UNACKNOWLEDGED") EXCEPT
                        !.nack_supression = FALSE])

perform_nack_supression(wr, r) ==
    [OnReaders(wr, {r},
        LAMBDA rp : [convert_status_on_all_changes(rp, "UNDERWAY", "UNACKNOWLEDGED") EXCEPT
                        !.nack_supression = FALSE]) EXCEPT
        !.periodic_hb = TRUE]

\* One round of the loop of ack_timer_expired, with positive acks disabled;
\* the timer goes on while the next change is in the history.
ack_timer_expired(wr) ==
    LET last == wr.last_sequence_number
    IN  [OnReaders(wr, MatchedReaders(wr),
                   LAMBDA rp : IF rp.disable_positive_acks
                               THEN acked_changes_set(rp, last + 1, wr.history,
                                                      next_sequence_number(wr))
                               ELSE rp) EXCEPT
            !.last_sequence_number = last + 1,
            !.ack_event = last + 1 \in wr.history]

----------------------------------------------------------------------------
(* Messages of the readers.                                                *)

\* An accepted ACKNACK of reader r.
process_acknack(wr, r, ack) ==
    LET acked     == OnReaders(wr, {r},
                        LAMBDA rp : acked_changes_set(rp, ack.base, wr.history,
                                                      next_sequence_number(wr)))
        rp        == acked.matched_readers[r]
        requested == OnReaders(acked, {r}, LAMBDA p : requested_changes_set(p, ack.list))
    IN  check_acked_status(
            CASE ack.base > 0 /\ (requested_changes(rp, ack.list) # {} \/ are_there_gaps(rp)) ->
                    [requested EXCEPT !.nack_response = TRUE]
              [] ack.base > 0 /\ requested_changes(rp, ack.list) = {} /\ ~are_there_gaps(rp) ->
                    [acked EXCEPT !.periodic_hb = @ \/ ~ack.final]
              [] ack.base = 0 /\ ack.list = {} /\ ~ack.final -> send_heartbeat_to_nts(acked, r)
              [] OTHER -> acked)

\* An accepted NACKFRAG of reader r for change n.
process_nack_frag(wr, r, n) ==
    IF n \in Numbers(wr.matched_readers[r])
    THEN [OnReaders(wr, {r}, LAMBDA rp : requested_fragment_set(rp, n)) EXCEPT
            !.nack_response = TRUE]
    ELSE wr

----------------------------------------------------------------------------
(* Matching.                                                               *)

\* A reader matched late gets the history, unless the reader or the writer is
\* volatile; what it does not get is declared in a GAP.  There is a proxy for
\* every reader.  A reader that is matched already only has its locators and
\* its QoS read again, neither of which changes here.
matched_reader_add(wr, r) ==
    LET relevant == r \notin wr.qos.volatile_readers /\ ~wr.qos.volatile
        rp       == start(r \notin wr.qos.best_effort, r \in wr.qos.volatile_readers,
                          r \in wr.qos.no_positive_acks, wr.history, next_sequence_number(wr))
        proxy    == IF relevant
                    THEN [rp EXCEPT !.changes = {[seq |-> n, status |-> "UNACKNOWLEDGED"] :
                                                    n \in wr.history}]
                    ELSE rp
        matched  == [wr EXCEPT !.matched_readers[r] = proxy]
        beat     == send_heartbeat_nts(matched, 1, {r}, wr.qos.disable_positive_acks)
        skipped  == (Least(wr.history) .. wr.last_seq) \ (IF relevant THEN wr.history ELSE {})
    IN  IF wr.history = {}
        THEN beat
        ELSE [IF proxy.is_reliable THEN add_gap(beat, {r}, skipped) ELSE beat EXCEPT
                !.periodic_hb = TRUE]

\* matched_reader_remove up to the point where it releases the mutex; it then
\* calls check_acked_status, which takes the mutex again.
matched_reader_remove(wr, r) ==
    LET removed == [wr EXCEPT !.matched_readers[r] = stopped]
    IN  [removed EXCEPT !.periodic_hb = @ /\ MatchedReaders(removed) # {}]
=============================================================================
