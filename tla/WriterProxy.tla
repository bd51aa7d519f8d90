---------------------------- MODULE WriterProxy ----------------------------
(***************************************************************************)
(* rtps::WriterProxy: what a reliable reader remembers of one matched      *)
(* remote writer.  The state is a record and every method is an operator   *)
(* from the state before the call to the state after it, so that the       *)
(* handlers of StatefulReader can call several of them in one step.        *)
(*                                                                         *)
(*   low_mark          changes_from_writer_low_mark_: every sequence       *)
(*                     number up to it is settled                          *)
(*   changes_received  numbers above low_mark + 1 already settled          *)
(*   max_sequence_number  greatest number heard of                         *)
(*   last_notified     greatest number the user has been told about        *)
(*   initial_acknack, heartbeat_response  whether the timer is armed       *)
(***************************************************************************)
EXTENDS Integers, FiniteSets

CONSTANT AckWindow  \* bits of a SequenceNumberSet_t (256 in the code)

ASSUME AckWindowAssumption == AckWindow \in Nat \ {0}

WriterProxyState ==
    [is_alive            : BOOLEAN,
     last_notified       : Nat,
     low_mark            : Nat,
     max_sequence_number : Nat,
     changes_received    : SUBSET Nat,
     last_heartbeat_count : Nat,
     heartbeat_final_flag : BOOLEAN,
     initial_acknack     : BOOLEAN,
     heartbeat_response  : BOOLEAN]

----------------------------------------------------------------------------
loaded_from_storage(wp, seq_num) ==
    [wp EXCEPT !.last_notified = seq_num,
               !.low_mark = seq_num,
               !.max_sequence_number = seq_num]

\* clear(), and the cancelled timers of stop(): the state of an unused proxy.
stop ==
    [is_alive |-> FALSE, last_notified |-> 0, low_mark |-> 0,
     max_sequence_number |-> 0, changes_received |-> {},
     last_heartbeat_count |-> 0, heartbeat_final_flag |-> FALSE,
     initial_acknack |-> FALSE, heartbeat_response |-> FALSE]

start(initial_sequence) ==
    loaded_from_storage([stop EXCEPT !.is_alive = TRUE, !.initial_acknack = TRUE],
                        initial_sequence)

\* Least number above the low mark that is not settled.
FirstMissing(wp) ==
    CHOOSE n \in (wp.low_mark + 1) .. (wp.max_sequence_number + 1) :
        /\ n \notin wp.changes_received
        /\ \A m \in (wp.low_mark + 1) .. (n - 1) : m \in wp.changes_received

\* Move the low mark over the consecutive received numbers that follow it.
cleanup(wp) ==
    LET first == FirstMissing(wp)
    IN  [wp EXCEPT !.low_mark = first - 1,
                   !.changes_received = {n \in @ : n > first}]

missing_changes_update(wp, seq_num) ==
    IF seq_num > wp.low_mark /\ seq_num > wp.max_sequence_number
    THEN [wp EXCEPT !.max_sequence_number = seq_num]
    ELSE wp

\* Faulty: the first available number is lost as well.
lost_changes_update_Inclusive(wp, seq_num) ==
    IF seq_num > wp.low_mark
    THEN cleanup([wp EXCEPT !.low_mark = seq_num,
                            !.max_sequence_number = IF seq_num > @ THEN seq_num ELSE @])
    ELSE wp

lost_changes_update(wp, seq_num) ==
    IF seq_num > wp.low_mark
    THEN cleanup([wp EXCEPT !.changes_received = {n \in @ : n >= seq_num},
                            !.low_mark = seq_num - 1,
                            !.max_sequence_number =
                                IF seq_num - 1 > @ THEN seq_num - 1 ELSE @])
    ELSE wp

change_was_received(wp, seq_num) ==
    seq_num <= wp.low_mark \/ seq_num \in wp.changes_received

\* Faulty: cleanup is not called when a hole is filled.
received_change_set_NoCleanup(wp, seq_num) ==
    CASE change_was_received(wp, seq_num) -> wp
      [] ~change_was_received(wp, seq_num) /\ seq_num = wp.low_mark + 1 ->
            [wp EXCEPT !.low_mark = seq_num,
                       !.max_sequence_number = IF seq_num > @ THEN seq_num ELSE @]
      [] ~change_was_received(wp, seq_num) /\ seq_num # wp.low_mark + 1 ->
            [wp EXCEPT !.changes_received = @ \cup {seq_num},
                       !.max_sequence_number = IF seq_num > @ THEN seq_num ELSE @]

\* The state after received_change_set(seq_num).  Its result, TRUE when the
\* number was not settled before, is ~change_was_received(wp, seq_num).
received_change_set(wp, seq_num) ==
    CASE change_was_received(wp, seq_num) -> wp
      [] ~change_was_received(wp, seq_num) /\ seq_num > wp.max_sequence_number ->
            IF seq_num = wp.low_mark + 1
            THEN [wp EXCEPT !.low_mark = seq_num, !.max_sequence_number = seq_num]
            ELSE [wp EXCEPT !.changes_received = @ \cup {seq_num},
                            !.max_sequence_number = seq_num]
      [] ~change_was_received(wp, seq_num) /\ seq_num <= wp.max_sequence_number ->
            IF seq_num = wp.low_mark + 1
            THEN cleanup([wp EXCEPT !.low_mark = seq_num])
            ELSE [wp EXCEPT !.changes_received = @ \cup {seq_num}]

\* irrelevant_change_set on every number of the GAP, in increasing order.
irrelevant_changes_set(wp, numbers) ==
    LET known == {wp.max_sequence_number} \cup numbers
    IN  cleanup([wp EXCEPT !.changes_received = @ \cup {n \in numbers : n > wp.low_mark},
                           !.max_sequence_number = CHOOSE n \in known : \A m \in known : m <= n])

available_changes_max(wp) == wp.low_mark

are_there_missing_changes(wp) == wp.low_mark < wp.max_sequence_number

\* The numbers an ACKNACK asks for: at most AckWindow of them.
missing_changes(wp) ==
    {n \in (wp.low_mark + 1) .. wp.max_sequence_number :
        n <= wp.low_mark + AckWindow /\ n \notin wp.changes_received}

\* How many numbers below seq_num are known to exist and still missing.
unknown_missing_changes_up_to(wp, seq_num) ==
    Cardinality({n \in (wp.low_mark + 1) .. wp.max_sequence_number :
                    n < seq_num /\ n \notin wp.changes_received})

\* NotifyChanges calls next_cache_change_to_be_notified until it returns n, or
\* until it is unknown when n is the low mark.
notified_until(wp, n) == [wp EXCEPT !.last_notified = IF @ < n THEN n ELSE @]

\* A heartbeat hb that is not older than the last one; the writer is remote.
process_heartbeat(wp, hb, disable_positive) ==
    LET settled == missing_changes_update(lost_changes_update(wp, hb.first), hb.last)
        respond == \/ ~hb.final /\ (~disable_positive \/ are_there_missing_changes(settled))
                   \/ hb.final /\ ~hb.liveliness /\ are_there_missing_changes(settled)
    IN  [settled EXCEPT !.last_heartbeat_count = hb.count,
                        !.heartbeat_final_flag = hb.final,
                        !.heartbeat_response = @ \/ respond]
=============================================================================
