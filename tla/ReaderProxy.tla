---------------------------- MODULE ReaderProxy ----------------------------
(***************************************************************************)
(* rtps::ReaderProxy: what a StatefulWriter remembers of one matched       *)
(* remote reader.  The state is a record and every method an operator from *)
(* the state before the call to the state after it.                        *)
(*                                                                         *)
(*   low_mark        changes_low_mark_: every number up to it is           *)
(*                   acknowledged                                          *)
(*   changes         changes_for_reader_: a status for each change of the  *)
(*                   history above the low mark that concerns the reader   *)
(*   nack_supression whether nack_supression_event_ is armed               *)
(*                                                                         *)
(* Local and data-sharing readers are not modelled.  An ACKNACK or NACKFRAG *)
(* whose count is not above the last one's is dropped on arrival, so the   *)
(* counts only order the messages that are accepted and are left out.      *)
(***************************************************************************)
EXTENDS Integers, FiniteSets

ChangeForReaderStatus ==
    {"UNSENT", "REQUESTED", "UNACKNOWLEDGED", "ACKNOWLEDGED", "UNDERWAY"}

ChangeForReader == [seq : Nat \ {0}, status : ChangeForReaderStatus]

ReaderProxyState ==
    [is_active           : BOOLEAN,
     is_reliable         : BOOLEAN,
     is_volatile         : BOOLEAN,
     disable_positive_acks : BOOLEAN,
     low_mark            : Nat,
     changes             : SUBSET ChangeForReader,
     nack_supression     : BOOLEAN]

Numbers(rp) == {c.seq : c \in rp.changes}

Least(S) == CHOOSE n \in S : \A m \in S : n <= m

Greatest(S) == CHOOSE n \in S : \A m \in S : m <= n

WithStatus(rp, status) == {c \in rp.changes : c.status = status}

----------------------------------------------------------------------------
stopped ==
    [is_active |-> FALSE, is_reliable |-> FALSE, is_volatile |-> FALSE,
     disable_positive_acks |-> FALSE, low_mark |-> 0, changes |-> {},
     nack_supression |-> FALSE]

\* The number after seq_num and the acknowledged changes that follow it
\* without a hole; next is the writer's next_sequence_number().
NextUnacknowledged(rp, seq_num, next) ==
    LET acked == {c.seq : c \in WithStatus(rp, "ACKNOWLEDGED")}
    IN  CHOOSE n \in seq_num .. next :
            /\ n \notin acked
            /\ \A m \in seq_num .. (n - 1) : m \in acked

\* acked_changes_set on the first numbers of the history: a reader that is not
\* volatile starts again from the first change, and those it had acknowledged
\* come back unacknowledged.
acked_from_the_start(rp, history, next) ==
    IF history = {}
    THEN [rp EXCEPT !.low_mark = next - 1]
    ELSE [rp EXCEPT !.low_mark = Least(history) - 1,
                    !.changes = @ \cup {[seq |-> n, status |-> "UNACKNOWLEDGED"] :
                                          n \in {m \in history : /\ m <= rp.low_mark
                                                                 /\ m \notin Numbers(rp)}}]

\* Faulty: the change at the base of the ACKNACK counts as acknowledged.
acked_changes_set_ErasesNext(rp, seq_num, history, next) ==
    IF seq_num > rp.low_mark
    THEN [rp EXCEPT !.changes = {c \in @ : c.seq > seq_num}, !.low_mark = seq_num - 1]
    ELSE rp

acked_changes_set(rp, seq_num, history, next) ==
    CASE seq_num > rp.low_mark ->
            LET future == NextUnacknowledged(rp, seq_num, next)
            IN  [rp EXCEPT !.changes = {c \in @ : c.seq >= future},
                           !.low_mark = future - 1]
      [] seq_num <= rp.low_mark /\ seq_num = 0 /\ ~rp.is_volatile ->
            acked_from_the_start(rp, history, next)
      [] OTHER -> rp

start(reliable, volatile, no_positive_acks, history, next) ==
    LET rp == [stopped EXCEPT !.is_active = TRUE, !.is_reliable = reliable,
                              !.is_volatile = volatile,
                              !.disable_positive_acks = no_positive_acks]
    IN  IF volatile
        THEN [rp EXCEPT !.low_mark = IF history = {} THEN next - 1 ELSE Least(history) - 1]
        ELSE acked_changes_set(rp, 0, history, next)

add_change(rp, seq_num, status, relevant) ==
    CASE rp.changes = {} /\ status = "ACKNOWLEDGED" -> [rp EXCEPT !.low_mark = seq_num]
      [] ~(rp.changes = {} /\ status = "ACKNOWLEDGED") /\ relevant ->
            [rp EXCEPT !.changes = @ \cup {[seq |-> seq_num, status |-> status]}]
      [] OTHER -> rp

\* nack_supression_event_->restart_timer(), if the timers are enabled.
restart_nack_supression(rp) == [rp EXCEPT !.nack_supression = @ \/ rp.is_reliable]

has_changes(rp) == rp.changes # {}

change_is_acked(rp, seq_num) ==
    \/ seq_num <= rp.low_mark
    \/ \A c \in rp.changes : c.seq = seq_num => c.status = "ACKNOWLEDGED"

change_is_unsent(rp, seq_num) ==
    seq_num > rp.low_mark /\ [seq |-> seq_num, status |-> "UNSENT"] \in rp.changes

has_unacknowledged(rp) == WithStatus(rp, "UNACKNOWLEDGED") # {}

first_relevant_sequence_number(rp) ==
    IF rp.changes = {} THEN rp.low_mark + 1 ELSE Least(Numbers(rp))

are_there_gaps(rp) ==
    rp.changes # {} /\ rp.low_mark + Cardinality(rp.changes) # Greatest(Numbers(rp))

\* The numbers send_gaps declares irrelevant to the reader.
send_gaps(rp, next) ==
    IF are_there_gaps(rp) \/ (rp.changes # {} /\ next # Greatest(Numbers(rp)))
    THEN {n \in (rp.low_mark + 1) .. (next - 1) : n \notin Numbers(rp)}
    ELSE {}

Restated(changes, seqs, previous, next) ==
    {IF c.seq \in seqs /\ c.status \in previous THEN [c EXCEPT !.status = next] ELSE c :
        c \in changes}

requested_changes(rp, seqs) ==
    {c \in WithStatus(rp, "UNACKNOWLEDGED") : c.seq \in seqs}

requested_changes_set(rp, seqs) ==
    [rp EXCEPT !.changes = Restated(@, seqs, {"UNACKNOWLEDGED"}, "REQUESTED")]

\* set_change_to_status(n, UNDERWAY, true) on every n of seqs, in increasing
\* order and above the low mark.  For a best-effort reader the changes are then
\* ACKNOWLEDGED, and leave when they follow the low mark.
set_changes_to_sent(rp, seqs) ==
    LET run == CHOOSE k \in rp.low_mark .. Greatest(seqs) :
                    (rp.low_mark + 1) .. k \subseteq seqs /\ k + 1 \notin seqs
    IN  IF rp.is_reliable
        THEN [rp EXCEPT !.nack_supression = TRUE,
                        !.changes = Restated(@, seqs, ChangeForReaderStatus, "UNDERWAY")]
        ELSE [rp EXCEPT !.low_mark = run,
                        !.changes = Restated({c \in @ : c.seq > run}, seqs,
                                             ChangeForReaderStatus, "ACKNOWLEDGED")]

convert_status_on_all_changes(rp, previous, next) ==
    [rp EXCEPT !.changes = Restated(@, Numbers(rp), {previous}, next)]

\* Faulty: the proxy keeps the removed changes.
change_has_been_removed_Kept(rp, S) == rp

\* The changes of S have been removed from the history.
change_has_been_removed(rp, S) == [rp EXCEPT !.changes = {c \in @ : c.seq \notin S}]

\* process_nack_frag: the change is sent again, unless it still waits to be
\* sent.  Which fragments are sent again is left to the flow controllers.
requested_fragment_set(rp, seq_num) ==
    [rp EXCEPT !.changes =
        Restated(@, {seq_num}, ChangeForReaderStatus \ {"UNSENT"}, "REQUESTED")]
=============================================================================
