-------------------------- MODULE PublisherHistory --------------------------
(***************************************************************************)
(* DataWriterImpl::write over PublisherHistory: how a change finds room in *)
(* the history of a StatefulWriter.  A KEEP_ALL write may have to wait on  *)
(* may_remove_change_cond_, which releases the writer's mutex, so a write  *)
(* is cut at its waits.  Each piece yields                                 *)
(*                                                                         *)
(*   wr    the writer's state after it                                     *)
(*   pc    "idle" when the write has returned, "room" when it waits in     *)
(*         try_remove_change, "ack" when it waits for change seq to be     *)
(*         acknowledged                                                    *)
(*   ret   what it returned                                                *)
(*                                                                         *)
(* Assertions are compiled out (NDEBUG), as in a release build.            *)
(***************************************************************************)
EXTENDS StatefulWriter

ReturnCode == {"NONE", "OK", "TIMEOUT"}

Returned(wr, ret) == [wr |-> wr, pc |-> "idle", seq |-> 0, ret |-> ret]

Waiting(wr, pc, seq) == [wr |-> wr, pc |-> pc, seq |-> seq, ret |-> "NONE"]

\* The end of add_pub_change.  The change joins its instance before
\* WriterHistory::add_change_ numbers it, and stays there, without a number,
\* when add_change_ refuses it.
add_change_(wr, instance, timeout) ==
    LET Cached(n) == IF wr.qos.keyed
                     THEN [wr EXCEPT !.keyed_changes[instance] = Append(@, n)]
                     ELSE wr
    IN  IF wr.isHistoryFull
        THEN Returned(Cached(0), "TIMEOUT")
        ELSE Returned(add_change_to_history(Cached(next_sequence_number(wr)), timeout), "OK")

\* The loop of add_pub_change over the limits of the instance.
FitInInstance(wr, instance, timeout) ==
    LET cached == wr.keyed_changes[instance]
    IN  CASE ~wr.qos.keyed \/ Len(cached) < wr.qos.samples_per_instance ->
                add_change_(wr, instance, timeout)
          [] wr.qos.keyed /\ Len(cached) >= wr.qos.samples_per_instance
                   /\ (wr.qos.keep_all => is_acked_by_all(wr, Head(cached))) ->
                add_change_(remove_changes(wr, {Head(cached)}), instance, timeout)
          [] OTHER -> Waiting(wr, "ack", Head(cached))

\* Faulty: the first change may go when it is the next one to be acknowledged.
add_pub_change_Early(wr, instance, timeout) ==
    CASE ~wr.isHistoryFull -> FitInInstance(wr, instance, timeout)
      [] wr.isHistoryFull /\ (wr.qos.keep_all => Least(wr.history) <= wr.next_all_acked) ->
            FitInInstance(remove_min_change(wr), instance, timeout)
      [] OTHER -> Waiting([wr EXCEPT !.may_remove_change = 0], "room", 0)

\* add_pub_change, with try_remove_change up to its wait.
add_pub_change(wr, instance, timeout) ==
    CASE ~wr.isHistoryFull -> FitInInstance(wr, instance, timeout)
      [] wr.isHistoryFull /\ (wr.qos.keep_all => Least(wr.history) < wr.next_all_acked) ->
            FitInInstance(remove_min_change(wr), instance, timeout)
      [] OTHER -> Waiting([wr EXCEPT !.may_remove_change = 0], "room", 0)

\* Whether the condition a write waits for holds.
MayContinue(wr, pc, seq) ==
    \/ pc = "room" /\ wr.may_remove_change > 0
    \/ pc = "ack" /\ is_acked_by_all(wr, seq)

\* Faulty: a change that was removed meanwhile does not count as room.
Continue_AckedOnly(wr, pc, instance, timeout) ==
    CASE pc = "room" /\ wr.may_remove_change = 1 /\ wr.history # {} ->
            FitInInstance(remove_min_change(wr), instance, timeout)
      [] pc = "ack" -> FitInInstance(wr, instance, timeout)
      [] OTHER -> Returned(wr, "TIMEOUT")

\* The write goes on after its wait.  A wait for an acknowledgement looks at
\* the instance again, which may have changed meanwhile.
Continue(wr, pc, instance, timeout) ==
    CASE pc = "room" /\ wr.may_remove_change = 1 ->
            IF wr.history = {} THEN Returned(wr, "TIMEOUT")
            ELSE FitInInstance(remove_min_change(wr), instance, timeout)
      [] pc = "room" /\ wr.may_remove_change = 2 -> FitInInstance(wr, instance, timeout)
      [] pc = "ack" -> FitInInstance(wr, instance, timeout)

\* DataWriterImpl::lifespan_expired: the changes up to n have expired.
lifespan_expired(wr, n) == remove_changes(wr, {m \in wr.history : m <= n})
=============================================================================
