------------------------- MODULE WriterEnvironment --------------------------
(***************************************************************************)
(* A DataWriter in its process: user threads that write and wait for       *)
(* acknowledgements, the event thread that runs the writer's timers, the   *)
(* asynchronous thread that sends, discovery that matches readers, and the *)
(* readers' messages.  Every action is one piece of code that runs under   *)
(* the writer's mutex.                                                     *)
(*                                                                         *)
(* The network may lose, repeat and reorder messages: a reader may have    *)
(* received any part of what was sent to it.  heard[r] is what r can know, *)
(* base[r] the least base its next ACKNACK can have, initial[r] whether    *)
(* the ACKNACK it sends once after matching is still to arrive.            *)
(***************************************************************************)
EXTENDS PublisherHistory

CONSTANTS
    Threads,             \* user threads
    ThreadsOf(_),        \* those that use a writer of the given configuration
    MaxWrites,           \* bound on the changes written
    LateInitialAcks      \* whether a reader's initial ACKNACK may arrive after another one

ASSUME EnvironmentAssumption ==
    /\ \A qos \in Configurations : ThreadsOf(qos) \subseteq Threads
    /\ MaxWrites \in Nat
    /\ LateInitialAcks \in BOOLEAN

VARIABLES
    writer,              \* the StatefulWriter, its history and timers
    thread,              \* the user threads
    unmatching,          \* a matched_reader_remove call is yet to check the status
    heard,
    base,
    initial,
    owed                 \* <<r, n>>: r, reliable, was matched when n was written, has been since
                         \* and has not acknowledged n

vars == <<writer, thread, unmatching, heard, base, initial, owed>>

\* The instance that stands for all of a topic without key.
NoKey == CHOOSE i \in Instances : TRUE

Idle == [pc |-> "idle", instance |-> NoKey, seq |-> 0,
         woken |-> FALSE, settled |-> FALSE, ret |-> "NONE"]

ThreadState ==
    [pc : {"idle", "room", "ack", "all_acked"}, instance : Instances, seq : Nat,
     woken : BOOLEAN, settled : BOOLEAN, ret : ReturnCode]

\* Type correctness of the writer, its proxies, history and timers, and of the
\* threads that use it; no message or notification outlives its handler.
TypeOK ==
    /\ writer \in WriterState
    /\ writer.notify = 0 /\ writer.out = {}
    /\ thread \in [Threads -> ThreadState]
    /\ unmatching \in BOOLEAN
    /\ heard \in [Readers -> [known : SUBSET Nat, last : Nat]]
    /\ base \in [Readers -> Nat]
    /\ initial \in [Readers -> BOOLEAN]
    /\ owed \subseteq Readers \X Nat

Init ==
    /\ \E qos \in Configurations : writer = created(qos)
    /\ thread = [t \in Threads |-> Idle]
    /\ unmatching = FALSE
    /\ heard = [r \in Readers |-> [known |-> {}, last |-> 0]]
    /\ base = [r \in Readers |-> 1]
    /\ initial = [r \in Readers |-> FALSE]
    /\ owed = {}

----------------------------------------------------------------------------
(* How a handler ends.                                                     *)

\* What reader r can learn from the messages sent to it.
Heard(r, h, out) ==
    LET mine  == {m \in out : r \in m.to}
        beats == {m \in mine : m.type = "HEARTBEAT"}
        known == h.known \cup {m.seq : m \in {d \in mine : d.type = "DATA"}}
                         \cup (UNION {m.numbers : m \in {g \in mine : g.type = "GAP"}})
                         \cup (UNION {1 .. (m.first - 1) : m \in beats})
    IN  [known |-> known, last |-> Greatest({h.last} \cup known \cup {m.last : m \in beats})]

\* Each notify_one() wakes one of the threads that wait on the condition.
Notified(threads, notify) ==
    LET asleep == {t \in Threads : /\ threads[t].pc \in {"room", "ack"}
                                   /\ threads[t].pc = thread[t].pc
                                   /\ ~threads[t].woken}
    IN  {W \in SUBSET asleep :
            Cardinality(W) = IF notify < Cardinality(asleep) THEN notify ELSE Cardinality(asleep)}

NothingPending(wr) == \A r \in MatchedReaders(wr) : wr.matched_readers[r].changes = {}

\* The handler leaves the writer in wr and the threads in threads.
Leave(wr, threads) ==
    /\ writer' = [wr EXCEPT !.notify = 0, !.out = {}]
    /\ \E W \in Notified(threads, wr.notify) :
            thread' = [t \in Threads |->
                        [threads[t] EXCEPT
                            !.woken = @ \/ t \in W,
                            !.settled = threads[t].pc = "all_acked" /\ (@ \/ NothingPending(wr))]]
    /\ heard' = [r \in Readers |->
                    IF wr.matched_readers[r].is_active THEN Heard(r, heard[r], wr.out)
                    ELSE [known |-> {}, last |-> 0]]

\* A handler that is not run by a user thread.
Handle(wr) == Leave(wr, thread)

\* Readers that are to receive every change written from now on.
Audience(wr) == {r \in MatchedReaders(wr) : wr.matched_readers[r].is_reliable}

----------------------------------------------------------------------------
(* User threads.                                                           *)

\* Thread t has run a piece of its write.
Proceed(t, instance, piece) ==
    /\ Leave(piece.wr, [thread EXCEPT ![t] =
                            [@ EXCEPT !.pc = piece.pc, !.instance = instance, !.seq = piece.seq,
                                      !.woken = FALSE, !.ret = piece.ret]])
    /\ owed' = owed \cup (Audience(writer) \X ((writer.last_seq + 1) .. piece.wr.last_seq))
    /\ UNCHANGED <<unmatching, base, initial>>

\* The write would meet a change that was freed; it is not followed further.
MeetsFreed(instance) ==
    \E k \in DOMAIN writer.keyed_changes[instance] : writer.keyed_changes[instance][k] = 0

write(t) ==
    /\ thread[t].pc = "idle"
    /\ writer.last_seq < MaxWrites
    /\ \E instance \in Instances, timeout \in BOOLEAN :
            /\ ~writer.qos.keyed => instance = NoKey
            /\ ~MeetsFreed(instance)
            /\ timeout => ~writer.qos.async
            /\ Proceed(t, instance, add_pub_change(writer, instance, timeout))

\* A waiting write goes on when it may: it has been woken, or its time is over.
continue(t) ==
    /\ MayContinue(writer, thread[t].pc, thread[t].seq)
    /\ ~MeetsFreed(thread[t].instance)
    /\ \E timeout \in BOOLEAN :
            /\ timeout => ~writer.qos.async
            /\ Proceed(t, thread[t].instance,
                       Continue(writer, thread[t].pc, thread[t].instance, timeout))

\* A woken write that may not go on waits again.
sleep(t) ==
    /\ thread[t].pc \in {"room", "ack"} /\ thread[t].woken
    /\ ~MayContinue(writer, thread[t].pc, thread[t].seq)
    /\ thread' = [thread EXCEPT ![t].woken = FALSE]
    /\ UNCHANGED <<writer, unmatching, heard, base, initial, owed>>

\* max_blocking_time is over.
expire(t) ==
    /\ thread[t].pc \in {"room", "ack"}
    /\ ~MayContinue(writer, thread[t].pc, thread[t].seq)
    /\ Proceed(t, thread[t].instance, Returned(writer, "TIMEOUT"))

wait_for_all_acked(t) ==
    /\ thread[t].pc = "idle"
    /\ LET acked == AllAcked(writer)
       IN  Leave([writer EXCEPT !.all_acked = acked],
                 [thread EXCEPT ![t].pc = IF acked THEN "idle" ELSE "all_acked",
                                ![t].ret = IF acked THEN "OK" ELSE "NONE"])
    /\ UNCHANGED <<unmatching, base, initial, owed>>

\* wait_for_all_acked ends, notified or at the end of max_wait.
end_wait(t) ==
    /\ thread[t].pc = "all_acked"
    /\ Leave(writer, [thread EXCEPT ![t].pc = "idle",
                                    ![t].ret = IF writer.all_acked THEN "OK" ELSE "TIMEOUT"])
    /\ UNCHANGED <<unmatching, base, initial, owed>>

User ==
    \E t \in ThreadsOf(writer.qos) :
        \/ write(t) \/ continue(t) \/ sleep(t) \/ expire(t)
        \/ wait_for_all_acked(t) \/ end_wait(t)

----------------------------------------------------------------------------
(* The event thread and the asynchronous thread.                           *)

periodic_hb_event ==
    /\ writer.periodic_hb
    /\ Handle(send_periodic_heartbeat(writer))
    /\ UNCHANGED <<unmatching, base, initial, owed>>

nack_response_event ==
    /\ writer.nack_response
    /\ Handle(perform_nack_response(writer))
    /\ UNCHANGED <<unmatching, base, initial, owed>>

nack_supression_event(r) ==
    /\ writer.matched_readers[r].nack_supression
    /\ Handle(perform_nack_supression(writer, r))
    /\ UNCHANGED <<unmatching, base, initial, owed>>

ack_event ==
    /\ writer.ack_event
    /\ Handle(ack_timer_expired(writer))
    /\ owed' = {p \in owed : p[1] \in writer.qos.no_positive_acks =>
                                p[2] > writer.last_sequence_number}
    /\ UNCHANGED <<unmatching, base, initial>>

lifespan_timer ==
    /\ writer.qos.lifespan
    /\ \E n \in writer.history :
            /\ Handle(lifespan_expired(writer, n))
            /\ owed' = {p \in owed : p[2] > n}
    /\ UNCHANGED <<unmatching, base, initial>>

\* AsyncWriterThread::run.  The loop over the history ends at its end or after
\* a change that was sent.
async_thread ==
    /\ writer.async_pending
    /\ \E upto \in writer.history \cup {0}, buffer_full \in BOOLEAN :
            /\ \/ \A n \in writer.history : n <= upto
               \/ Unsent(writer, upto) # {}
            /\ Handle(send_any_unsent_changes(writer, upto, buffer_full))
    /\ UNCHANGED <<unmatching, base, initial, owed>>

Events ==
    \/ periodic_hb_event \/ nack_response_event \/ ack_event \/ lifespan_timer \/ async_thread
    \/ \E r \in Readers : nack_supression_event(r)

----------------------------------------------------------------------------
(* The messages of the readers.                                            *)

\* An ACKNACK reports a state the reader can have reached, and never less than
\* the ones before it: the older ones are dropped.  A reader without positive
\* acknowledgements only reports what it lacks.
acknack(r) ==
    /\ r \in Audience(writer)
    /\ \E first \in base[r] .. (heard[r].last + 1), final \in BOOLEAN :
        \E list \in SUBSET (first .. heard[r].last) :
            /\ 1 .. (first - 1) \subseteq heard[r].known
            /\ list # {} => first \in list
            /\ list = {} => r \notin writer.qos.no_positive_acks
            /\ Handle(process_acknack(writer, r, [base |-> first, list |-> list, final |-> final]))
            /\ base' = [base EXCEPT ![r] = first]
            /\ owed' = {p \in owed : p[1] = r => p[2] >= first}
    /\ initial' = [initial EXCEPT ![r] = @ /\ LateInitialAcks]
    /\ UNCHANGED unmatching

\* WriterProxy::perform_initial_ack_nack: the ACKNACK of base 0.
initial_acknack(r) ==
    /\ initial[r] /\ r \in Audience(writer)
    /\ Handle(process_acknack(writer, r, [base |-> 0, list |-> {}, final |-> FALSE]))
    /\ initial' = [initial EXCEPT ![r] = FALSE]
    /\ UNCHANGED <<unmatching, base, owed>>

nackfrag(r) ==
    /\ writer.qos.fragmented /\ r \in Audience(writer)
    /\ \E n \in heard[r].known :
            /\ n >= base[r]
            /\ Handle(process_nack_frag(writer, r, n))
    /\ UNCHANGED <<unmatching, base, initial, owed>>

Messages == \E r \in Readers : acknack(r) \/ initial_acknack(r) \/ nackfrag(r)

----------------------------------------------------------------------------
(* Discovery, which handles one reader at a time.                          *)

match(r) ==
    /\ ~writer.matched_readers[r].is_active /\ ~unmatching
    /\ Handle(matched_reader_add(writer, r))
    /\ base' = [base EXCEPT ![r] = 1]
    /\ initial' = [initial EXCEPT ![r] = TRUE]
    /\ UNCHANGED <<unmatching, owed>>

\* matched_reader_remove releases the mutex before it checks the status.
unmatch(r) ==
    /\ writer.matched_readers[r].is_active /\ ~unmatching
    /\ Handle(matched_reader_remove(writer, r))
    /\ unmatching' = TRUE
    /\ base' = [base EXCEPT ![r] = 1]
    /\ initial' = [initial EXCEPT ![r] = FALSE]
    /\ owed' = {p \in owed : p[1] # r}

unmatched ==
    /\ unmatching
    /\ Handle(check_acked_status(writer))
    /\ unmatching' = FALSE
    /\ UNCHANGED <<base, initial, owed>>

Matching == unmatched \/ \E r \in Readers : match(r) \/ unmatch(r)

----------------------------------------------------------------------------
Next == User \/ Events \/ Messages \/ Matching

Spec == Init /\ [][Next]_vars

----------------------------------------------------------------------------
(* Properties.                                                             *)

\* A proxy holds only changes that are in the history and above its low mark:
\* ReaderProxy::add_change asserts that changes come in order, and the sending
\* loops follow the pointers of the proxies into the history.
ProxiesMatchHistory ==
    \A r \in MatchedReaders(writer) :
        LET rp == writer.matched_readers[r]
        IN  /\ Numbers(rp) \subseteq {n \in writer.history : n > rp.low_mark}
            /\ Cardinality(Numbers(rp)) = Cardinality(rp.changes)
            /\ rp.low_mark <= writer.last_seq

\* No change is out of reach: a change in the history that a reliable reader was
\* to receive and has not acknowledged is still held by its proxy, whatever the
\* order of writes, removals, acknowledgements and matching.
OwedIsHeld ==
    \A p \in owed : p[2] \in writer.history =>
        /\ p[2] \in Numbers(writer.matched_readers[p[1]])
        /\ writer.matched_readers[p[1]].low_mark < p[2]

\* KEEP_ALL: a change leaves the history of a DataWriter only when every
\* reliable reader that was matched when it was written, and still is, has
\* acknowledged it (try_remove_change, check_acked_status).
KeepAllIsReliable == writer.qos.keep_all => \A p \in owed : p[2] \in writer.history

\* Whatever a proxy waits for, an event is on its way: a change to be sent has
\* the asynchronous thread awake, a requested one the response timer, one that
\* is underway the suppression timer of its reader.
PendingIsScheduled ==
    \A r \in MatchedReaders(writer) :
        LET rp == writer.matched_readers[r]
        IN  /\ WithStatus(rp, "UNSENT") # {} => writer.async_pending
            /\ WithStatus(rp, "REQUESTED") # {} => writer.nack_response
            /\ WithStatus(rp, "UNDERWAY") # {} => rp.nack_supression

\* A change that waits for the acknowledgement of a reliable reader that sends
\* positive acknowledgements is announced again: the periodic heartbeat is armed, or the suppression timer that arms it
\* (matched_reader_add, "We need a confirmation of the reader").
UnacknowledgedIsAnnounced ==
    \A r \in Audience(writer) :
        LET rp == writer.matched_readers[r]
        IN  (has_unacknowledged(rp) /\ ~rp.disable_positive_acks) =>
                writer.periodic_hb \/ rp.nack_supression

\* Changes cease to be pending only by ACKNACKs: change_removed_by_history and
\* ack_timer_expired, which end the wait for a change that expires, is replaced
\* or has been kept long enough, do not call check_acked_status.
OnlyAcked(qos) == qos.keep_all /\ ~qos.lifespan /\ ~qos.disable_positive_acks

\* A blocked write is woken as soon as a change has been acknowledged by every
\* matched reader; a reader that is being unmatched still counts.
BlockedWriteIsWoken ==
    \A t \in Threads :
        (OnlyAcked(writer.qos) /\ thread[t].pc = "room" /\ ~thread[t].woken /\ ~unmatching) =>
            \/ \A n \in writer.history : n > MinLowMark(writer)
            \/ \E u \in Threads : thread[u].woken

\* add_pub_change asserts that there is room once try_remove_change has
\* succeeded: with one writing thread, a write that goes on because a change was
\* removed finds room.  (With two, the other one may take it first.)
RoomIsKept ==
    \A t \in Threads :
        (ThreadsOf(writer.qos) = {t} /\ thread[t].pc = "room" /\ writer.may_remove_change = 2) =>
            ~writer.isHistoryFull

\* keyed_changes_ and m_changes hold the same changes.
InstancesMatchHistory ==
    writer.qos.keyed => writer.history =
        UNION {{writer.keyed_changes[i][k] : k \in DOMAIN writer.keyed_changes[i]} : i \in Instances}

\* wait_for_all_acked never succeeds by mistake: when its flag is up, there was
\* a moment during the wait when no reader had anything pending.
AllAckedIsTrue ==
    \A t \in Threads : (thread[t].pc = "all_acked" /\ writer.all_acked) => thread[t].settled

\* wait_for_all_acked is not forgotten: when nothing is pending, the flag is up.
WaiterIsTold ==
    (OnlyAcked(writer.qos) /\ NothingPending(writer) /\ ~unmatching) =>
        \A t \in Threads : thread[t].pc = "all_acked" => writer.all_acked

\* A write is refused only while there is no room for it: try_remove_change
\* answers whether a change has been removed.
RefusedOnlyWhenFull ==
    [][\A t \in Threads :
        (thread[t].pc # "idle" /\ thread[t].pc # "all_acked" /\ thread'[t].ret = "TIMEOUT") =>
            \/ writer'.isHistoryFull
            \/ /\ writer.qos.keyed
               /\ Len(writer'.keyed_changes[thread[t].instance])
                    >= writer.qos.samples_per_instance]_vars

\* is_acked_by_all tells the truth about the reliable readers that are matched:
\* "Check if a specific change has been acknowledged by all Readers".
AckedByAllIsTrue ==
    \A n \in writer.history : is_acked_by_all(writer, n) =>
        \A r \in Audience(writer) : change_is_acked(writer.matched_readers[r], n)

\* A best-effort reader is never waited for: "For best effort readers, changes
\* are acked when being sent" (ReaderProxy::add_change).
BestEffortIsNotWaitedFor ==
    \A r \in MatchedReaders(writer) :
        r \in writer.qos.best_effort => ~has_unacknowledged(writer.matched_readers[r])
=============================================================================
