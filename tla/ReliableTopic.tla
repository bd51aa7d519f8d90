--------------------------- MODULE ReliableTopic ----------------------------
(***************************************************************************)
(* One StatefulWriter and one StatefulReader on a network that loses,      *)
(* repeats, delays and reorders messages.  The handlers are those of       *)
(* StatefulWriter, PublisherHistory and StatefulReader; what is new here   *)
(* is that each end only knows what the messages of the other brought it.  *)
(*                                                                         *)
(* Discovery matches each end on its own, so that one may be matched while *)
(* the other is not yet, or no longer.  At most one HEARTBEAT and one      *)
(* ACKNACK are on their way, a bound: the one before is lost when the next *)
(* is sent.  Their counts, which only tell old from new, stay at 0.        *)
(***************************************************************************)
EXTENDS Integers, FiniteSets

CONSTANTS
    Configurations,   \* configurations of the writer, with the reader "r"
    MaxWrites,        \* bound: samples written
    MaxUnmatches(_)   \* bound, by configuration: how often an end loses the other

ASSUME TopicAssumption ==
    /\ MaxWrites \in Nat \ {0}
    /\ \A qos \in Configurations : MaxUnmatches(qos) \in Nat

VARIABLES
    writer,      \* the StatefulWriter
    thread,      \* the user thread: its place in write(), and whether it was notified
    reader,      \* the StatefulReader
    net,         \* messages on the network
    unmatches,
    owed,        \* samples a KEEP_ALL writer wrote while matched, not notified yet
    offered,     \* other samples written for the reader or found in the history
    delivered    \* last sample notified since the reader keeps its record of the writer

vars == <<writer, thread, reader, net, unmatches, owed, offered, delivered>>

W == INSTANCE PublisherHistory WITH Readers <- {"r"}, Instances <- {"i"}

R == INSTANCE StatefulReader WITH
        Writers <- {"w"}, AckWindow <- MaxWrites + 1, Fragments <- {}, HistoryKinds <- {"KEEP_ALL"},
        MaxSamples <- MaxWrites + 1, MaxMatchedWriters <- 1, DisablePositiveAcks <- FALSE,
        Persistent <- FALSE, sent <- {}, telling <- {}, arrived <- {}, excused <- {},
        notified <- {}, early <- FALSE

D == INSTANCE ReliableDelivery WITH written <- writer.last_seq

Proxy == writer.matched_readers["r"]

WriterProxy == reader.matched_writers["w"]

Init ==
    /\ \E qos \in Configurations : writer = W!created(qos)
    /\ thread = [pc |-> "idle", woken |-> FALSE]
    /\ reader = R!created("KEEP_ALL")
    /\ net = {}
    /\ unmatches = 0
    /\ owed = {}
    /\ offered = {}
    /\ delivered = 0

----------------------------------------------------------------------------
(* The network.                                                            *)

\* RTPSGapBuilder: the numbers that follow the first one without a hole, then a
\* bitmap that starts after them.
RTPSGapBuilder(numbers) ==
    LET start == W!Least(numbers)
        base  == CHOOSE n \in (start + 1) .. (MaxWrites + 2) :
                    n \notin numbers /\ start .. (n - 1) \subseteq numbers
    IN  [type |-> "GAP", start |-> start, base |-> base, list |-> {n \in numbers : n > base}]

\* A message of the writer as it travels.
Encoded(m) ==
    CASE m.type = "DATA" -> [type |-> "DATA", seq |-> m.seq]
      [] m.type = "GAP" -> RTPSGapBuilder(m.numbers)
      [] m.type = "HEARTBEAT" ->
            [type |-> "HEARTBEAT", first |-> m.first, last |-> m.last, final |-> m.final,
             liveliness |-> FALSE, count |-> 0]

\* A newer message of a counted kind takes the place of the one on its way.
Sent(msgs) ==
    LET counted == {m.type : m \in msgs} \cap {"HEARTBEAT", "ACKNACK"}
    IN  {m \in net : m.type \notin counted} \cup msgs

\* Message m arrives; a copy of DATA or GAP may arrive again.
Arrives(m) == net' \in {net \ {m}} \cup (IF m.type \in {"DATA", "GAP"} THEN {net} ELSE {})

Lose ==
    /\ \E m \in net : net' = net \ {m}
    /\ UNCHANGED <<writer, thread, reader, unmatches, owed, offered, delivered>>

----------------------------------------------------------------------------
(* The writer's process.                                                   *)

\* A handler leaves the writer in wr and the thread at pc; the reader is offered
\* the samples in new until the history drops them.
Leave(wr, pc, new) ==
    /\ writer' = [wr EXCEPT !.notify = 0, !.out = {}]
    /\ thread' = [pc |-> pc, woken |-> pc = "room" /\ (thread.woken \/ wr.notify > 0)]
    /\ net' = Sent({Encoded(m) : m \in wr.out})
    /\ offered' = (offered \cup new) \cap wr.history
    /\ UNCHANGED <<reader, unmatches, delivered>>

Handle(wr) == Leave(wr, thread.pc, {}) /\ UNCHANGED owed

\* A write, or the rest of one that has waited for room.
Proceed(piece) ==
    LET new == IF Proxy.is_active THEN (writer.last_seq + 1) .. piece.wr.last_seq ELSE {}
    IN  /\ Leave(piece.wr, piece.pc, IF writer.qos.keep_all THEN {} ELSE new)
        /\ owed' = IF writer.qos.keep_all THEN owed \cup new ELSE owed

write ==
    /\ thread.pc = "idle" /\ writer.last_seq < MaxWrites
    /\ Proceed(W!add_pub_change(writer, "i", FALSE))

continue ==
    /\ thread.pc = "room" /\ thread.woken /\ W!MayContinue(writer, "room", 0)
    /\ Proceed(W!Continue(writer, "room", "i", FALSE))

periodic_hb_event == writer.periodic_hb /\ Handle(W!send_periodic_heartbeat(writer))

nack_response_event == writer.nack_response /\ Handle(W!perform_nack_response(writer))

nack_supression_event == Proxy.nack_supression /\ Handle(W!perform_nack_supression(writer, "r"))

async_thread ==
    /\ writer.async_pending
    /\ Handle(W!send_any_unsent_changes(writer, writer.last_seq, FALSE))

process_acknack(m) ==
    /\ m.type = "ACKNACK"
    /\ LET wr == IF Proxy.is_active THEN W!process_acknack(writer, "r", m) ELSE writer
       IN  /\ writer' = [wr EXCEPT !.notify = 0, !.out = {}]
           /\ thread' = [thread EXCEPT !.woken = thread.pc = "room" /\ (@ \/ wr.notify > 0)]
           /\ net' = Sent({Encoded(o) : o \in wr.out}) \ {m}
    /\ UNCHANGED <<reader, unmatches, owed, offered, delivered>>

\* Discovery at the writer: a reader that joins is offered the history unless
\* one of the two is volatile.
matched_reader_add ==
    /\ ~Proxy.is_active
    /\ LET wr == W!matched_reader_add(writer, "r")
       IN  Leave(wr, thread.pc, {n \in W!Numbers(wr.matched_readers["r"]) : n > delivered})
    /\ UNCHANGED owed

matched_reader_remove ==
    /\ Proxy.is_active /\ unmatches < MaxUnmatches(writer.qos)
    /\ LET wr == W!check_acked_status(W!matched_reader_remove(writer, "r"))
       IN  /\ writer' = [wr EXCEPT !.notify = 0, !.out = {}]
           /\ thread' = [thread EXCEPT !.woken = thread.pc = "room" /\ (@ \/ wr.notify > 0)]
    /\ unmatches' = unmatches + 1
    /\ owed' = {} /\ offered' = {}
    /\ UNCHANGED <<reader, net, delivered>>

----------------------------------------------------------------------------
(* The reader's process.                                                   *)

\* NotifyChanges ends the handlers that receive; the listener calls nothing.
Notify(rd) ==
    LET new == {c.seq : c \in R!ChangesToNotify(rd, "w")}
    IN  /\ reader' = R!NotifyAllChanges(rd, "w")
        /\ owed' = owed \ new
        /\ offered' = offered \ new
        /\ delivered' = IF new = {} THEN delivered ELSE W!Greatest(new)
        /\ UNCHANGED <<writer, thread, unmatches>>

Ignore == UNCHANGED <<writer, thread, reader, unmatches, owed, offered, delivered>>

processDataMsg(m) ==
    /\ m.type = "DATA" /\ Arrives(m)
    /\ IF WriterProxy.is_alive /\ ~R!change_was_received(WriterProxy, m.seq)
       THEN \E rd \in R!received_change(reader, R!NewChange("w", m.seq, {})) :
                Notify(R!change_stored(rd, R!NewChange("w", m.seq, {})))
       ELSE Ignore

processHeartbeatMsg(m) ==
    /\ m.type = "HEARTBEAT" /\ Arrives(m)
    /\ IF WriterProxy.is_alive THEN Notify(R!heartbeat_applied(reader, "w", m)) ELSE Ignore

processGapMsg(m) ==
    /\ m.type = "GAP" /\ Arrives(m)
    /\ IF WriterProxy.is_alive THEN Notify(R!gap_applied(reader, "w", m)) ELSE Ignore

Acknack(rd, acks) ==
    /\ reader' = rd
    /\ net' = Sent(acks)
    /\ UNCHANGED <<writer, thread, unmatches, owed, offered, delivered>>

perform_initial_ack_nack ==
    /\ WriterProxy.initial_acknack
    /\ Acknack([reader EXCEPT !.matched_writers["w"].initial_acknack = FALSE],
               {[type |-> "ACKNACK", base |-> 0, list |-> {}, final |-> FALSE]})

perform_heartbeat_response ==
    LET ack == R!AckNack("w")
    IN  /\ WriterProxy.heartbeat_response
        /\ Acknack([reader EXCEPT !.matched_writers["w"].heartbeat_response = FALSE],
                   IF R!missing_changes(WriterProxy) # {} \/ ~WriterProxy.heartbeat_final_flag
                   THEN {[type |-> "ACKNACK", base |-> ack.base, list |-> ack.list,
                          final |-> ack.final]}
                   ELSE {})

matched_writer_add ==
    /\ ~WriterProxy.is_alive
    /\ reader' = [reader EXCEPT !.matched_writers["w"] = R!start(reader.history_record["w"])]
    /\ UNCHANGED <<writer, thread, net, unmatches, owed, offered, delivered>>

\* What the user was notified of is gone as well.
matched_writer_remove ==
    /\ WriterProxy.is_alive /\ unmatches < MaxUnmatches(writer.qos)
    /\ \E removed_by_lease \in BOOLEAN :
            /\ reader' = [R!remove_changes_with_guid(reader, "w") EXCEPT
                            !.matched_writers["w"] = R!stop,
                            !.history_record["w"] = IF removed_by_lease THEN @ ELSE 0]
            /\ delivered' = IF removed_by_lease THEN delivered ELSE 0
    /\ unmatches' = unmatches + 1
    /\ UNCHANGED <<writer, thread, net, owed, offered>>

----------------------------------------------------------------------------
Reception(m) == processDataMsg(m) \/ processHeartbeatMsg(m) \/ processGapMsg(m)

Discovery ==
    \/ matched_reader_add \/ matched_reader_remove
    \/ matched_writer_add \/ matched_writer_remove

Next ==
    \/ write \/ continue
    \/ periodic_hb_event \/ nack_response_event \/ nack_supression_event \/ async_thread
    \/ \E m \in net : Reception(m) \/ process_acknack(m)
    \/ perform_initial_ack_nack \/ perform_heartbeat_response
    \/ Discovery
    \/ Lose

Spec == Init /\ [][Next]_vars

Underway(type) == \E m \in net : m.type = type

\* Threads run and timers expire: weak fairness.  For steps that disable
\* themselves, as all of these do, it is written as what it amounts to, that the
\* step is disabled again and again: TLC need not work out a handler for ENABLED.
Scheduled ==
    /\ []<>~(thread.pc = "room" /\ thread.woken /\ W!MayContinue(writer, "room", 0))
    /\ []<>~writer.nack_response
    /\ []<>~writer.async_pending
    /\ []<>~Proxy.nack_supression
    /\ []<>(writer.periodic_hb => Underway("HEARTBEAT"))
    /\ []<>~WriterProxy.initial_acknack
    /\ []<>~WriterProxy.heartbeat_response

\* Discovery finds an end that is there.
Discovered == []<>Proxy.is_active /\ WF_vars(matched_writer_add)

\* What is sent again and again arrives: strong fairness for each sample and for
\* each of the counted messages.  A GAP is not sent again without end: fairness
\* would say nothing of it.
Carried ==
    /\ \A n \in 1 .. MaxWrites :
            []<>(\E m \in net : m.type = "DATA" /\ m.seq = n)
                => []<>(WriterProxy.is_alive => R!change_was_received(WriterProxy, n))
    /\ []<>Underway("HEARTBEAT") => []<><<\E m \in net : processHeartbeatMsg(m)>>_vars
    /\ []<>Underway("ACKNACK")
        => []<><<\E m \in net : m.type = "ACKNACK" /\ m \notin net' /\ process_acknack(m)>>_vars

FairSpec == Spec /\ Scheduled /\ Discovered /\ Carried

----------------------------------------------------------------------------
(* Properties.                                                             *)

\* Type correctness of both ends and of the network: at most one HEARTBEAT and
\* one ACKNACK are on their way.
TypeOK ==
    /\ writer \in W!WriterState /\ writer.out = {}
    /\ thread \in [pc : {"idle", "room"}, woken : BOOLEAN]
    /\ reader \in R!ReaderState
    /\ \A m, o \in net : (m.type = o.type /\ m.type \in {"HEARTBEAT", "ACKNACK"}) => m = o
    /\ owed \cup offered \subseteq 1 .. MaxWrites
    /\ delivered \in 0 .. MaxWrites

\* Together the two ends deliver what is owed, once, in order, and pass over
\* nothing, whatever the network and discovery do.
ImplementsDelivery == D!Spec

\* The writer never takes for acknowledged what the reader still lacks: the low
\* mark of its proxy passes no sample that is owed.
AcknowledgedIsDelivered == \A n \in owed \cup offered : Proxy.is_active => n > Proxy.low_mark

\* Whatever the network loses, what is owed or offered is delivered in the end,
\* unless it is dropped first: again and again the reader lacks nothing.
OwedIsDelivered == []<>(owed \cup offered = {})

\* A write that waits for room goes on in the end.
BlockedWriteReturns == []<>(thread.pc = "idle")
=============================================================================
