------------------------ MODULE WriterHandlerLemmas ------------------------
(***************************************************************************)
(* What the handlers of StatefulWriter preserve: those of the asynchronous *)
(* thread, of the timers and of the messages of readers, matching and      *)
(* unmatching.  WriterProofs composes them, and the writes, into the       *)
(* actions of WriterEnvironment.                                           *)
(***************************************************************************)
EXTENDS WriterLemmas

----------------------------------------------------------------------------
(* The asynchronous thread.                                                *)

\* The proxy of reader r after the changes of S have been sent.
ReaderSent(wr, r, S) ==
    LET mine == {n \in S : r \in Unsent(wr, n)}
        rp   == wr.matched_readers[r]
    IN  IF mine = {} THEN rp ELSE set_changes_to_sent(rp, mine)

\* What one pass of the asynchronous thread makes of a proxy.
LEMMA ReaderSentIs ==
    ASSUME NEW wr, Typed(wr), NEW r \in Readers, NEW S, S \subseteq wr.history,
           ProxyOK(wr.matched_readers[r], wr.history, wr.last_seq),
           Timely(wr.matched_readers[r], TRUE, wr.nack_response),
           NEW pending, pending = (S # wr.history),
           NEW N, wr.matched_readers[r].is_reliable \/ N = {}, N \subseteq Nat
    PROVE  /\ Carries(wr.matched_readers[r], ReaderSent(wr, r, S), wr.history, wr.last_seq, N)
           /\ Timely(ReaderSent(wr, r, S), pending, wr.nack_response)
<1> DEFINE rp == wr.matched_readers[r]
           mine == {n \in S : r \in Unsent(wr, n)}
           rq == ReaderSent(wr, r, S)
<1>1. /\ wr.last_seq \in Nat /\ wr.history \in SUBSET (1 .. wr.last_seq)
      /\ rp.changes \in SUBSET ChangeForReader /\ rp.is_reliable \in BOOLEAN
      /\ ~rp.is_active => rp.changes = {}
    BY DEF Typed, ProxyOK, ReaderProxyState
<1>2. ASSUME NEW c \in rp.changes, c.status = "UNSENT", c.seq \in S
      PROVE  c.seq \in mine
    <2>1. c = [seq |-> c.seq, status |-> "UNSENT"]
        BY <1>1, <1>2 DEF ChangeForReader
    <2>2. c.seq > rp.low_mark
        BY <1>1 DEF ProxyOK, ReaderProxyState, ChangeForReader
    <2>3. change_is_unsent(rp, c.seq)
        BY <2>1, <2>2 DEF change_is_unsent
    <2>4. r \in MatchedReaders(wr)
        BY <1>1 DEF MatchedReaders, Typed, ReaderProxyState
    <2> QED
        BY <1>2, <2>3, <2>4 DEF Unsent
<1>3. ASSUME NEW c \in rp.changes, c.status = "UNSENT", c.seq \notin mine
      PROVE  pending
    BY <1>2, <1>3, Zenon DEF ProxyOK
<1>4. CASE mine = {}
    <2>1. rq = rp
        BY <1>4 DEF ReaderSent
    <2>2. Timely(rp, pending, wr.nack_response)
        BY <1>3, <1>4 DEF Timely
    <2> QED
        BY <2>1, <2>2 DEF Carries, SameReader
<1>5. CASE mine # {}
    <2>1. rq = set_changes_to_sent(rp, mine)
        BY <1>5 DEF ReaderSent
    <2>2. mine \in SUBSET (1 .. wr.last_seq) /\ \A n \in mine : rp.low_mark < n
        BY <1>1 DEF Unsent, change_is_unsent, ProxyOK, ReaderProxyState
    <2> HIDE DEF rq, mine
    <2>3. Sent(rp, rq, mine, wr.history, wr.last_seq)
        BY <1>1, <1>5, <2>1, <2>2, SentCarries, Zenon
    <2>4. Carries(rp, rq, wr.history, wr.last_seq, N)
        BY <2>3, Zenon DEF Sent, Carries
    <2>5. Timely(rq, pending, wr.nack_response)
        <3> SUFFICES ASSUME NEW c \in rq.changes
                     PROVE  /\ c.status = "UNSENT" => pending
                            /\ c.status = "REQUESTED" => wr.nack_response
                            /\ c.status = "UNDERWAY" => rq.nack_supression
            BY DEF Timely
        <3>1. CASE c \in rp.changes /\ c.seq \notin mine
            BY <1>3, <2>3, <3>1 DEF Sent, Timely
        <3>2. CASE c.status = IF rp.is_reliable THEN "UNDERWAY" ELSE "ACKNOWLEDGED"
            BY <2>3, <3>2 DEF Sent
        <3> QED
            BY <2>3, <3>1, <3>2, Zenon DEF Sent
    <2> QED
        BY <2>4, <2>5 DEF rq
<1> QED
    BY <1>4, <1>5

\* The loop over the history and what is sent around it.
LEMMA SendAllStep ==
    ASSUME NEW O, NEW wr, Sound(wr), Owes(wr, O), wr.history # {}, NEW upto, NEW buffer_full,
           NEW woken, woken = [wr EXCEPT !.async_pending = FALSE]
    PROVE  Quiet(wr, send_all_unsent_changes(woken, upto, buffer_full), O)
<1> DEFINE H == wr.history
           mr == wr.matched_readers
           S == {n \in woken.history : n <= upto}
           to == {r \in MatchedReaders(woken) :
                        woken.matched_readers[r].low_mark < woken.biggest_removed}
           holes == (Least(woken.history) .. woken.last_seq) \ woken.history
           hole == send_heartbeat_nts(woken, Cardinality(MatchedReaders(woken)), to, TRUE)
           gaps == send_hole_gaps_to_group(woken)
           mq == [r \in Readers |-> ReaderSent(gaps, r, S)]
           due == {n \in S : Unsent(gaps, n) # {}}
           data == {[type |-> "DATA", to |-> Unsent(gaps, n), seq |-> n] : n \in due}
           hb == gaps.periodic_hb \/ \E n \in due : \E r \in Unsent(gaps, n) :
                                            gaps.matched_readers[r].is_reliable
           sent == SendChanges(gaps, S)
           wq == send_all_unsent_changes(woken, upto, buffer_full)
           pending == (S # woken.history)
<1>1. Typed(wr) /\ DOMAIN wr = Fields /\ wr.last_seq \in Nat /\ H \in SUBSET (1 .. wr.last_seq)
    BY DEF Sound, Typed
<1>2. /\ DOMAIN woken = Fields /\ SameBut(wr, woken, {"async_pending"})
      /\ woken.matched_readers = mr
      /\ woken.history = H /\ woken.last_seq = wr.last_seq /\ woken.async_pending = FALSE
      /\ woken.nack_response = wr.nack_response /\ woken.out = wr.out
    BY <1>1 DEF SameBut, Fields
<1>3. Typed(woken)
    <2>1. /\ woken.qos = wr.qos /\ woken.next_all_acked = wr.next_all_acked
          /\ woken.last_sequence_number = wr.last_sequence_number
          /\ woken.ack_event = wr.ack_event /\ woken.periodic_hb = wr.periodic_hb
          /\ woken.all_acked = wr.all_acked /\ woken.isHistoryFull = wr.isHistoryFull
          /\ woken.may_remove_change = wr.may_remove_change
        BY <1>1 DEF Fields
    <2> QED
        BY <1>1, <1>2, <2>1 DEF Typed
<1> HIDE DEF to
<1>4. Sends(woken, gaps)
    <2>1. Sends(woken, hole)
        BY <1>3, HeartbeatSends, Zenon
    <2>5. gaps = add_gap(hole, to, holes) \/ gaps = woken
        BY Zenon DEF send_hole_gaps_to_group, to
    <2> HIDE DEF hole
    <2>9. Typed(hole) /\ hole.last_seq = woken.last_seq
        BY <1>3, <2>1, SendsTyped, Zenon
    <2>2. Typed(hole) /\ hole.last_seq = wr.last_seq
        BY <1>2, <2>9
    <2>3. Least(H) \in 1 .. wr.last_seq
        BY <1>1, HistoryEnds
    <2>4. holes \in SUBSET (0 .. wr.last_seq)
        BY <1>1, <1>2, <2>3
    <2> HIDE DEF holes, gaps
    <2>6. Sends(hole, add_gap(hole, to, holes))
        BY <2>2, <2>4, GapSends
    <2>7. Sends(woken, add_gap(hole, to, holes))
        BY <2>1, <2>6, SendsTwice
    <2>8. Sends(woken, woken)
        BY <1>3, NoMessage
    <2> QED
        BY <2>5, <2>7, <2>8, Zenon
<1> HIDE DEF gaps
<1>5. /\ Typed(gaps) /\ gaps.history = H /\ gaps.last_seq = wr.last_seq
      /\ gaps.matched_readers = mr
      /\ SameBut(wr, gaps, {"async_pending", "out"}) /\ OutOK(gaps.out, wr.last_seq)
    BY <1>2, <1>3, <1>4, SendsTyped, Zenon DEF Sends, SameBut, Fields
<1>6. DOMAIN gaps = Fields /\ gaps.nack_response = wr.nack_response
    BY <1>5 DEF SameBut, Fields
<1>7. ASSUME NEW r \in Readers
      PROVE  /\ Carries(mr[r], mq[r], H, wr.last_seq, OwedTo(O, r))
             /\ Timely(mq[r], pending, wr.nack_response)
    <2>1. ProxyOK(mr[r], H, wr.last_seq) /\ Timely(mr[r], wr.async_pending, wr.nack_response)
        BY DEF Sound, InOrder
    <2>2. Timely(mr[r], TRUE, wr.nack_response)
        BY <2>1 DEF Timely
    <2>3. S \subseteq gaps.history /\ pending = (S # gaps.history)
        BY <1>2, <1>5
    <2>4. mr[r].is_reliable \/ OwedTo(O, r) = {}
        BY DEF OwedTo, Owes
    <2>5. OwedTo(O, r) \subseteq Nat
        BY DEF OwedTo
    <2>6. mq[r] = ReaderSent(gaps, r, S)
        OBVIOUS
    <2> HIDE DEF mq, S, pending
    <2> QED
        BY <1>5, <1>6, <2>1, <2>2, <2>3, <2>4, <2>5, <2>6, ReaderSentIs, Zenon
<1>8. mq \in [Readers -> ReaderProxyState]
    <2>1. \A r \in Readers : mq[r] \in ReaderProxyState
        BY <1>7 DEF Carries, ProxyOK
    <2> QED
        BY <2>1
<1>9. sent = [gaps EXCEPT !.matched_readers = mq, !.out = gaps.out \cup data, !.periodic_hb = hb]
    BY DEF SendChanges, ReaderSent
<1>10. OutOK(gaps.out \cup data, wr.last_seq)
    <2>1. \A m \in data : m.type = "DATA" /\ m.seq \in 0 .. wr.last_seq
        BY <1>1, <1>2
    <2> QED
        BY <1>5, <2>1 DEF OutOK
<1>11. hb \in BOOLEAN
    BY <1>5 DEF Typed
<1>12. PICK groups :
         wq = [sent EXCEPT
                 !.out = @ \cup {heartbeat(woken, g, woken.qos.disable_positive_acks) : g \in groups},
                 !.async_pending = pending]
    BY Zenon DEF send_all_unsent_changes, gaps
<1> DEFINE beats == {heartbeat(woken, g, woken.qos.disable_positive_acks) : g \in groups}
<1> HIDE DEF mq, data, hb, S, pending, wq
<1>13. /\ DOMAIN sent = Fields
       /\ SameBut(wr, sent, {"async_pending", "out", "matched_readers", "periodic_hb"})
       /\ sent.matched_readers = mq /\ sent.out = gaps.out \cup data /\ sent.periodic_hb = hb
    BY <1>5, <1>6, <1>9, Zenon DEF SameBut, Fields
<1> HIDE DEF sent
<1>14. Typed(sent) /\ sent.last_seq = wr.last_seq
    <2>1. /\ sent.qos = wr.qos /\ sent.next_all_acked = wr.next_all_acked
          /\ sent.history = wr.history /\ sent.last_seq = wr.last_seq
          /\ sent.last_sequence_number = wr.last_sequence_number
          /\ sent.ack_event = wr.ack_event
          /\ sent.all_acked = wr.all_acked /\ sent.isHistoryFull = wr.isHistoryFull
          /\ sent.may_remove_change = wr.may_remove_change
          /\ sent.nack_response = wr.nack_response
        BY <1>13 DEF SameBut, Fields
    <2>2. sent.async_pending = gaps.async_pending
        BY <1>6, <1>9 DEF Fields, sent
    <2> QED
        BY <1>1, <1>5, <1>8, <1>10, <1>11, <1>13, <2>1, <2>2 DEF Typed
<1>15. Sends(sent, [sent EXCEPT !.out = @ \cup beats])
    <2>1. \A m \in beats : /\ m.type = "HEARTBEAT" /\ m.first \in 0 .. (woken.last_seq + 1)
                           /\ m.last \in 0 .. woken.last_seq
        BY <1>3, HeartbeatIs, Zenon
    <2> HIDE DEF beats
    <2>2. OutOK(beats, sent.last_seq)
        BY <1>2, <1>14, <2>1 DEF OutOK
    <2> QED
        BY <1>14, <2>2, MoreMessages, Zenon
<1>16. PICK ws : Sends(sent, ws) /\ wq = [ws EXCEPT !.async_pending = pending]
    <2>1. wq = [sent EXCEPT !.out = @ \cup beats, !.async_pending = pending]
        BY <1>12, Zenon
    <2> HIDE DEF beats
    <2>2. wq = [[sent EXCEPT !.out = @ \cup beats] EXCEPT !.async_pending = pending]
        BY <1>13, <2>1 DEF Fields
    <2> QED
        BY <1>15, <2>2, Zenon
<1>17. pending \in BOOLEAN
    BY DEF pending
<1>18. /\ SameBut(wr, wq, OutFields \cup {"matched_readers"})
       /\ wq.matched_readers = mq /\ OutOK(wq.out, wr.last_seq)
       /\ wq.async_pending = pending /\ wq.periodic_hb = hb
       /\ wq.nack_response = wr.nack_response /\ wq.ack_event = wr.ack_event
       /\ wq.last_sequence_number = wr.last_sequence_number
    <2>1. /\ DOMAIN ws = Fields /\ \A f \in Fields \ {"out"} : ws[f] = sent[f]
          /\ OutOK(ws.out, wr.last_seq)
        BY <1>14, <1>16 DEF Sends, SameBut
    <2>2. /\ DOMAIN wq = Fields /\ \A f \in Fields \ {"async_pending"} : wq[f] = ws[f]
          /\ wq.async_pending = pending
        BY <1>16, <2>1 DEF Fields
    <2> QED
        BY <1>13, <2>1, <2>2 DEF SameBut, Fields, OutFields
<1>19. TimersOK(wq, wr.last_seq)
    BY <1>1, <1>11, <1>17, <1>18 DEF TimersOK, Typed
<1>20. \A r \in Readers :
            /\ Carries(wr.matched_readers[r], wq.matched_readers[r], wr.history, wr.last_seq,
                       OwedTo(O, r))
            /\ Timely(wq.matched_readers[r], wq.async_pending, wq.nack_response)
    BY <1>7, <1>18
<1> QED
    BY <1>8, <1>18, <1>19, <1>20, ProxiesStep, Zenon DEF wq

\* A writer with nothing to send: no proxy has a change.
LEMMA NothingToSend ==
    ASSUME NEW O, NEW wr, Sound(wr), Owes(wr, O), wr.history = {} \/ MatchedReaders(wr) = {},
           NEW woken, woken = [wr EXCEPT !.async_pending = FALSE]
    PROVE  Quiet(wr, woken, O)
<1>1. Typed(wr) /\ DOMAIN wr = Fields
    BY DEF Sound, Typed
<1>2. /\ SameBut(wr, woken, OutFields \cup {"matched_readers"})
      /\ woken.matched_readers = wr.matched_readers /\ woken.async_pending = FALSE
      /\ woken.nack_response = wr.nack_response /\ woken.out = wr.out
      /\ woken.periodic_hb = wr.periodic_hb /\ woken.ack_event = wr.ack_event
      /\ woken.last_sequence_number = wr.last_sequence_number
    BY <1>1 DEF SameBut, Fields, OutFields
<1>3. TimersOK(woken, wr.last_seq) /\ OutOK(woken.out, wr.last_seq)
    BY <1>1, <1>2 DEF Typed, TimersOK
<1>4. ASSUME NEW r \in Readers
      PROVE  /\ Carries(wr.matched_readers[r], woken.matched_readers[r], wr.history, wr.last_seq,
                        OwedTo(O, r))
             /\ Timely(woken.matched_readers[r], woken.async_pending, woken.nack_response)
    <2>1. ProxyOK(wr.matched_readers[r], wr.history, wr.last_seq)
        BY DEF Sound, InOrder
    <2>2. wr.matched_readers[r].changes = {}
        BY <2>1 DEF ProxyOK, MatchedReaders
    <2> QED
        BY <1>2, <2>1, <2>2 DEF Carries, SameReader, Timely
<1>5. woken.matched_readers \in [Readers -> ReaderProxyState]
    BY <1>1, <1>2 DEF Typed
<1> QED
    BY <1>2, <1>3, <1>4, <1>5, ProxiesStep, Zenon

\* send_any_unsent_changes.
LEMMA SendStep ==
    ASSUME NEW O, NEW wr, Sound(wr), Owes(wr, O), NEW upto, NEW buffer_full
    PROVE  Checked(wr, send_any_unsent_changes(wr, upto, buffer_full), O)
<1> DEFINE woken == [wr EXCEPT !.async_pending = FALSE]
           ws == IF wr.history = {} \/ MatchedReaders(wr) = {}
                 THEN send_heartbeat_to_all_readers(woken)
                 ELSE send_all_unsent_changes(woken, upto, buffer_full)
<1>1. send_any_unsent_changes(wr, upto, buffer_full) = check_acked_status(ws)
    BY DEF send_any_unsent_changes
<1>2. PICK wo : wo = woken
    BY Zenon
<1>3. Quiet(wr, ws, O)
    <2>1. CASE wr.history = {} \/ MatchedReaders(wr) = {}
        <3>1. Quiet(wr, wo, O)
            BY <1>2, <2>1, NothingToSend
        <3>2. Typed(wo) /\ Sound(wo) /\ Owes(wo, O)
            BY <3>1 DEF Quiet, After, Sound
        <3>3. Sends(wo, send_heartbeat_to_all_readers(wo))
            BY <3>2, HeartbeatSends DEF send_heartbeat_to_all_readers
        <3>4. Quiet(wo, send_heartbeat_to_all_readers(wo), O)
            BY <3>2, <3>3, SendsQuiet
        <3>5. ws = send_heartbeat_to_all_readers(wo)
            BY <1>2, <2>1
        <3> QED
            BY <3>1, <3>4, <3>5, QuietQuiet
    <2>2. CASE ~(wr.history = {} \/ MatchedReaders(wr) = {})
        <3>1. Quiet(wr, send_all_unsent_changes(wo, upto, buffer_full), O)
            BY <1>2, <2>2, SendAllStep
        <3>2. ws = send_all_unsent_changes(wo, upto, buffer_full)
            BY <1>2, <2>2
        <3> QED
            BY <3>1, <3>2
    <2> QED
        BY <2>1, <2>2
<1> HIDE DEF ws
<1>4. Checked(ws, check_acked_status(ws), O)
    BY <1>3, CheckStep DEF Quiet, After
<1> QED
    BY <1>1, <1>3, <1>4, QuietChecked

----------------------------------------------------------------------------
(* The timers.                                                             *)

\* send_periodic_heartbeat.
LEMMA PeriodicStep ==
    ASSUME NEW O, NEW wr, Sound(wr), Owes(wr, O)
    PROVE  Quiet(wr, send_periodic_heartbeat(wr), O)
<1> DEFINE off == [wr EXCEPT !.periodic_hb = FALSE]
<1>1. \/ send_periodic_heartbeat(wr) = send_heartbeat_to_all_readers(wr)
      \/ send_periodic_heartbeat(wr) = off
    BY DEF send_periodic_heartbeat
<1>2. Typed(wr) /\ DOMAIN wr = Fields
    BY DEF Sound, Typed
<1>3. Sends(wr, send_heartbeat_to_all_readers(wr))
    BY <1>2, HeartbeatSends DEF send_heartbeat_to_all_readers
<1>4. Quiet(wr, send_heartbeat_to_all_readers(wr), O)
    BY <1>3, SendsQuiet
<1>5. /\ SameBut(wr, off, OutFields)
      /\ off.periodic_hb = FALSE /\ off.async_pending = wr.async_pending
      /\ off.nack_response = wr.nack_response /\ off.out = wr.out
      /\ off.ack_event = wr.ack_event
      /\ off.last_sequence_number = wr.last_sequence_number
    BY <1>2 DEF SameBut, Fields, OutFields
<1> HIDE DEF off
<1>6. TimersOK(off, wr.last_seq) /\ OutOK(off.out, wr.last_seq)
    BY <1>2, <1>5, Zenon DEF Typed, TimersOK
<1>7. Quiet(wr, off, O)
    BY <1>5, <1>6, OutStep
<1> QED
    BY <1>1, <1>4, <1>7

Converts(rp, rq, previous, next, H, last) ==
    /\ Carries(rp, rq, H, last, Nat)
    /\ \A c \in rq.changes : c.status # previous /\ (c \in rp.changes \/ c.status = next)
    /\ WithStatus(rp, previous) = {} => rq.changes = rp.changes

\* convert_status_on_all_changes leaves no change in the previous status.
LEMMA ConvertIs ==
    ASSUME NEW H, NEW last \in Nat, NEW rp, ProxyOK(rp, H, last), NEW previous,
           NEW next \in ChangeForReaderStatus, next # "ACKNOWLEDGED", next # previous,
           NEW supression \in BOOLEAN,
           NEW rq, rq = [convert_status_on_all_changes(rp, previous, next) EXCEPT
                            !.nack_supression = supression]
    PROVE  Converts(rp, rq, previous, next, H, last)
<1> DEFINE C == Restated(rp.changes, Numbers(rp), {previous}, next)
<1>1. rp \in ReaderProxyState
    BY DEF ProxyOK
<1>2. rq = [rp EXCEPT !.changes = C, !.nack_supression = supression]
    BY <1>1 DEF convert_status_on_all_changes, ReaderProxyState
<1>3. Restates(rp, rq, Numbers(rp), {previous}, next, H, last)
    BY <1>2, RestatedCarries, Zenon
<1>4. rq.changes = C
    BY <1>1, <1>2, Zenon DEF ReaderProxyState
<1>5. \A c \in rq.changes : c.status # previous /\ (c \in rp.changes \/ c.status = next)
    BY <1>3 DEF Restates, Numbers
<1>6. WithStatus(rp, previous) = {} => C = rp.changes
    BY DEF Restated, WithStatus
<1> HIDE DEF C
<1> QED
    BY <1>3, <1>4, <1>5, <1>6 DEF Restates, Converts

\* perform_nack_response: what was requested waits to be sent.
LEMMA ResponseStep ==
    ASSUME NEW O, NEW wr, Sound(wr), Owes(wr, O)
    PROVE  Quiet(wr, perform_nack_response(wr), O)
<1> DEFINE M == MatchedReaders(wr)
           mr == wr.matched_readers
           Op(rp) == convert_status_on_all_changes(rp, "REQUESTED", "UNSENT")
           mq == [r \in Readers |-> IF r \in M THEN Op(mr[r]) ELSE mr[r]]
           wake == \E r \in M : \/ WithStatus(mr[r], "REQUESTED") # {}
                                \/ are_there_gaps(mr[r])
           pending == wr.async_pending \/ wake
           wq == perform_nack_response(wr)
<1>1. Typed(wr) /\ DOMAIN wr = Fields /\ wr.last_seq \in Nat
    BY DEF Sound, Typed
<1>2. wq = [[wr EXCEPT !.matched_readers = mq] EXCEPT !.nack_response = FALSE,
                                                     !.async_pending = @ \/ wake]
    BY DEF perform_nack_response, OnReaders
<1>3. pending \in BOOLEAN /\ \A r \in M : WithStatus(mr[r], "REQUESTED") # {} => pending
    OBVIOUS
<1>4. wr.async_pending => pending
    OBVIOUS
<1> HIDE DEF mq, wake, wq
<1>5. /\ SameBut(wr, wq, OutFields \cup {"matched_readers"}) /\ wq.matched_readers = mq
      /\ wq.nack_response = FALSE /\ wq.async_pending = pending
      /\ wq.periodic_hb = wr.periodic_hb /\ wq.out = wr.out /\ wq.ack_event = wr.ack_event
      /\ wq.last_sequence_number = wr.last_sequence_number
    BY <1>1, <1>2, Zenon DEF SameBut, Fields, OutFields
<1> HIDE DEF pending
<1>6. TimersOK(wq, wr.last_seq) /\ OutOK(wq.out, wr.last_seq)
    BY <1>1, <1>3, <1>5, Zenon DEF Typed, TimersOK
<1>7. ASSUME NEW r \in Readers
      PROVE  /\ Carries(mr[r], mq[r], wr.history, wr.last_seq, Nat)
             /\ Timely(mq[r], wq.async_pending, wq.nack_response)
    <2>1. /\ ProxyOK(mr[r], wr.history, wr.last_seq) /\ mr[r] \in ReaderProxyState
          /\ mr[r].nack_supression \in BOOLEAN
          /\ Timely(mr[r], wr.async_pending, wr.nack_response)
        BY DEF Sound, InOrder, ProxyOK, ReaderProxyState
    <2>2. CASE r \in M
        <3>1. mq[r] = Op(mr[r])
            BY <2>2 DEF mq
        <3>2. PICK s \in BOOLEAN : s = mr[r].nack_supression
            BY <2>1
        <3>3. mq[r] = [Op(mr[r]) EXCEPT !.nack_supression = s]
            BY <2>1, <3>1, <3>2, Zenon DEF convert_status_on_all_changes, ReaderProxyState
        <3>4. "UNSENT" \in ChangeForReaderStatus
            BY DEF ChangeForReaderStatus
        <3>5. /\ Carries(mr[r], mq[r], wr.history, wr.last_seq, Nat)
              /\ \A c \in mq[r].changes :
                    c.status # "REQUESTED" /\ (c \in mr[r].changes \/ c.status = "UNSENT")
              /\ WithStatus(mr[r], "REQUESTED") = {} => mq[r].changes = mr[r].changes
            <4>1. Converts(mr[r], mq[r], "REQUESTED", "UNSENT", wr.history, wr.last_seq)
                BY <1>1, <2>1, <3>3, <3>4, ConvertIs
            <4> QED
                BY <4>1 DEF Converts
        <3>6. mr[r].nack_supression => mq[r].nack_supression
            BY <2>1, <3>1 DEF convert_status_on_all_changes, ReaderProxyState
        <3>7. Timely(mq[r], wq.async_pending, wq.nack_response)
            <4>1. CASE WithStatus(mr[r], "REQUESTED") = {}
                BY <1>4, <1>5, <2>1, <3>5, <3>6, <4>1, Zenon DEF Timely
            <4>2. CASE WithStatus(mr[r], "REQUESTED") # {}
                <5>1. pending
                    BY <1>3, <2>2, <4>2
                <5> QED
                    BY <1>5, <2>1, <3>5, <3>6, <5>1, Zenon DEF Timely
            <4> QED
                BY <4>1, <4>2
        <3> QED
            BY <3>5, <3>7
    <2>3. CASE r \notin M
        <3>1. mq[r] = mr[r] /\ mr[r].changes = {}
            BY <2>1, <2>3 DEF mq, ProxyOK, MatchedReaders
        <3> QED
            BY <2>1, <3>1, Zenon DEF Carries, SameReader, Timely
    <2> QED
        BY <2>2, <2>3
<1>8. mq \in [Readers -> ReaderProxyState]
    <2>1. \A r \in Readers : mq[r] \in ReaderProxyState
        BY <1>7 DEF Carries, ProxyOK
    <2> QED
        BY <2>1 DEF mq
<1>9. \A r \in Readers :
            /\ Carries(mr[r], wq.matched_readers[r], wr.history, wr.last_seq, OwedTo(O, r))
            /\ Timely(wq.matched_readers[r], wq.async_pending, wq.nack_response)
    BY <1>5, <1>7 DEF Carries, OwedTo
<1> QED
    BY <1>5, <1>6, <1>8, <1>9, ProxiesStep, Zenon DEF wq

\* A handler that changes the proxy of one reader.
LEMMA OneReaderStep ==
    ASSUME NEW O, NEW wr, Sound(wr), Owes(wr, O), NEW r \in Readers,
           NEW rq, Carries(wr.matched_readers[r], rq, wr.history, wr.last_seq, OwedTo(O, r)),
           NEW wq, SameBut(wr, wq, OutFields \cup {"matched_readers"}),
           wq.matched_readers = [s \in Readers |-> IF s \in {r} THEN rq
                                                   ELSE wr.matched_readers[s]],
           Timely(rq, wq.async_pending, wq.nack_response),
           wr.async_pending => wq.async_pending, wr.nack_response => wq.nack_response,
           OutOK(wq.out, wr.last_seq), TimersOK(wq, wr.last_seq)
    PROVE  Quiet(wr, wq, O)
<1> DEFINE mr == wr.matched_readers
           mq == wq.matched_readers
<1>1. ASSUME NEW s \in Readers
      PROVE  /\ Carries(mr[s], mq[s], wr.history, wr.last_seq, OwedTo(O, s))
             /\ Timely(mq[s], wq.async_pending, wq.nack_response)
    <2>1. CASE s = r
        BY <2>1, Zenon
    <2>2. CASE s # r
        <3>1. mq[s] = mr[s]
            BY <2>2, Zenon
        <3>2. ProxyOK(mr[s], wr.history, wr.last_seq)
              /\ Timely(mr[s], wr.async_pending, wr.nack_response)
            BY DEF Sound, InOrder
        <3> QED
            BY <3>1, <3>2, Zenon DEF Carries, SameReader, Timely
    <2> QED
        BY <2>1, <2>2, Zenon
<1>2. mq \in [Readers -> ReaderProxyState]
    <2>1. \A s \in Readers : mq[s] \in ReaderProxyState
        BY <1>1, Zenon DEF Carries, ProxyOK
    <2> QED
        BY <2>1
<1> QED
    BY <1>1, <1>2, ProxiesStep, Zenon

\* perform_nack_supression.
LEMMA SupressionStep ==
    ASSUME NEW O, NEW wr, Sound(wr), Owes(wr, O), NEW r \in Readers
    PROVE  Quiet(wr, perform_nack_supression(wr, r), O)
<1> DEFINE mr == wr.matched_readers
           Op(rp) == [convert_status_on_all_changes(rp, "UNDERWAY", "UNACKNOWLEDGED") EXCEPT
                        !.nack_supression = FALSE]
           mq == [s \in Readers |-> IF s \in {r} THEN Op(mr[s]) ELSE mr[s]]
           wq == perform_nack_supression(wr, r)
<1>1. Typed(wr) /\ DOMAIN wr = Fields /\ wr.last_seq \in Nat
    BY DEF Sound, Typed
<1>2. wq = [[wr EXCEPT !.matched_readers = mq] EXCEPT !.periodic_hb = TRUE]
    BY DEF perform_nack_supression, OnReaders
<1>3. PICK rq : rq = Op(mr[r])
    BY Zenon
<1>4. mq = [s \in Readers |-> IF s \in {r} THEN rq ELSE mr[s]]
    BY <1>3, Zenon
<1> HIDE DEF mq, wq
<1>5. /\ SameBut(wr, wq, OutFields \cup {"matched_readers"}) /\ wq.matched_readers = mq
      /\ wq.nack_response = wr.nack_response /\ wq.async_pending = wr.async_pending
      /\ wq.periodic_hb = TRUE /\ wq.out = wr.out /\ wq.ack_event = wr.ack_event
      /\ wq.last_sequence_number = wr.last_sequence_number
    BY <1>1, <1>2, Zenon DEF SameBut, Fields, OutFields
<1>6. TimersOK(wq, wr.last_seq) /\ OutOK(wq.out, wr.last_seq)
    BY <1>1, <1>5, Zenon DEF Typed, TimersOK
<1>7. ProxyOK(mr[r], wr.history, wr.last_seq)
      /\ Timely(mr[r], wr.async_pending, wr.nack_response)
    BY DEF Sound, InOrder
<1>8. "UNACKNOWLEDGED" \in ChangeForReaderStatus /\ FALSE \in BOOLEAN
    BY DEF ChangeForReaderStatus
<1>9. Converts(mr[r], rq, "UNDERWAY", "UNACKNOWLEDGED", wr.history, wr.last_seq)
    BY <1>1, <1>3, <1>7, <1>8, ConvertIs, Zenon
<1>10. Timely(rq, wq.async_pending, wq.nack_response)
    BY <1>5, <1>7, <1>9, Zenon DEF Timely, Converts
<1>11. Carries(mr[r], rq, wr.history, wr.last_seq, OwedTo(O, r))
    BY <1>9 DEF Converts, Carries, OwedTo
<1>12. /\ wr.async_pending => wq.async_pending
       /\ wr.nack_response => wq.nack_response
       /\ wq.matched_readers = [s \in Readers |-> IF s \in {r} THEN rq ELSE wr.matched_readers[s]]
    BY <1>4, <1>5
<1>13. SameBut(wr, wq, OutFields \cup {"matched_readers"})
    BY <1>5
<1> QED
    BY <1>6, <1>10, <1>11, <1>12, <1>13, OneReaderStep, Zenon DEF wq

\* ack_timer_expired: the change after the last one that expired is taken for
\* acknowledged by the readers without positive acknowledgements.
LEMMA AckTimerStep ==
    ASSUME NEW O, NEW wr, Sound(wr), Owes(wr, O), wr.ack_event,
           \A p \in O : p[1] \in wr.qos.no_positive_acks => p[2] > wr.last_sequence_number
    PROVE  Quiet(wr, ack_timer_expired(wr), O)
<1> DEFINE M == MatchedReaders(wr)
           mr == wr.matched_readers
           n == wr.last_sequence_number + 1
           Op(rp) == IF rp.disable_positive_acks
                     THEN acked_changes_set(rp, n, wr.history, wr.last_seq + 1) ELSE rp
           mq == [r \in Readers |-> IF r \in M THEN Op(mr[r]) ELSE mr[r]]
           again == (n \in wr.history)
           wq == ack_timer_expired(wr)
<1>1. /\ Typed(wr) /\ DOMAIN wr = Fields /\ wr.last_seq \in Nat
      /\ wr.history \in SUBSET (1 .. wr.last_seq) /\ wr.last_sequence_number \in Nat
      /\ n \in 1 .. (wr.last_seq + 1)
    BY DEF Sound, Typed
<1>2. wq = [[wr EXCEPT !.matched_readers = mq] EXCEPT !.last_sequence_number = n,
                                                     !.ack_event = again]
    BY DEF ack_timer_expired, OnReaders, next_sequence_number
<1>3. again \in BOOLEAN /\ (again => n <= wr.last_seq)
    BY <1>1
<1> HIDE DEF mq, wq, again
<1>5. /\ SameBut(wr, wq, OutFields \cup {"matched_readers"}) /\ wq.matched_readers = mq
      /\ wq.nack_response = wr.nack_response /\ wq.async_pending = wr.async_pending
      /\ wq.periodic_hb = wr.periodic_hb /\ wq.out = wr.out /\ wq.ack_event = again
      /\ wq.last_sequence_number = n
    BY <1>1, <1>2, Zenon DEF SameBut, Fields, OutFields
<1>6. TimersOK(wq, wr.last_seq) /\ OutOK(wq.out, wr.last_seq)
    BY <1>1, <1>3, <1>5 DEF Typed, TimersOK
<1>7. ASSUME NEW r \in Readers
      PROVE  /\ Carries(mr[r], mq[r], wr.history, wr.last_seq, OwedTo(O, r))
             /\ Timely(mq[r], wq.async_pending, wq.nack_response)
    <2>1. /\ ProxyOK(mr[r], wr.history, wr.last_seq) /\ mr[r] \in ReaderProxyState
          /\ Timely(mr[r], wr.async_pending, wr.nack_response)
          /\ mr[r].is_active => (mr[r].disable_positive_acks <=> r \in wr.qos.no_positive_acks)
        BY DEF Sound, InOrder, ProxyOK
    <2>2. CASE r \in M /\ mr[r].disable_positive_acks
        <3>1. mq[r] = acked_changes_set(mr[r], n, wr.history, wr.last_seq + 1)
            BY <2>2 DEF mq
        <3>2. mr[r].is_active
            BY <2>2 DEF MatchedReaders
        <3>3. Acked(mr[r], mq[r], n, wr.history, wr.last_seq)
            BY <1>1, <2>1, <3>1, <3>2, AckedCarries
        <3>4. \A m \in OwedTo(O, r) : m \in Nat /\ n <= m /\ mr[r].is_reliable
            BY <1>1, <2>1, <2>2, <3>2 DEF OwedTo, Owes
        <3>5. Carries(mr[r], mq[r], wr.history, wr.last_seq, OwedTo(O, r))
            BY <3>3, <3>4 DEF Acked, Carries
        <3>6. Timely(mq[r], wq.async_pending, wq.nack_response)
            BY <1>1, <1>5, <2>1, <3>3, Zenon DEF Acked, Timely
        <3> QED
            BY <3>5, <3>6, Zenon
    <2>3. CASE ~(r \in M /\ mr[r].disable_positive_acks)
        <3>1. mq[r] = mr[r]
            BY <2>3 DEF mq
        <3> QED
            BY <1>5, <2>1, <3>1, Zenon DEF Carries, SameReader, Timely
    <2> QED
        BY <2>2, <2>3, Zenon
<1>8. mq \in [Readers -> ReaderProxyState]
    <2>1. \A r \in Readers : mq[r] \in ReaderProxyState
        BY <1>7, Zenon DEF Carries, ProxyOK
    <2> QED
        BY <2>1 DEF mq
<1>9. \A r \in Readers :
            /\ Carries(mr[r], wq.matched_readers[r], wr.history, wr.last_seq, OwedTo(O, r))
            /\ Timely(wq.matched_readers[r], wq.async_pending, wq.nack_response)
    BY <1>5, <1>7, Zenon
<1> QED
    BY <1>5, <1>6, <1>8, <1>9, ProxiesStep, Zenon DEF wq

----------------------------------------------------------------------------
(* Messages of the readers.                                                *)

\* Changes of reader r are requested: the response timer is armed.
Requested(wr, r, seqs, previous) ==
    LET rp == wr.matched_readers[r]
        rq == [rp EXCEPT !.changes = Restated(rp.changes, seqs, previous, "REQUESTED")]
    IN  [[wr EXCEPT !.matched_readers = [s \in Readers |-> IF s \in {r} THEN rq
                                                           ELSE wr.matched_readers[s]]]
            EXCEPT !.nack_response = TRUE]

\* A reader asks for changes again.
LEMMA RequestStep ==
    ASSUME NEW O, NEW wr, Sound(wr), Owes(wr, O), NEW r \in Readers, NEW seqs, NEW previous
    PROVE  Quiet(wr, Requested(wr, r, seqs, previous), O)
<1> DEFINE rp == wr.matched_readers[r]
           rq == [rp EXCEPT !.changes = Restated(rp.changes, seqs, previous, "REQUESTED")]
           mq == [s \in Readers |-> IF s \in {r} THEN rq ELSE wr.matched_readers[s]]
           wq == Requested(wr, r, seqs, previous)
<1>1. Typed(wr) /\ DOMAIN wr = Fields /\ wr.last_seq \in Nat
    BY DEF Sound, Typed
<1>2. /\ SameBut(wr, wq, OutFields \cup {"matched_readers"}) /\ wq.matched_readers = mq
      /\ wq.nack_response = TRUE /\ wq.async_pending = wr.async_pending
      /\ wq.periodic_hb = wr.periodic_hb /\ wq.out = wr.out /\ wq.ack_event = wr.ack_event
      /\ wq.last_sequence_number = wr.last_sequence_number
    BY <1>1, Zenon DEF SameBut, Fields, OutFields, Requested
<1> HIDE DEF wq
<1>3. TimersOK(wq, wr.last_seq) /\ OutOK(wq.out, wr.last_seq)
    BY <1>1, <1>2, Zenon DEF Typed, TimersOK
<1>4. /\ ProxyOK(rp, wr.history, wr.last_seq) /\ rp \in ReaderProxyState
      /\ Timely(rp, wr.async_pending, wr.nack_response)
    BY Zenon DEF Sound, InOrder, ProxyOK
<1>5. PICK b \in BOOLEAN : b = rp.nack_supression
    BY <1>4, Zenon DEF ReaderProxyState
<1>6. rq = [rp EXCEPT !.changes = Restated(rp.changes, seqs, previous, "REQUESTED"),
                      !.nack_supression = b]
    BY <1>4, <1>5, Zenon DEF ReaderProxyState
<1>7. "REQUESTED" \in ChangeForReaderStatus
    BY DEF ChangeForReaderStatus
<1>8. rq.nack_supression = rp.nack_supression
    BY <1>4 DEF ReaderProxyState
<1>14. mq = [s \in Readers |-> IF s \in {r} THEN rq ELSE wr.matched_readers[s]]
    OBVIOUS
<1> HIDE DEF rq, mq
<1>9. Restates(rp, rq, seqs, previous, "REQUESTED", wr.history, wr.last_seq)
    BY <1>1, <1>4, <1>6, <1>7, RestatedCarries, Zenon
<1>10. Timely(rq, wq.async_pending, wq.nack_response)
    BY <1>2, <1>4, <1>8, <1>9, Zenon DEF Timely, Restates
<1>11. Carries(rp, rq, wr.history, wr.last_seq, OwedTo(O, r))
    BY <1>9, Zenon DEF Restates, Carries, OwedTo
<1>12. /\ wr.async_pending => wq.async_pending
       /\ wr.nack_response => wq.nack_response
       /\ wq.matched_readers = [s \in Readers |-> IF s \in {r} THEN rq ELSE wr.matched_readers[s]]
    BY <1>2, <1>14
<1>13. SameBut(wr, wq, OutFields \cup {"matched_readers"})
    BY <1>2
<1> QED
    BY <1>3, <1>10, <1>11, <1>12, <1>13, OneReaderStep, Zenon DEF wq

\* An ACKNACK: nothing from its base on is taken for acknowledged.
LEMMA AcknackStep ==
    ASSUME NEW O, NEW wr, Sound(wr), Owes(wr, O), NEW r \in Readers,
           wr.matched_readers[r].is_active, wr.matched_readers[r].is_reliable,
           NEW ack, ack.base \in 0 .. (wr.last_seq + 1), ack.final \in BOOLEAN,
           \A p \in O : p[1] = r => p[2] >= ack.base
    PROVE  Checked(wr, process_acknack(wr, r, ack), O)
<1> DEFINE mr == wr.matched_readers
           ra == acked_changes_set(mr[r], ack.base, wr.history, wr.last_seq + 1)
           ma == [s \in Readers |-> IF s \in {r} THEN ra ELSE mr[s]]
           wa == [wr EXCEPT !.matched_readers = ma]
           rq == requested_changes_set(ra, ack.list)
           mq == [s \in Readers |-> IF s \in {r} THEN rq ELSE ma[s]]
           wreq == [[wa EXCEPT !.matched_readers = mq] EXCEPT !.nack_response = TRUE]
           wbeat == [wa EXCEPT !.periodic_hb = @ \/ ~ack.final]
<1>1. Typed(wr) /\ DOMAIN wr = Fields /\ wr.last_seq \in Nat
      /\ wr.history \in SUBSET (1 .. wr.last_seq)
    BY DEF Sound, Typed
<1>2. PICK wx : /\ process_acknack(wr, r, ack) = check_acked_status(wx)
                /\ wx \in {wreq, wbeat, send_heartbeat_to_nts(wa, r), wa}
    <2> DEFINE acked == OnReaders(wr, {r},
                            LAMBDA rp : acked_changes_set(rp, ack.base, wr.history,
                                                          next_sequence_number(wr)))
               requested == OnReaders(acked, {r}, LAMBDA p : requested_changes_set(p, ack.list))
    <2>1. acked = wa
        BY DEF OnReaders, next_sequence_number
    <2>2. wa.matched_readers = ma
        BY <1>1 DEF Fields
    <2>3. wa.matched_readers[r] = ra
        BY <2>2
    <2> HIDE DEF wa, ma, ra
    <2>4. requested = [wa EXCEPT !.matched_readers = [s \in Readers |->
                            IF s \in {r} THEN requested_changes_set(wa.matched_readers[s], ack.list)
                            ELSE wa.matched_readers[s]]]
        BY <2>1, Zenon DEF OnReaders
    <2>5. [s \in Readers |-> IF s \in {r} THEN requested_changes_set(wa.matched_readers[s], ack.list)
                             ELSE wa.matched_readers[s]] = mq
        BY <2>2, <2>3
    <2>6. requested = [wa EXCEPT !.matched_readers = mq]
        BY <2>4, <2>5
    <2> HIDE DEF mq, acked, requested
    <2>7. \E wx : process_acknack(wr, r, ack) = check_acked_status(wx)
                  /\ wx \in {[requested EXCEPT !.nack_response = TRUE],
                             [acked EXCEPT !.periodic_hb = @ \/ ~ack.final],
                             send_heartbeat_to_nts(acked, r), acked}
        BY Zenon DEF process_acknack, requested, acked
    <2> QED
        BY <2>1, <2>6, <2>7
<1>3. /\ ProxyOK(mr[r], wr.history, wr.last_seq) /\ mr[r] \in ReaderProxyState
      /\ Timely(mr[r], wr.async_pending, wr.nack_response)
    BY Zenon DEF Sound, InOrder, ProxyOK
<1>4. Acked(mr[r], ra, ack.base, wr.history, wr.last_seq)
    BY <1>1, <1>3, AckedCarries
<1>5. Quiet(wr, wa, O)
    <2>1. \A m \in OwedTo(O, r) : m \in Nat /\ ack.base <= m
        BY <1>1 DEF OwedTo
    <2> HIDE DEF ra
    <2>2. Carries(mr[r], ra, wr.history, wr.last_seq, OwedTo(O, r))
        BY <1>4, <2>1 DEF Acked, Carries
    <2> HIDE DEF ma
    <2>3. /\ SameBut(wr, wa, OutFields \cup {"matched_readers"}) /\ wa.matched_readers = ma
          /\ wa.nack_response = wr.nack_response /\ wa.async_pending = wr.async_pending
          /\ wa.periodic_hb = wr.periodic_hb /\ wa.out = wr.out /\ wa.ack_event = wr.ack_event
          /\ wa.last_sequence_number = wr.last_sequence_number
        BY <1>1 DEF SameBut, Fields, OutFields
    <2> HIDE DEF wa
    <2>4. TimersOK(wa, wr.last_seq) /\ OutOK(wa.out, wr.last_seq)
        BY <1>1, <2>3 DEF Typed, TimersOK
    <2>5. Timely(ra, wa.async_pending, wa.nack_response)
        BY <1>3, <1>4, <2>3, Zenon DEF Timely, Acked
    <2>6. /\ wr.async_pending => wa.async_pending
          /\ wr.nack_response => wa.nack_response
          /\ wa.matched_readers = [s \in Readers |-> IF s \in {r} THEN ra
                                                     ELSE wr.matched_readers[s]]
        BY <2>3, Zenon DEF ma
    <2>7. SameBut(wr, wa, OutFields \cup {"matched_readers"})
        BY <2>3
    <2> QED
        BY <2>2, <2>4, <2>5, <2>6, <2>7, OneReaderStep, ZenonT(30)
<1>6. /\ Sound(wa) /\ Owes(wa, O) /\ Typed(wa) /\ DOMAIN wa = Fields
      /\ wa.last_seq = wr.last_seq
    BY <1>5 DEF Quiet, After, Sound, Typed
<1>7. wa.matched_readers = ma /\ wa.matched_readers[r] = ra
    BY <1>1 DEF Fields
<1> HIDE DEF wa
<1>8. Quiet(wa, wreq, O)
    <2>1. wreq = Requested(wa, r, ack.list, {"UNACKNOWLEDGED"})
        BY <1>7 DEF Requested, requested_changes_set
    <2>2. Quiet(wa, Requested(wa, r, ack.list, {"UNACKNOWLEDGED"}), O)
        BY <1>6, RequestStep
    <2> QED
        BY <2>1, <2>2
<1>9. Quiet(wa, wbeat, O)
    <2>1. PICK b \in BOOLEAN : wbeat = [wa EXCEPT !.periodic_hb = b]
        <3>1. (wa.periodic_hb \/ ~ack.final) \in BOOLEAN
            OBVIOUS
        <3> QED
            BY <3>1, Zenon
    <2> HIDE DEF wbeat
    <2>2. /\ SameBut(wa, wbeat, OutFields)
          /\ wbeat.periodic_hb = b /\ wbeat.async_pending = wa.async_pending
          /\ wbeat.nack_response = wa.nack_response /\ wbeat.out = wa.out
          /\ wbeat.ack_event = wa.ack_event
          /\ wbeat.last_sequence_number = wa.last_sequence_number
        BY <1>6, <2>1 DEF SameBut, Fields, OutFields
    <2>3. TimersOK(wbeat, wa.last_seq) /\ OutOK(wbeat.out, wa.last_seq)
        BY <1>6, <2>1, <2>2 DEF Typed, TimersOK
    <2> QED
        BY <1>6, <2>2, <2>3, OutStep, Zenon
<1>10. Quiet(wa, send_heartbeat_to_nts(wa, r), O)
    BY <1>6, HeartbeatToSends, SendsQuiet
<1>11. Quiet(wa, wa, O)
    BY <1>6, AfterNothing DEF Quiet
<1>12. Quiet(wa, wx, O)
    BY <1>2, <1>8, <1>9, <1>10, <1>11
<1>13. Quiet(wr, wx, O)
    BY <1>5, <1>12, QuietQuiet
<1>14. Checked(wx, check_acked_status(wx), O)
    BY <1>13, CheckStep DEF Quiet, After
<1> QED
    BY <1>2, <1>13, <1>14, QuietChecked

\* A NACKFRAG.
LEMMA NackFragStep ==
    ASSUME NEW O, NEW wr, Sound(wr), Owes(wr, O), NEW r \in Readers, NEW n
    PROVE  Quiet(wr, process_nack_frag(wr, r, n), O)
<1> DEFINE previous == ChangeForReaderStatus \ {"UNSENT"}
<1>1. \/ process_nack_frag(wr, r, n) = wr
      \/ process_nack_frag(wr, r, n) = Requested(wr, r, {n}, previous)
    <2>1. OnReaders(wr, {r}, LAMBDA rp : requested_fragment_set(rp, n))
            = [wr EXCEPT !.matched_readers = [s \in Readers |->
                IF s \in {r} THEN [wr.matched_readers[r] EXCEPT
                        !.changes = Restated(wr.matched_readers[r].changes, {n}, previous,
                                             "REQUESTED")]
                ELSE wr.matched_readers[s]]]
        BY DEF OnReaders, requested_fragment_set
    <2> QED
        BY <2>1, Zenon DEF process_nack_frag, Requested
<1>2. Quiet(wr, wr, O)
    BY AfterNothing DEF Quiet
<1>3. Quiet(wr, Requested(wr, r, {n}, previous), O)
    BY RequestStep
<1> HIDE DEF previous
<1> QED
    BY <1>1, <1>2, <1>3

----------------------------------------------------------------------------
(* Matching.                                                               *)

\* Reader r, who is owed nothing, gets another proxy.
LEMMA ReplaceStep ==
    ASSUME NEW O, NEW wr, Sound(wr), Owes(wr, O), NEW r \in Readers, \A p \in O : p[1] # r,
           NEW rq, NEW wq, SameBut(wr, wq, OutFields \cup {"matched_readers"}),
           wq.matched_readers = [wr.matched_readers EXCEPT ![r] = rq],
           OutOK(wq.out, wr.last_seq), TimersOK(wq, wr.last_seq),
           wr.async_pending => wq.async_pending, wr.nack_response => wq.nack_response,
           ProxyOK(rq, wr.history, wr.last_seq),
           \A c \in rq.changes : c.status = "UNACKNOWLEDGED",
           rq.is_active =>
                /\ rq.is_reliable <=> r \notin wr.qos.best_effort
                /\ rq.disable_positive_acks <=> r \in wr.qos.no_positive_acks
    PROVE  Quiet(wr, wq, O)
<1> DEFINE mr == wr.matched_readers
           mq == wq.matched_readers
<1>1. /\ DOMAIN wq = Fields /\ wq.qos = wr.qos /\ wq.last_seq = wr.last_seq
      /\ wq.history = wr.history /\ wq.next_all_acked = wr.next_all_acked
      /\ wq.all_acked = wr.all_acked
      /\ wq.isHistoryFull = wr.isHistoryFull
      /\ wq.may_remove_change = wr.may_remove_change
    BY DEF SameBut, Fields, OutFields
<1>2. mr \in [Readers -> ReaderProxyState]
    BY Zenon DEF Sound, Typed
<1>3. mq \in [Readers -> ReaderProxyState] /\ mq[r] = rq /\ \A s \in Readers \ {r} : mq[s] = mr[s]
    BY <1>2, Zenon DEF ProxyOK
<1>4. Typed(wq)
    BY <1>1, <1>3, Zenon DEF Sound, Typed, TimersOK
<1>5. ASSUME NEW s \in Readers PROVE InOrder(wq, s)
    <2>1. CASE s = r
        BY <1>1, <1>3, <2>1, Zenon DEF InOrder, Timely
    <2>2. CASE s # r
        <3>1. mq[s] = mr[s] /\ InOrder(wr, s)
            BY <1>3, <2>2, Zenon DEF Sound
        <3> QED
            BY <1>1, <3>1, Zenon DEF InOrder, Timely
    <2> QED
        BY <2>1, <2>2, Zenon
<1>6. Owes(wq, O)
    <2> SUFFICES ASSUME NEW p \in O
                 PROVE  /\ p \in Readers \X Nat
                        /\ mq[p[1]].is_active /\ mq[p[1]].is_reliable
                        /\ p[2] <= wq.last_seq
                        /\ p[2] \in wq.history =>
                            /\ p[2] \in Numbers(mq[p[1]])
                            /\ wq.next_all_acked <= p[2]
        BY Zenon DEF Owes
    <2>1. p[1] \in Readers \ {r}
        BY DEF Owes
    <2>2. mq[p[1]] = mr[p[1]]
        BY <1>3, <2>1
    <2> QED
        BY <1>1, <2>2, Zenon DEF Owes
<1>7. Keeps(wr, O) => Keeps(wq, O)
    BY <1>1 DEF Keeps
<1>8. Ready(wr, O) => Ready(wq, O)
    BY <1>1, Zenon DEF Ready
<1>9. Roomy(wr, wq)
    BY <1>1, <1>4, Zenon DEF Roomy, Typed
<1> QED
    BY <1>1, <1>4, <1>5, <1>6, <1>7, <1>8, <1>9, Zenon DEF Quiet, After, Sound

\* matched_reader_remove.
LEMMA UnmatchStep ==
    ASSUME NEW O, NEW wr, Sound(wr), Owes(wr, O), NEW r \in Readers, \A p \in O : p[1] # r
    PROVE  Quiet(wr, matched_reader_remove(wr, r), O)
<1> DEFINE removed == [wr EXCEPT !.matched_readers[r] = stopped]
           hb == wr.periodic_hb /\ MatchedReaders(removed) # {}
           wq == matched_reader_remove(wr, r)
           mq == [wr.matched_readers EXCEPT ![r] = stopped]
<1>1. Typed(wr) /\ DOMAIN wr = Fields /\ wr.last_seq \in Nat
    BY DEF Sound, Typed
<1>2. removed = [wr EXCEPT !.matched_readers = mq]
    OBVIOUS
<1>3. wq = [[wr EXCEPT !.matched_readers = mq] EXCEPT !.periodic_hb = @ /\ MatchedReaders(removed) # {}]
    BY <1>2 DEF matched_reader_remove
<1>4. hb \in BOOLEAN
    OBVIOUS
<1>13. DOMAIN removed = Fields
    BY <1>1
<1> HIDE DEF wq, mq, removed
<1>5. /\ SameBut(wr, wq, OutFields \cup {"matched_readers"}) /\ wq.matched_readers = mq
      /\ wq.nack_response = wr.nack_response /\ wq.async_pending = wr.async_pending
      /\ wq.periodic_hb = hb /\ wq.out = wr.out /\ wq.ack_event = wr.ack_event
      /\ wq.last_sequence_number = wr.last_sequence_number
    BY <1>1, <1>3, Zenon DEF SameBut, Fields, OutFields
<1> HIDE DEF hb
<1>6. TimersOK(wq, wr.last_seq) /\ OutOK(wq.out, wr.last_seq)
    BY <1>1, <1>4, <1>5 DEF Typed, TimersOK
<1>7. PICK rq : rq = stopped
    OBVIOUS
<1>8. /\ ProxyOK(rq, wr.history, wr.last_seq) /\ rq.changes = {} /\ ~rq.is_active
    BY <1>1, <1>7 DEF stopped, ProxyOK, ReaderProxyState
<1>9. /\ wr.async_pending => wq.async_pending
      /\ wr.nack_response => wq.nack_response
      /\ wq.matched_readers = [wr.matched_readers EXCEPT ![r] = rq]
    BY <1>5, <1>7, Zenon DEF mq
<1>10. SameBut(wr, wq, OutFields \cup {"matched_readers"})
    BY <1>5
<1> QED
    BY <1>6, <1>8, <1>9, <1>10, ReplaceStep, Zenon DEF wq

\* matched_reader_add.
LEMMA MatchStep ==
    ASSUME NEW O, NEW wr, Sound(wr), Owes(wr, O), NEW r \in Readers,
           ~wr.matched_readers[r].is_active
    PROVE  Quiet(wr, matched_reader_add(wr, r), O)
<1> DEFINE relevant == r \notin wr.qos.volatile_readers /\ ~wr.qos.volatile
           rp == start(r \notin wr.qos.best_effort, r \in wr.qos.volatile_readers,
                       r \in wr.qos.no_positive_acks, wr.history, next_sequence_number(wr))
           news == {[seq |-> n, status |-> "UNACKNOWLEDGED"] : n \in wr.history}
           proxy == IF relevant THEN [rp EXCEPT !.changes = news] ELSE rp
           matched == [wr EXCEPT !.matched_readers[r] = proxy]
           beat == send_heartbeat_nts(matched, 1, {r}, wr.qos.disable_positive_acks)
           skipped == (Least(wr.history) .. wr.last_seq) \ (IF relevant THEN wr.history ELSE {})
           wq == matched_reader_add(wr, r)
<1>1. /\ Typed(wr) /\ DOMAIN wr = Fields /\ wr.last_seq \in Nat /\ wr.history \subseteq 1 .. wr.last_seq
      /\ wr.matched_readers \in [Readers -> ReaderProxyState]
    BY DEF Sound, Typed
<1>2. \A p \in O : p[1] # r
    BY DEF Owes
<1>3. /\ wq = IF wr.history = {}
              THEN beat
              ELSE [IF proxy.is_reliable THEN add_gap(beat, {r}, skipped) ELSE beat EXCEPT
                        !.periodic_hb = TRUE]
    BY DEF matched_reader_add
<1>4. /\ rp \in ReaderProxyState
      /\ rp.is_active /\ rp.is_reliable = (r \notin wr.qos.best_effort)
      /\ rp.disable_positive_acks = (r \in wr.qos.no_positive_acks)
      /\ rp.changes = {} /\ rp.low_mark <= wr.last_seq /\ \A m \in wr.history : rp.low_mark < m
    <2>1. next_sequence_number(wr) = wr.last_seq + 1
        BY DEF next_sequence_number
    <2>11. /\ (r \notin wr.qos.best_effort) \in BOOLEAN
          /\ (r \in wr.qos.volatile_readers) \in BOOLEAN
          /\ (r \in wr.qos.no_positive_acks) \in BOOLEAN
        OBVIOUS
    <2>2. PICK reliable \in BOOLEAN : reliable = (r \notin wr.qos.best_effort)
        BY <2>11, Zenon
    <2>3. PICK volatile \in BOOLEAN : volatile = (r \in wr.qos.volatile_readers)
        BY <2>11, Zenon
    <2>4. PICK silent \in BOOLEAN : silent = (r \in wr.qos.no_positive_acks)
        BY <2>11, Zenon
    <2>5. PICK last \in Nat : last = wr.last_seq
        BY <1>1
    <2>6. rp = start(reliable, volatile, silent, wr.history, last + 1)
        BY <2>1, <2>2, <2>3, <2>4, <2>5, Zenon
    <2> HIDE DEF rp
    <2>7. wr.history \in SUBSET (1 .. last)
        BY <1>1, <2>5
    <2>9. PICK next : next = last + 1
        OBVIOUS
    <2>10. rp = start(reliable, volatile, silent, wr.history, next)
        BY <2>6, <2>9
    <2>8. Started(rp, reliable, silent, wr.history, last)
        BY <2>7, <2>9, <2>10, StartIs
    <2> QED
        BY <2>2, <2>4, <2>5, <2>8 DEF Started
<1> HIDE DEF rp
<1>5. /\ proxy \in ReaderProxyState
      /\ proxy.is_active /\ proxy.is_reliable = rp.is_reliable
      /\ proxy.disable_positive_acks = rp.disable_positive_acks
      /\ proxy.low_mark = rp.low_mark
      /\ proxy.changes = IF relevant THEN news ELSE {}
    <2>1. news \in SUBSET ChangeForReader
        BY <1>1 DEF ChangeForReader, ChangeForReaderStatus
    <2> QED
        BY <1>4, <2>1, Zenon DEF ReaderProxyState
<1>6. \A c \in proxy.changes : c.seq \in wr.history /\ c.status = "UNACKNOWLEDGED"
                               /\ c = [seq |-> c.seq, status |-> "UNACKNOWLEDGED"]
    BY <1>5
<1>7. ProxyOK(proxy, wr.history, wr.last_seq)
    <2>1. \A c \in proxy.changes : c.seq \in wr.history /\ proxy.low_mark < c.seq
        BY <1>4, <1>5, <1>6
    <2>2. \A c, d \in proxy.changes : c.seq = d.seq => c = d
        BY <1>6
    <2>3. \A c \in proxy.changes : c.status # "ACKNOWLEDGED"
        BY <1>6
    <2> HIDE DEF proxy
    <2> QED
        BY <1>4, <1>5, <2>1, <2>2, <2>3 DEF ProxyOK
<1>8. PICK rq : rq = proxy
    BY Zenon
<1>9. matched = [wr EXCEPT !.matched_readers = [wr.matched_readers EXCEPT ![r] = rq]]
    BY <1>8
<1>10. proxy.is_reliable = rq.is_reliable
    BY <1>8
<1>11. /\ ProxyOK(rq, wr.history, wr.last_seq)
       /\ \A c \in rq.changes : c.status = "UNACKNOWLEDGED"
       /\ rq.is_active
       /\ rq.is_reliable <=> r \notin wr.qos.best_effort
       /\ rq.disable_positive_acks <=> r \in wr.qos.no_positive_acks
    BY <1>4, <1>5, <1>6, <1>7, <1>8, Zenon
<1> HIDE DEF proxy, matched
<1>12. /\ SameBut(wr, matched, {"matched_readers"})
       /\ matched.matched_readers = [wr.matched_readers EXCEPT ![r] = rq]
    BY <1>1, <1>9 DEF SameBut, Fields
<1>13. /\ SameBut(wr, matched, OutFields \cup {"matched_readers"})
       /\ matched.out = wr.out /\ matched.async_pending = wr.async_pending
       /\ matched.nack_response = wr.nack_response /\ matched.periodic_hb = wr.periodic_hb
       /\ matched.ack_event = wr.ack_event
       /\ matched.last_sequence_number = wr.last_sequence_number
       /\ matched.history = wr.history /\ matched.last_seq = wr.last_seq
    BY <1>12 DEF SameBut, Fields, OutFields
<1>14. TimersOK(matched, wr.last_seq) /\ OutOK(matched.out, wr.last_seq)
    BY <1>1, <1>13 DEF Typed, TimersOK
<1>15. Quiet(wr, matched, O)
    <2>1. /\ wr.async_pending => matched.async_pending
          /\ wr.nack_response => matched.nack_response
        BY <1>13
    <2>2. SameBut(wr, matched, OutFields \cup {"matched_readers"})
        BY <1>13
    <2> QED
        BY <1>2, <1>11, <1>12, <1>14, <2>1, <2>2, ReplaceStep, Zenon
<1>16. Sound(matched) /\ Owes(matched, O) /\ Typed(matched)
    BY <1>15 DEF Quiet, After, Sound
<1>17. Sends(matched, beat)
    BY <1>16, HeartbeatSends
<1> HIDE DEF beat
<1>18. Typed(beat) /\ beat.last_seq = wr.last_seq
    BY <1>13, <1>16, <1>17, SendsTyped
<1>19. CASE wr.history = {}
    <2>1. wq = beat
        BY <1>3, <1>19
    <2> HIDE DEF wq
    <2>2. Quiet(matched, wq, O)
        BY <1>16, <1>17, <2>1, SendsQuiet
    <2> QED
        BY <1>15, <2>2, QuietQuiet DEF wq
<1>20. CASE wr.history # {}
    <2>1. Least(wr.history) \in 1 .. wr.last_seq
        BY <1>1, <1>20, HistoryEnds
    <2>2. skipped \in SUBSET (0 .. beat.last_seq)
        BY <1>1, <1>18, <2>1
    <2> HIDE DEF skipped
    <2>3. PICK gaps : gaps = IF proxy.is_reliable THEN add_gap(beat, {r}, skipped) ELSE beat
        OBVIOUS
    <2>4. Sends(matched, gaps)
        <3>1. Sends(beat, add_gap(beat, {r}, skipped))
            BY <1>18, <2>2, GapSends
        <3> QED
            BY <1>17, <2>3, <3>1, SendsTwice
    <2>5. wq = [gaps EXCEPT !.periodic_hb = TRUE]
        BY <1>3, <1>20, <2>3
    <2> HIDE DEF wq
    <2>6. Quiet(matched, gaps, O)
        BY <1>16, <2>4, SendsQuiet
    <2>7. Quiet(gaps, wq, O)
        <3>1. Sound(gaps) /\ Owes(gaps, O) /\ Typed(gaps) /\ DOMAIN gaps = Fields
            BY <2>6, Zenon DEF Quiet, After, Sound, Typed
        <3>2. /\ SameBut(gaps, wq, OutFields) /\ wq.out = gaps.out
              /\ wq.periodic_hb = TRUE /\ wq.nack_response = gaps.nack_response
              /\ wq.async_pending = gaps.async_pending /\ wq.ack_event = gaps.ack_event
              /\ wq.last_sequence_number = gaps.last_sequence_number
            BY <2>5, <3>1 DEF SameBut, Fields, OutFields
        <3>3. TimersOK(wq, gaps.last_seq) /\ OutOK(wq.out, gaps.last_seq)
            BY <3>1, <3>2, Zenon DEF Typed, TimersOK
        <3>4. /\ gaps.async_pending => wq.async_pending
              /\ gaps.nack_response => wq.nack_response
              /\ SameBut(gaps, wq, OutFields)
            BY <3>2
        <3> QED
            BY <3>1, <3>3, <3>4, OutStep
    <2> QED
        BY <1>15, <2>6, <2>7, QuietQuiet DEF wq
<1> QED
    BY <1>19, <1>20

----------------------------------------------------------------------------
(* The remaining handlers.                                                 *)

\* lifespan_expired: nobody is owed a change that has expired.
LEMMA LifespanStep ==
    ASSUME NEW O, NEW wr, Sound(wr), Owes(wr, O), NEW n \in wr.history, \A p \in O : p[2] > n
    PROVE  Quiet(wr, lifespan_expired(wr, n), O)
<1> DEFINE S == {m \in wr.history : m <= n}
           wq == remove_changes(wr, S)
<1>1. Removes(wr, wq, S, O)
    BY RemoveStep
<1>2. \A p \in O : p[2] \notin S
    <2>1. \A p \in O : p[2] \in Nat
        BY DEF Owes
    <2>2. n \in Nat
        BY DEF Sound, Typed
    <2> QED
        BY <2>1, <2>2
<1>3. wq = lifespan_expired(wr, n)
    BY DEF lifespan_expired
<1> HIDE DEF S, wq
<1>4. Quiet(wr, wq, O)
    BY <1>1, <1>2 DEF Removes, Quiet
<1> QED
    BY <1>3, <1>4

\* wait_for_all_acked sets its flag to what it sees.
LEMMA FlagStep ==
    ASSUME NEW O, NEW wr, Sound(wr), Owes(wr, O)
    PROVE  Checked(wr, [wr EXCEPT !.all_acked = AllAcked(wr)], O)
<1> DEFINE wq == [wr EXCEPT !.all_acked = AllAcked(wr)]
<1>1. DOMAIN wr = Fields /\ wr.next_all_acked \in 0 .. (wr.last_seq + 1)
    BY DEF Sound, Typed
<1>2. /\ SameBut(wr, wq, MarkFields) /\ wq.next_all_acked = wr.next_all_acked
      /\ wq.may_remove_change = wr.may_remove_change
      /\ wq.matched_readers = wr.matched_readers
    BY <1>1 DEF SameBut, Fields, MarkFields
<1>3. wq.all_acked = AllAcked(wr)
    BY <1>1 DEF Fields
<1>4. AllAcked(wr) \in BOOLEAN
    BY DEF AllAcked
<1> HIDE DEF wq
<1>5. wq.all_acked \in BOOLEAN
    BY <1>3, <1>4
<1>6. \A p \in O : p[2] \in wr.history => wq.next_all_acked <= p[2]
    BY <1>2 DEF Owes
<1>7. /\ SameBut(wr, wq, MarkFields) /\ wq.next_all_acked \in 0 .. (wr.last_seq + 1)
      /\ wq.may_remove_change \in {0, wr.may_remove_change}
    BY <1>1, <1>2
<1>8. After(wr, wq, O)
    BY <1>5, <1>6, <1>7, MarkStep
<1>9. Told(wr, wq)
    BY <1>2, <1>3, Zenon DEF Told, AllAcked, has_changes, MatchedReaders
<1> QED
    BY <1>8, <1>9 DEF Checked, wq

----------------------------------------------------------------------------
(* The end of a handler.                                                   *)

\* The messages are sent and the notifications made.
LEMMA LeaveWriter ==
    ASSUME NEW O, NEW wr, Sound(wr), Owes(wr, O)
    PROVE  /\ Quiet(wr, [wr EXCEPT !.notify = 0, !.out = {}], O)
           /\ SameBut(wr, [wr EXCEPT !.notify = 0, !.out = {}], {"notify", "out"})
<1> DEFINE wq == [wr EXCEPT !.notify = 0, !.out = {}]
<1>1. Typed(wr) /\ DOMAIN wr = Fields
    BY DEF Sound, Typed
<1>2. SameBut(wr, wq, {"notify", "out"}) /\ wq.out = {}
    BY <1>1, Zenon DEF SameBut, Fields
<1> HIDE DEF wq
<1>3. /\ SameBut(wr, wq, OutFields) /\ wq.periodic_hb = wr.periodic_hb
      /\ wq.nack_response = wr.nack_response /\ wq.async_pending = wr.async_pending
      /\ wq.ack_event = wr.ack_event /\ wq.last_sequence_number = wr.last_sequence_number
    BY <1>2 DEF SameBut, Fields, OutFields
<1>4. TimersOK(wq, wr.last_seq) /\ OutOK(wq.out, wr.last_seq)
    BY <1>1, <1>2, <1>3, Zenon DEF Typed, TimersOK, OutOK
<1>5. /\ SameBut(wr, wq, OutFields)
      /\ wr.async_pending => wq.async_pending
      /\ wr.nack_response => wq.nack_response
    BY <1>3
<1>6. Quiet(wr, wq, O)
    BY <1>4, <1>5, OutStep
<1> QED
    BY <1>2, <1>6 DEF wq
=============================================================================
