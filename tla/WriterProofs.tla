---------------------------- MODULE WriterProofs ----------------------------
(***************************************************************************)
(* Safety of a DataWriter in its process, for every set of readers,        *)
(* threads, instances and configurations.  WriterLemmas and                *)
(* WriterHandlerLemmas show what every handler of StatefulWriter and       *)
(* PublisherHistory preserves; this module adds the threads and the        *)
(* readers around the writer and composes the handlers into the actions of *)
(* WriterEnvironment.                                                      *)
(***************************************************************************)
EXTENDS WriterEnvironment, WriterHandlerLemmas, FiniteSetTheorems

----------------------------------------------------------------------------
(* How a handler ends.                                                     *)

\* What a reader can know.
Bounded(h, last) ==
    /\ h \in [known : SUBSET Nat, last : Nat]
    /\ h.known \subseteq 0 .. last /\ h.last <= last

\* A reader learns of no number that has not been written.
LEMMA HeardIs ==
    ASSUME NEW h, NEW before \in Nat, Bounded(h, before), NEW last \in Nat, before <= last,
           NEW out, OutOK(out, last), NEW r
    PROVE  Bounded(Heard(r, h, out), last)
<1> DEFINE mine  == {m \in out : r \in m.to}
           beats == {m \in mine : m.type = "HEARTBEAT"}
           sent  == {m.seq : m \in {d \in mine : d.type = "DATA"}}
           holes == UNION {m.numbers : m \in {g \in mine : g.type = "GAP"}}
           gone  == UNION {1 .. (m.first - 1) : m \in beats}
           known == h.known \cup sent \cup holes \cup gone
           S == {h.last} \cup known \cup {m.last : m \in beats}
<1>1. Heard(r, h, out) = [known |-> known, last |-> Greatest(S)]
    BY DEF Heard
<1>2. \A m \in mine : m.type = "DATA" => m.seq \in 0 .. last
    BY DEF OutOK
<1>3. \A m \in mine : m.type = "GAP" => m.numbers \subseteq 0 .. last
    BY DEF OutOK
<1>4. \A m \in beats : 1 .. (m.first - 1) \subseteq 0 .. last
    <2> SUFFICES ASSUME NEW m \in beats
                 PROVE  1 .. (m.first - 1) \subseteq 0 .. last
        OBVIOUS
    <2>1. m.first \in 0 .. (last + 1)
        BY DEF OutOK
    <2> QED
        BY <2>1
<1>5. \A m \in beats : m.last \in 0 .. last
    BY DEF OutOK
<1>6. h.known \subseteq 0 .. last /\ h.last \in 0 .. last
    <2>1. h.last \in Nat /\ h.last <= before /\ h.known \subseteq 0 .. before
        BY DEF Bounded
    <2> QED
        BY <2>1
<1> HIDE DEF beats, mine
<1>7. known \subseteq 0 .. last
    <2>2. sent \subseteq 0 .. last
        BY <1>2
    <2>3. holes \subseteq 0 .. last
        BY <1>3
    <2>4. gone \subseteq 0 .. last
        BY <1>4
    <2> HIDE DEF sent, holes, gone
    <2> QED
        BY <1>6, <2>2, <2>3, <2>4, Zenon
<1> HIDE DEF known
<1>8. S \subseteq 0 .. last /\ S # {}
    BY <1>5, <1>6, <1>7, Zenon
<1> HIDE DEF S
<1>9. Greatest(S) \in S
    <2>1. S \in SUBSET Nat /\ S # {} /\ \A y \in S : y <= last
        BY <1>8
    <2> QED
        BY <2>1, GreatestIs, Zenon
<1>11. PICK g : g = Greatest(S)
    OBVIOUS
<1>10. known \in SUBSET Nat /\ g \in 0 .. last
    <2>1. 0 .. last \subseteq Nat
        OBVIOUS
    <2>2. known \in SUBSET Nat
        BY <1>7, <2>1
    <2> QED
        BY <1>8, <1>9, <1>11, <2>2, Zenon
<1>12. Bounded([known |-> known, last |-> g], last)
    BY <1>7, <1>10 DEF Bounded
<1> QED
    BY <1>1, <1>11, <1>12

----------------------------------------------------------------------------
(* The state of the process.                                               *)

ThreadFields == {"pc", "instance", "seq", "woken", "settled", "ret"}

\* The threads that do not use the writer are idle.
ThreadsOK ==
    /\ DOMAIN thread = Threads
    /\ \A t \in Threads : DOMAIN thread[t] = ThreadFields
    /\ \A t \in Threads \ ThreadsOf(writer.qos) : thread[t].pc = "idle"

\* The readers know only of changes that have been written.
ReadersOK ==
    /\ DOMAIN heard = Readers
    /\ \A r \in Readers : Bounded(heard[r], writer.last_seq)
    /\ base \in [Readers -> Nat]

\* The writer is sound and holds what is owed: the invariant the others rest on.
WriterInvariant == Sound(writer) /\ Owes(writer, owed) /\ ThreadsOK /\ ReadersOK

\* threads differs from the threads as a handler may leave them before it
\* notifies and returns.
ThreadsBefore(threads) ==
    /\ DOMAIN threads = Threads
    /\ \A t \in Threads : DOMAIN threads[t] = ThreadFields
    /\ \A t \in Threads \ ThreadsOf(writer.qos) : threads[t].pc = "idle"
    /\ \A t \in Threads : threads[t].settled = thread[t].settled

\* Whoever waits on for everything to be acknowledged has seen that nothing was
\* pending if it was so before, or is so now.
Seen ==
    \A t \in Threads :
        (/\ thread'[t].pc = "all_acked" /\ thread[t].pc = "all_acked"
         /\ thread[t].settled \/ NothingPending(writer')) => thread'[t].settled

\* The same when the flag of the wait goes up.
Witnessed ==
    \A t \in Threads :
        (/\ thread'[t].pc = "all_acked" /\ thread[t].pc = "all_acked"
         /\ thread[t].settled \/ (writer'.all_acked /\ ~writer.all_acked)) => thread'[t].settled

\* The flag goes up only then.
LEMMA SeenIsWitnessed ==
    ASSUME Seen, Told(writer, writer')
    PROVE  Witnessed
BY DEF Seen, Told, Witnessed, NothingPending

\* The end of a handler that leaves the writer in wr.
Left(wr, threads, O) ==
    /\ Quiet(wr, writer', O) /\ SameBut(wr, writer', {"notify", "out"})
    /\ Sound(writer') /\ Owes(writer', O)
    /\ ThreadsOK' /\ DOMAIN heard' = Readers
    /\ \A r \in Readers : Bounded(heard'[r], writer'.last_seq)
    /\ \A t \in Threads : thread'[t].pc = threads[t].pc
    /\ Seen

\* Leave keeps what the handler has established.
LEMMA LeaveStep ==
    ASSUME WriterInvariant, NEW O, NEW wr, Sound(wr), Owes(wr, O),
           wr.qos = writer.qos, writer.last_seq <= wr.last_seq,
           NEW threads, ThreadsBefore(threads), Leave(wr, threads)
    PROVE  Left(wr, threads, O)
<1>1. writer' = [wr EXCEPT !.notify = 0, !.out = {}]
    BY Zenon DEF Leave
<1>2. Quiet(wr, writer', O) /\ SameBut(wr, writer', {"notify", "out"})
    BY <1>1, LeaveWriter, Zenon
<1>3. Sound(writer') /\ Owes(writer', O)
    BY <1>2 DEF Quiet, After
<1>4. /\ writer'.qos = wr.qos /\ writer'.last_seq = wr.last_seq
      /\ writer'.matched_readers = wr.matched_readers
    BY <1>2 DEF SameBut, Fields
<1>5. NothingPending(writer') => NothingPending(wr)
    BY <1>4 DEF NothingPending, MatchedReaders
<1>6. PICK W : thread' = [t \in Threads |->
                    [threads[t] EXCEPT
                        !.woken = @ \/ t \in W,
                        !.settled = threads[t].pc = "all_acked" /\ (@ \/ NothingPending(wr))]]
    BY Zenon DEF Leave
<1>7. DOMAIN thread' = Threads
    BY <1>6, Zenon
<1>8. ASSUME NEW t \in Threads
      PROVE  /\ DOMAIN thread'[t] = ThreadFields
             /\ thread'[t].pc = threads[t].pc
             /\ thread'[t].settled = (threads[t].pc = "all_acked"
                                        /\ (threads[t].settled \/ NothingPending(wr)))
    <2>1. DOMAIN threads[t] = ThreadFields
        BY DEF ThreadsBefore
    <2>2. thread'[t] = [threads[t] EXCEPT
                        !.woken = @ \/ t \in W,
                        !.settled = threads[t].pc = "all_acked" /\ (@ \/ NothingPending(wr))]
        BY <1>6, Zenon
    <2> QED
        BY <2>1, <2>2 DEF ThreadFields
<1>9. ThreadsOK'
    BY <1>4, <1>7, <1>8 DEF ThreadsOK, ThreadsBefore
<1>10. ASSUME NEW t \in Threads, thread[t].pc = "all_acked", thread'[t].pc = "all_acked",
              thread[t].settled \/ NothingPending(writer')
       PROVE  thread'[t].settled
    <2>1. threads[t].settled = thread[t].settled
        BY DEF ThreadsBefore
    <2> QED
        BY <1>5, <1>8, <1>10, <2>1, Zenon
<1>11. DOMAIN heard' = Readers
    BY Zenon DEF Leave
<1>12. ASSUME NEW r \in Readers
       PROVE  Bounded(heard'[r], writer'.last_seq)
    <2>1. /\ writer.last_seq \in Nat /\ wr.last_seq \in Nat /\ OutOK(wr.out, wr.last_seq)
          /\ Bounded(heard[r], writer.last_seq)
        BY DEF WriterInvariant, ReadersOK, Sound, Typed
    <2>2. Bounded(Heard(r, heard[r], wr.out), wr.last_seq)
        BY <2>1, HeardIs
    <2>3. Bounded([known |-> {}, last |-> 0], wr.last_seq)
        BY <2>1 DEF Bounded
    <2>4. heard'[r] = IF wr.matched_readers[r].is_active THEN Heard(r, heard[r], wr.out)
                      ELSE [known |-> {}, last |-> 0]
        BY Zenon DEF Leave
    <2> QED
        BY <1>4, <2>2, <2>3, <2>4
<1> QED
    BY <1>2, <1>3, <1>8, <1>9, <1>10, <1>11, <1>12 DEF Left, Seen

----------------------------------------------------------------------------
(* What a step does.                                                       *)

\* A step that writes nothing.
HandledStep ==
    /\ owed' \subseteq owed /\ Checked(writer, writer', owed') /\ Witnessed
    /\ \A t \in Threads : \/ thread'[t].pc \in {thread[t].pc, "idle"}
                          \/ thread'[t].pc = "all_acked" /\ ~writer'.all_acked

\* A step in which thread t runs a piece of its write.
WrittenStep(t) ==
    /\ t \in ThreadsOf(writer.qos)
    /\ owed' = Due(writer, writer', owed)
    /\ Piece(writer, [wr |-> writer', pc |-> thread'[t].pc], owed)
    /\ (thread[t].pc = "room" => Ready(writer, owed)) => KeepsPiece(writer, writer', owed)
    /\ Witnessed
    /\ \A u \in Threads \ {t} : thread'[u].pc = thread[u].pc

Stepped == WriterInvariant' /\ (HandledStep \/ \E t \in Threads : WrittenStep(t))

\* A handler that leaves the writer in wr.
LEMMA CheckedStep ==
    ASSUME WriterInvariant, NEW wr, NEW threads, ThreadsBefore(threads), Leave(wr, threads),
           owed' \subseteq owed, Checked(writer, wr, owed'), base' \in [Readers -> Nat],
           \A t \in Threads : \/ threads[t].pc \in {thread[t].pc, "idle"}
                              \/ threads[t].pc = "all_acked" /\ ~wr.all_acked
    PROVE  Stepped
<1>1. /\ Sound(wr) /\ Owes(wr, owed') /\ wr.qos = writer.qos /\ wr.last_seq = writer.last_seq
      /\ writer.last_seq \in Nat
    BY DEF WriterInvariant, Checked, After, Sound, Typed
<1>2. writer.last_seq <= wr.last_seq
    BY <1>1
<1>3. Left(wr, threads, owed')
    BY <1>1, <1>2, LeaveStep
<1>4. WriterInvariant'
    BY <1>3 DEF Left, WriterInvariant, ReadersOK
<1>5. Checked(writer, writer', owed')
    <2>1. After(writer, writer', owed')
        BY <1>3, AfterAfter DEF Left, Quiet, Checked
    <2>2. writer'.matched_readers = wr.matched_readers /\ writer'.all_acked = wr.all_acked
        BY <1>3 DEF Left, SameBut, Fields
    <2>3. Told(writer, writer')
        BY <2>2 DEF Checked, Told, MatchedReaders
    <2> QED
        BY <2>1, <2>3 DEF Checked
<1>6. writer'.all_acked = wr.all_acked
    BY <1>3 DEF Left, SameBut, Fields
<1>7. \A t \in Threads : \/ thread'[t].pc \in {thread[t].pc, "idle"}
                         \/ thread'[t].pc = "all_acked" /\ ~writer'.all_acked
    BY <1>3, <1>6 DEF Left
<1>8. Witnessed
    BY <1>3, <1>5, SeenIsWitnessed DEF Left, Checked
<1> QED
    BY <1>4, <1>5, <1>7, <1>8 DEF Stepped, HandledStep

\* The threads as they are.
LEMMA SameThreads ==
    ASSUME WriterInvariant
    PROVE  ThreadsBefore(thread)
BY DEF WriterInvariant, ThreadsOK, ThreadsBefore

\* A handler that no user thread runs.
LEMMA HandleStep ==
    ASSUME WriterInvariant, NEW wr, Handle(wr),
           owed' \subseteq owed, Checked(writer, wr, owed'), base' \in [Readers -> Nat]
    PROVE  Stepped
<1>1. ThreadsBefore(thread) /\ Leave(wr, thread)
    BY SameThreads DEF Handle
<1> QED
    BY <1>1, CheckedStep

\* Fewer pairs are owed.
LEMMA OwedLess ==
    ASSUME WriterInvariant, owed' \subseteq owed
    PROVE  Sound(writer) /\ Owes(writer, owed')
<1>1. owed' \in SUBSET owed
    OBVIOUS
<1> QED
    BY <1>1, OwesLess DEF WriterInvariant

\* A piece of a write.
LEMMA ProceedStep ==
    ASSUME WriterInvariant, NEW t \in ThreadsOf(writer.qos), thread[t].pc # "all_acked",
           NEW instance, NEW piece, Piece(writer, piece, owed),
           (thread[t].pc = "room" => Ready(writer, owed)) => KeepsPiece(writer, piece.wr, owed),
           Proceed(t, instance, piece)
    PROVE  Stepped
<1> DEFINE threads == [thread EXCEPT ![t] =
                            [@ EXCEPT !.pc = piece.pc, !.instance = instance, !.seq = piece.seq,
                                      !.woken = FALSE, !.ret = piece.ret]]
           O == Due(writer, piece.wr, owed)
<1>1. t \in Threads
    BY EnvironmentAssumption DEF WriterInvariant, Sound, Typed
<1>2. DOMAIN thread = Threads /\ \A u \in Threads : DOMAIN thread[u] = ThreadFields
    BY DEF WriterInvariant, ThreadsOK
<1>3. /\ DOMAIN threads = Threads
      /\ \A u \in Threads \ {t} : threads[u] = thread[u]
      /\ threads[t] = [thread[t] EXCEPT !.pc = piece.pc, !.instance = instance, !.seq = piece.seq,
                                        !.woken = FALSE, !.ret = piece.ret]
    BY <1>1, <1>2
<1>4. Leave(piece.wr, threads)
    BY DEF Proceed
<1>5. owed' = O /\ base' = base
    BY DEF Proceed, Due, Audience, ReliableReaders
<1> HIDE DEF threads, O
<1>6. DOMAIN threads[t] = ThreadFields /\ threads[t].pc = piece.pc
      /\ threads[t].settled = thread[t].settled
    BY <1>1, <1>2, <1>3 DEF ThreadFields
<1>7. ThreadsBefore(threads)
    BY <1>2, <1>3, <1>6, Zenon DEF ThreadsBefore, WriterInvariant, ThreadsOK
<1>8. /\ Sound(piece.wr) /\ Owes(piece.wr, O) /\ piece.wr.qos = writer.qos
      /\ piece.wr.last_seq \in {writer.last_seq, writer.last_seq + 1} /\ writer.last_seq \in Nat
    BY DEF Piece, O, WriterInvariant, Sound, Typed
<1>9. writer.last_seq <= piece.wr.last_seq
    BY <1>8
<1>10. Left(piece.wr, threads, O)
    BY <1>4, <1>7, <1>8, <1>9, LeaveStep
<1>11. WriterInvariant'
    BY <1>5, <1>10 DEF Left, WriterInvariant, ReadersOK
<1>12. /\ writer'.last_seq = piece.wr.last_seq /\ writer'.matched_readers = piece.wr.matched_readers
       /\ writer'.all_acked = piece.wr.all_acked /\ writer'.qos = piece.wr.qos
       /\ writer'.may_remove_change = piece.wr.may_remove_change
       /\ writer'.history = piece.wr.history
    BY <1>10 DEF Left, SameBut, Fields
<1>13. owed' = Due(writer, writer', owed) /\ O = Due(writer, writer', owed)
    BY <1>5, <1>12 DEF O, Due
<1>14. thread'[t].pc = piece.pc /\ \A u \in Threads \ {t} : thread'[u].pc = thread[u].pc
    BY <1>1, <1>3, <1>6, <1>10, Zenon DEF Left
<1>15. Told(writer, writer')
    BY <1>12 DEF Piece, Told, MatchedReaders
<1>16. Piece(writer, [wr |-> writer', pc |-> thread'[t].pc], owed)
    <2>1. /\ Sound(writer') /\ Owes(writer', Due(writer, writer', owed))
        BY <1>10, <1>13 DEF Left
    <2>2. /\ piece.pc \in {"idle", "room", "ack"}
          /\ piece.pc = "room" => piece.wr.may_remove_change = 0
        BY DEF Piece
    <2> QED
        BY <1>8, <1>12, <1>14, <1>15, <2>1, <2>2 DEF Piece
<1>17. KeepsPiece(writer, piece.wr, owed) => KeepsPiece(writer, writer', owed)
    BY <1>12, <1>13 DEF KeepsPiece, Keeps, Ready, O
<1>18. Witnessed
    BY <1>10, <1>15, SeenIsWitnessed DEF Left
<1> QED
    BY <1>1, <1>11, <1>13, <1>14, <1>16, <1>17, <1>18 DEF Stepped, WrittenStep

----------------------------------------------------------------------------
(* Every action is such a step.                                            *)

\* The actions of the user threads.
LEMMA UserStep ==
    ASSUME WriterInvariant, User
    PROVE  Stepped
<1> USE DEF WriterInvariant
<1>1. PICK t \in ThreadsOf(writer.qos) :
            \/ write(t) \/ continue(t) \/ sleep(t) \/ expire(t)
            \/ wait_for_all_acked(t) \/ end_wait(t)
    BY DEF User
<1>2. t \in Threads
    BY EnvironmentAssumption DEF Sound, Typed
<1>3. /\ DOMAIN thread = Threads /\ \A u \in Threads : DOMAIN thread[u] = ThreadFields
      /\ \A u \in Threads \ ThreadsOf(writer.qos) : thread[u].pc = "idle"
      /\ base \in [Readers -> Nat]
    BY DEF ThreadsOK, ReadersOK
<1>4. CASE write(t)
    <2>1. PICK instance \in Instances, timeout \in BOOLEAN :
                Proceed(t, instance, add_pub_change(writer, instance, timeout))
        BY <1>4 DEF write
    <2>2. PICK piece : piece = add_pub_change(writer, instance, timeout)
        OBVIOUS
    <2>3. Piece(writer, piece, owed) /\ KeepsPiece(writer, piece.wr, owed)
        BY <2>2, WriteStep
    <2>4. thread[t].pc # "all_acked" /\ Proceed(t, instance, piece)
        BY <1>4, <2>1, <2>2 DEF write
    <2> QED
        BY <2>3, <2>4, ProceedStep
<1>5. CASE continue(t)
    <2>1. PICK timeout \in BOOLEAN :
                Proceed(t, thread[t].instance,
                        Continue(writer, thread[t].pc, thread[t].instance, timeout))
        BY <1>5 DEF continue
    <2>2. PICK piece : piece = Continue(writer, thread[t].pc, thread[t].instance, timeout)
        OBVIOUS
    <2>3. MayContinue(writer, thread[t].pc, thread[t].seq)
        BY <1>5 DEF continue
    <2>4. /\ Piece(writer, piece, owed)
          /\ (thread[t].pc = "room" => Ready(writer, owed)) => KeepsPiece(writer, piece.wr, owed)
        BY <2>2, <2>3, ContinueStep
    <2>5. thread[t].pc # "all_acked" /\ Proceed(t, thread[t].instance, piece)
        BY <2>1, <2>2, <2>3 DEF MayContinue
    <2> QED
        BY <2>4, <2>5, ProceedStep
<1>6. CASE sleep(t)
    <2>1. thread' = [thread EXCEPT ![t].woken = FALSE]
          /\ UNCHANGED <<writer, heard, base, owed>>
        BY <1>6 DEF sleep
    <2>2. /\ DOMAIN thread' = Threads
          /\ \A u \in Threads : /\ DOMAIN thread'[u] = ThreadFields
                                /\ thread'[u].pc = thread[u].pc
                                /\ thread'[u].settled = thread[u].settled
        BY <1>2, <1>3, <2>1 DEF ThreadFields
    <2>4. ThreadsOK'
        BY <1>3, <2>1, <2>2 DEF ThreadsOK
    <2>5. ReadersOK'
        BY <2>1 DEF ReadersOK
    <2>7. Checked(writer, writer', owed')
        BY <2>1, AfterNothing DEF Checked, Told
    <2>8. Witnessed
        <3> SUFFICES ASSUME NEW u \in Threads, thread[u].pc = "all_acked",
                            thread'[u].pc = "all_acked"
                     PROVE  thread'[u] = thread[u]
            BY <2>1, <2>2 DEF Witnessed
        <3> QED
            BY <1>2, <1>3, <1>6, <2>1 DEF sleep
    <2>9. WriterInvariant'
        BY <2>1, <2>4, <2>5
    <2>10. HandledStep
        BY <2>1, <2>2, <2>7, <2>8 DEF HandledStep
    <2> QED
        BY <2>9, <2>10 DEF Stepped
<1>7. CASE expire(t)
    <2>1. PICK piece : piece = Returned(writer, "TIMEOUT")
        OBVIOUS
    <2>2. Proceed(t, thread[t].instance, piece) /\ thread[t].pc # "all_acked"
        BY <1>7, <2>1 DEF expire
    <2>3. piece.wr = writer /\ piece.pc = "idle"
        BY <2>1 DEF Returned
    <2>4. Due(writer, writer, owed) = owed
        BY NoChange
    <2>5. Piece(writer, piece, owed) /\ KeepsPiece(writer, piece.wr, owed)
        BY <2>3, <2>4 DEF Piece, KeepsPiece, Told
    <2> QED
        BY <2>2, <2>5, ProceedStep
<1>8. CASE wait_for_all_acked(t)
    <2>1. PICK acked : acked = AllAcked(writer)
        OBVIOUS
    <2>2. PICK wr : wr = [writer EXCEPT !.all_acked = AllAcked(writer)]
        BY Zenon
    <2>3. PICK threads : threads = [thread EXCEPT ![t].pc = IF acked THEN "idle" ELSE "all_acked",
                                                  ![t].ret = IF acked THEN "OK" ELSE "NONE"]
        BY Zenon
    <2>4. Leave(wr, threads) /\ UNCHANGED <<base, owed>> /\ thread[t].pc = "idle"
        BY <1>8, <2>1, <2>2, <2>3 DEF wait_for_all_acked
    <2>5. Checked(writer, wr, owed)
        BY <2>2, FlagStep
    <2>6. wr.all_acked = acked
        BY <2>1, <2>2 DEF Sound, Typed, Fields
    <2>7. /\ DOMAIN threads = Threads /\ \A u \in Threads \ {t} : threads[u] = thread[u]
          /\ DOMAIN threads[t] = ThreadFields
          /\ threads[t].pc = IF acked THEN "idle" ELSE "all_acked"
          /\ threads[t].settled = thread[t].settled
        BY <1>2, <1>3, <2>3 DEF ThreadFields
    <2>8. ThreadsBefore(threads)
        BY <1>3, <2>7 DEF ThreadsBefore
    <2>9. \A u \in Threads : \/ threads[u].pc \in {thread[u].pc, "idle"}
                             \/ threads[u].pc = "all_acked" /\ ~wr.all_acked
        BY <2>6, <2>7
    <2>10. owed' \subseteq owed /\ Checked(writer, wr, owed') /\ base' \in [Readers -> Nat]
        BY <1>3, <2>4, <2>5
    <2> QED
        BY <2>4, <2>8, <2>9, <2>10, CheckedStep
<1>9. CASE end_wait(t)
    <2>3. PICK threads : threads = [thread EXCEPT ![t].pc = "idle",
                                        ![t].ret = IF writer.all_acked THEN "OK" ELSE "TIMEOUT"]
        BY Zenon
    <2>4. Leave(writer, threads) /\ UNCHANGED <<base, owed>>
        BY <1>9, <2>3 DEF end_wait
    <2>5. Checked(writer, writer, owed)
        BY AfterNothing DEF Checked, Told
    <2>7. /\ DOMAIN threads = Threads /\ \A u \in Threads \ {t} : threads[u] = thread[u]
          /\ DOMAIN threads[t] = ThreadFields /\ threads[t].pc = "idle"
          /\ threads[t].settled = thread[t].settled
        BY <1>2, <1>3, <2>3 DEF ThreadFields
    <2>8. ThreadsBefore(threads)
        BY <1>3, <2>7 DEF ThreadsBefore
    <2>9. \A u \in Threads : threads[u].pc \in {thread[u].pc, "idle"}
        BY <2>7
    <2>10. owed' \subseteq owed /\ Checked(writer, writer, owed') /\ base' \in [Readers -> Nat]
        BY <1>3, <2>4, <2>5
    <2> QED
        BY <2>4, <2>8, <2>9, <2>10, CheckedStep
<1> QED
    BY <1>1, <1>4, <1>5, <1>6, <1>7, <1>8, <1>9

\* The actions of the event thread and of the asynchronous thread.
LEMMA EventsStep ==
    ASSUME WriterInvariant, Events
    PROVE  Stepped
<1>1. Sound(writer) /\ Owes(writer, owed) /\ base \in [Readers -> Nat]
    BY DEF WriterInvariant, ReadersOK
<1>2. ASSUME NEW wr, Handle(wr), Checked(writer, wr, owed), UNCHANGED <<base, owed>>
      PROVE  Stepped
    <2>1. owed' \subseteq owed /\ Checked(writer, wr, owed') /\ base' \in [Readers -> Nat]
        BY <1>1, <1>2
    <2> QED
        BY <1>2, <2>1, HandleStep
<1>3. ASSUME NEW wr, Handle(wr), owed' \subseteq owed, Quiet(writer, wr, owed'), UNCHANGED base
      PROVE  Stepped
    <2>1. Checked(writer, wr, owed') /\ base' \in [Readers -> Nat]
        BY <1>1, <1>3, QuietIsChecked
    <2> QED
        BY <1>3, <2>1, HandleStep
<1>4. CASE periodic_hb_event
    <2>1. Checked(writer, send_periodic_heartbeat(writer), owed)
        BY <1>1, PeriodicStep, QuietIsChecked
    <2>2. Handle(send_periodic_heartbeat(writer)) /\ UNCHANGED <<base, owed>>
        BY <1>4 DEF periodic_hb_event
    <2> QED
        BY <1>2, <2>1, <2>2
<1>5. CASE nack_response_event
    <2>1. Checked(writer, perform_nack_response(writer), owed)
        BY <1>1, ResponseStep, QuietIsChecked
    <2>2. Handle(perform_nack_response(writer)) /\ UNCHANGED <<base, owed>>
        BY <1>5 DEF nack_response_event
    <2> QED
        BY <1>2, <2>1, <2>2
<1>6. ASSUME NEW r \in Readers, nack_supression_event(r)
      PROVE  Stepped
    <2>1. Checked(writer, perform_nack_supression(writer, r), owed)
        BY <1>1, SupressionStep, QuietIsChecked
    <2>2. Handle(perform_nack_supression(writer, r)) /\ UNCHANGED <<base, owed>>
        BY <1>6 DEF nack_supression_event
    <2> QED
        BY <1>2, <2>1, <2>2
<1>7. CASE ack_event
    <2>1. /\ writer.ack_event /\ Handle(ack_timer_expired(writer)) /\ UNCHANGED base
          /\ owed' = {p \in owed : p[1] \in writer.qos.no_positive_acks =>
                                        p[2] > writer.last_sequence_number}
        BY <1>7 DEF ack_event
    <2>2. owed' \subseteq owed
        BY <2>1
    <2>3. /\ Sound(writer) /\ Owes(writer, owed')
          /\ \A p \in owed' : p[1] \in writer.qos.no_positive_acks =>
                                p[2] > writer.last_sequence_number
        BY <2>1, <2>2, OwedLess
    <2>4. Quiet(writer, ack_timer_expired(writer), owed')
        BY <2>1, <2>3, AckTimerStep
    <2> QED
        BY <1>3, <2>1, <2>2, <2>4
<1>8. CASE lifespan_timer
    <2>1. PICK n \in writer.history : /\ Handle(lifespan_expired(writer, n)) /\ UNCHANGED base
                                      /\ owed' = {p \in owed : p[2] > n}
        BY <1>8 DEF lifespan_timer
    <2>2. owed' \subseteq owed /\ \A p \in owed' : p[2] > n
        BY <2>1
    <2>3. Sound(writer) /\ Owes(writer, owed')
        BY <2>2, OwedLess
    <2>4. Quiet(writer, lifespan_expired(writer, n), owed')
        BY <2>2, <2>3, LifespanStep
    <2> QED
        BY <1>3, <2>1, <2>2, <2>4
<1>9. CASE async_thread
    <2>1. PICK upto, buffer_full : Handle(send_any_unsent_changes(writer, upto, buffer_full))
        BY <1>9 DEF async_thread
    <2>2. Checked(writer, send_any_unsent_changes(writer, upto, buffer_full), owed)
        BY <1>1, SendStep
    <2>3. UNCHANGED <<base, owed>>
        BY <1>9 DEF async_thread
    <2> QED
        BY <1>2, <2>1, <2>2, <2>3
<1> QED
    BY <1>4, <1>5, <1>6, <1>7, <1>8, <1>9 DEF Events

\* The messages of the readers.
LEMMA MessagesStep ==
    ASSUME WriterInvariant, Messages
    PROVE  Stepped
<1>1. /\ Sound(writer) /\ Owes(writer, owed) /\ base \in [Readers -> Nat]
      /\ writer.last_seq \in Nat
      /\ \A r \in Readers : heard[r].last \in Nat /\ heard[r].last <= writer.last_seq
    BY DEF WriterInvariant, ReadersOK, Bounded, Sound, Typed
<1>2. ASSUME NEW r \in Readers, acknack(r)
      PROVE  Stepped
    <2>1. PICK first \in base[r] .. (heard[r].last + 1), final \in BOOLEAN :
            \E list \in SUBSET (first .. heard[r].last) :
                /\ Handle(process_acknack(writer, r, [base |-> first, list |-> list, final |-> final]))
                /\ base' = [base EXCEPT ![r] = first]
                /\ owed' = {p \in owed : p[1] = r => p[2] >= first}
        BY <1>2, Zenon DEF acknack
    <2>2. PICK list :
                /\ Handle(process_acknack(writer, r, [base |-> first, list |-> list, final |-> final]))
                /\ base' = [base EXCEPT ![r] = first]
                /\ owed' = {p \in owed : p[1] = r => p[2] >= first}
        BY <2>1
    <2>3. first \in Nat /\ first \in 0 .. (writer.last_seq + 1)
        <3>1. base[r] \in Nat /\ heard[r].last \in Nat /\ heard[r].last <= writer.last_seq
            BY <1>1
        <3> QED
            BY <1>1, <3>1
    <2>4. PICK ack : ack = [base |-> first, list |-> list, final |-> final]
        BY Zenon
    <2>5. ack.base = first /\ ack.final \in BOOLEAN
        BY <2>4
    <2>6. owed' \subseteq owed /\ \A p \in owed' : p[1] = r => p[2] >= ack.base
        BY <2>2, <2>5
    <2>7. Sound(writer) /\ Owes(writer, owed')
        BY <2>6, OwedLess
    <2>8. writer.matched_readers[r].is_active /\ writer.matched_readers[r].is_reliable
        BY <1>2 DEF acknack, Audience, MatchedReaders
    <2>9. ack.base \in 0 .. (writer.last_seq + 1)
        BY <2>3, <2>5
    <2>10. Checked(writer, process_acknack(writer, r, ack), owed')
        BY <2>5, <2>6, <2>7, <2>8, <2>9, AcknackStep
    <2>11. Handle(process_acknack(writer, r, ack)) /\ base' \in [Readers -> Nat]
        BY <1>1, <2>2, <2>3, <2>4
    <2> QED
        BY <2>6, <2>10, <2>11, HandleStep
<1>3. ASSUME NEW r \in Readers, initial_acknack(r)
      PROVE  Stepped
    <2>1. PICK ack : ack = [base |-> 0, list |-> {}, final |-> FALSE]
        BY Zenon
    <2>2. Handle(process_acknack(writer, r, ack)) /\ UNCHANGED <<base, owed>>
        BY <1>3, <2>1 DEF initial_acknack
    <2>3. ack.base = 0 /\ ack.final \in BOOLEAN
        BY <2>1
    <2>4. writer.matched_readers[r].is_active /\ writer.matched_readers[r].is_reliable
        BY <1>3 DEF initial_acknack, Audience, MatchedReaders
    <2>5. ack.base \in 0 .. (writer.last_seq + 1)
        BY <1>1, <2>3
    <2>6. \A p \in owed : p[1] = r => p[2] >= ack.base
        <3>1. \A p \in owed : p[2] \in Nat
            BY <1>1 DEF Owes
        <3> QED
            BY <2>3, <3>1
    <2>7. Checked(writer, process_acknack(writer, r, ack), owed)
        BY <1>1, <2>3, <2>4, <2>5, <2>6, AcknackStep
    <2>8. owed' \subseteq owed /\ Checked(writer, process_acknack(writer, r, ack), owed')
          /\ base' \in [Readers -> Nat]
        BY <1>1, <2>2, <2>7
    <2> QED
        BY <2>2, <2>8, HandleStep
<1>4. ASSUME NEW r \in Readers, nackfrag(r)
      PROVE  Stepped
    <2>1. PICK n : Handle(process_nack_frag(writer, r, n))
        BY <1>4 DEF nackfrag
    <2>2. Checked(writer, process_nack_frag(writer, r, n), owed)
        BY <1>1, NackFragStep, QuietIsChecked
    <2>3. UNCHANGED <<base, owed>>
        BY <1>4 DEF nackfrag
    <2>4. owed' \subseteq owed /\ Checked(writer, process_nack_frag(writer, r, n), owed')
          /\ base' \in [Readers -> Nat]
        BY <1>1, <2>2, <2>3
    <2> QED
        BY <2>1, <2>4, HandleStep
<1> QED
    BY <1>2, <1>3, <1>4 DEF Messages

\* Discovery.
LEMMA MatchingStep ==
    ASSUME WriterInvariant, Matching
    PROVE  Stepped
<1>1. Sound(writer) /\ Owes(writer, owed) /\ base \in [Readers -> Nat]
    BY DEF WriterInvariant, ReadersOK
<1>2. ASSUME NEW r \in Readers, match(r)
      PROVE  Stepped
    <2>1. Handle(matched_reader_add(writer, r)) /\ base' = [base EXCEPT ![r] = 1] /\ owed' = owed
          /\ ~writer.matched_readers[r].is_active
        BY <1>2 DEF match
    <2>2. Checked(writer, matched_reader_add(writer, r), owed)
        BY <1>1, <2>1, MatchStep, QuietIsChecked
    <2>3. owed' \subseteq owed /\ Checked(writer, matched_reader_add(writer, r), owed')
          /\ base' \in [Readers -> Nat]
        BY <1>1, <2>1, <2>2
    <2> QED
        BY <2>1, <2>3, HandleStep
<1>3. ASSUME NEW r \in Readers, unmatch(r)
      PROVE  Stepped
    <2>1. Handle(matched_reader_remove(writer, r)) /\ base' = [base EXCEPT ![r] = 1]
          /\ owed' = {p \in owed : p[1] # r}
        BY <1>3 DEF unmatch
    <2>2. owed' \subseteq owed /\ \A p \in owed' : p[1] # r
        BY <2>1
    <2>3. Sound(writer) /\ Owes(writer, owed')
        BY <2>2, OwedLess
    <2>4. Checked(writer, matched_reader_remove(writer, r), owed')
        BY <2>2, <2>3, UnmatchStep, QuietIsChecked
    <2>5. base' \in [Readers -> Nat]
        BY <1>1, <2>1
    <2> QED
        BY <2>1, <2>2, <2>4, <2>5, HandleStep
<1>4. CASE unmatched
    <2>1. Handle(check_acked_status(writer)) /\ UNCHANGED <<base, owed>>
        BY <1>4 DEF unmatched
    <2>2. Checked(writer, check_acked_status(writer), owed)
        BY <1>1, CheckStep
    <2>3. owed' \subseteq owed /\ Checked(writer, check_acked_status(writer), owed')
          /\ base' \in [Readers -> Nat]
        BY <1>1, <2>1, <2>2
    <2> QED
        BY <2>1, <2>3, HandleStep
<1> QED
    BY <1>2, <1>3, <1>4, Zenon DEF Matching

----------------------------------------------------------------------------
(* The invariant.                                                          *)

\* A writer that has just been created.
LEMMA InitStep == Init => WriterInvariant
<1> SUFFICES ASSUME Init PROVE WriterInvariant
    OBVIOUS
<1>1. PICK qos \in Configurations : writer = created(qos)
    BY DEF Init
<1>2. /\ DOMAIN writer = Fields /\ writer.qos = qos /\ writer.last_seq = 0 /\ writer.history = {}
      /\ writer.matched_readers = [r \in Readers |-> stopped]
      /\ writer.next_all_acked = 1 /\ writer.last_sequence_number = 0
      /\ writer.ack_event = FALSE /\ writer.async_pending = FALSE
      /\ writer.nack_response = FALSE /\ writer.periodic_hb = FALSE
      /\ writer.all_acked = FALSE /\ writer.isHistoryFull = FALSE
      /\ writer.may_remove_change = 0 /\ writer.out = {}
    BY <1>1 DEF created, Fields
<1>3. stopped \in ReaderProxyState /\ stopped.changes = {} /\ stopped.low_mark = 0
      /\ ~stopped.is_active
    BY DEF stopped, ReaderProxyState
<1>4. Typed(writer)
    <2>1. writer.matched_readers \in [Readers -> ReaderProxyState]
        BY <1>2, <1>3
    <2>2. writer.ack_event \in BOOLEAN /\ writer.async_pending \in BOOLEAN
          /\ writer.nack_response \in BOOLEAN /\ writer.periodic_hb \in BOOLEAN
          /\ writer.all_acked \in BOOLEAN /\ writer.isHistoryFull \in BOOLEAN
        BY <1>2, Zenon
    <2>3. /\ writer.next_all_acked \in 0 .. (writer.last_seq + 1)
          /\ writer.last_sequence_number \in 0 .. (writer.last_seq + 1)
          /\ writer.last_seq \in Nat /\ writer.may_remove_change \in 0 .. 2
          /\ writer.history \in SUBSET (1 .. writer.last_seq)
        BY <1>2
    <2> QED
        BY <1>2, <2>1, <2>2, <2>3 DEF Typed, OutOK
<1>5. ASSUME NEW r \in Readers PROVE InOrder(writer, r)
    <2>1. writer.matched_readers[r] = stopped
        BY <1>2
    <2> QED
        BY <1>2, <1>3, <2>1 DEF InOrder, ProxyOK, Timely
<1>6. Owes(writer, owed)
    BY DEF Init, Owes
<1>7. ThreadsOK
    BY DEF Init, ThreadsOK, Idle, ThreadFields
<1>8. ReadersOK
    BY <1>2 DEF Init, ReadersOK, Bounded
<1> QED
    BY <1>4, <1>5, <1>6, <1>7, <1>8 DEF WriterInvariant, Sound

\* Every step is one of the two kinds and preserves the invariant.
LEMMA NextStep == WriterInvariant /\ [Next]_vars => Stepped
<1> SUFFICES ASSUME WriterInvariant, [Next]_vars PROVE Stepped
    OBVIOUS
<1>1. CASE UNCHANGED vars
    <2>1. UNCHANGED <<writer, thread, heard, base, owed>>
        BY <1>1 DEF vars
    <2>2. ThreadsOK' /\ ReadersOK'
        BY <2>1 DEF WriterInvariant, ThreadsOK, ReadersOK
    <2>3. WriterInvariant'
        BY <2>1, <2>2 DEF WriterInvariant
    <2>4. Checked(writer, writer', owed')
        BY <2>1, AfterNothing DEF WriterInvariant, Checked, Told
    <2>5. Witnessed
        BY <2>1 DEF Witnessed
    <2> QED
        BY <2>1, <2>3, <2>4, <2>5 DEF Stepped, HandledStep
<1>2. CASE Next
    BY <1>2, UserStep, EventsStep, MessagesStep, MatchingStep DEF Next
<1> QED
    BY <1>1, <1>2

\* The writer's records agree in every reachable state: the proxies hold changes
\* of the history only, and among them whatever is owed to their readers.
THEOREM WriterIsSound == Spec => []WriterInvariant
<1>1. Init => WriterInvariant
    BY InitStep
<1>2. WriterInvariant /\ [Next]_vars => WriterInvariant'
    BY NextStep DEF Stepped
<1> QED
    BY <1>1, <1>2, PTL DEF Spec

\* A proxy holds each change once, in the history and above its low mark, so
\* that the sending loops never follow a dangling pointer and the assertion of
\* ReaderProxy::add_change holds.
THEOREM ProxiesAreInOrder == Spec => []ProxiesMatchHistory
<1>1. ASSUME WriterInvariant PROVE ProxiesMatchHistory
    <2> SUFFICES ASSUME NEW r \in Readers
                 PROVE  LET rp == writer.matched_readers[r]
                        IN  /\ Numbers(rp) \subseteq {n \in writer.history : n > rp.low_mark}
                            /\ Cardinality(Numbers(rp)) = Cardinality(rp.changes)
                            /\ rp.low_mark <= writer.last_seq
        BY DEF ProxiesMatchHistory, MatchedReaders
    <2>1. PICK rp : rp = writer.matched_readers[r]
        OBVIOUS
    <2>2. ProxyOK(rp, writer.history, writer.last_seq)
        BY <1>1, <2>1 DEF WriterInvariant, Sound, InOrder
    <2>3. writer.last_seq \in Nat /\ writer.history \subseteq 1 .. writer.last_seq
        BY <1>1 DEF WriterInvariant, Sound, Typed
    <2>4. rp.low_mark \in Nat /\ rp.low_mark <= writer.last_seq
        BY <2>2 DEF ProxyOK, ReaderProxyState
    <2>5. \A c \in rp.changes : c.seq \in writer.history /\ rp.low_mark < c.seq
        BY <2>2 DEF ProxyOK
    <2>6. Numbers(rp) \subseteq {n \in writer.history : n > rp.low_mark}
        <3> SUFFICES ASSUME NEW c \in rp.changes
                     PROVE  c.seq \in writer.history /\ c.seq > rp.low_mark
            BY DEF Numbers
        <3>1. c.seq \in writer.history /\ rp.low_mark < c.seq
            BY <2>5
        <3>2. c.seq \in Nat
            BY <2>3, <3>1
        <3> QED
            BY <2>4, <3>1, <3>2
    <2>7. Cardinality(Numbers(rp)) = Cardinality(rp.changes)
        <3> DEFINE f == [c \in rp.changes |-> c.seq]
                   T == Numbers(rp)
        <3>1. f \in [rp.changes -> T] /\ \A n \in T : \E c \in rp.changes : f[c] = n
            BY DEF Numbers
        <3>2. \A c, d \in rp.changes : f[c] = f[d] => c = d
            BY <2>2 DEF ProxyOK
        <3>3. IsFiniteSet(T)
            <4>1. T \in SUBSET (1 .. writer.last_seq)
                BY <2>3, <2>6
            <4>2. IsFiniteSet(1 .. writer.last_seq)
                BY <2>3, FS_Interval
            <4> QED
                BY <4>1, <4>2, FS_Subset, Zenon
        <3> HIDE DEF f, T
        <3>4. f \in Injection(rp.changes, T)
            BY <3>1, <3>2 DEF Injection, IsInjective
        <3>5. f \in Surjection(rp.changes, T)
            BY <3>1 DEF Surjection
        <3>6. Cardinality(rp.changes) = Cardinality(T)
            BY <3>3, <3>4, <3>5, FS_Injection
        <3> QED
            BY <3>6 DEF T
    <2> QED
        BY <2>1, <2>4, <2>6, <2>7
<1> QED
    BY <1>1, WriterIsSound, PTL

\* Whatever is owed and still in the history is held by the proxy of its reader,
\* above its low mark, whatever the order of writes, removals, acknowledgements
\* and matching.
THEOREM NothingIsOutOfReach == Spec => []OwedIsHeld
<1>1. ASSUME WriterInvariant PROVE OwedIsHeld
    <2> SUFFICES ASSUME NEW p \in owed, p[2] \in writer.history
                 PROVE  /\ p[2] \in Numbers(writer.matched_readers[p[1]])
                        /\ writer.matched_readers[p[1]].low_mark < p[2]
        BY DEF OwedIsHeld
    <2>1. p[2] \in Numbers(writer.matched_readers[p[1]]) /\ p[1] \in Readers
        BY <1>1 DEF WriterInvariant, Owes
    <2>2. ProxyOK(writer.matched_readers[p[1]], writer.history, writer.last_seq)
        BY <1>1, <2>1 DEF WriterInvariant, Sound, InOrder
    <2> QED
        BY <2>1, <2>2 DEF ProxyOK, Numbers
<1> QED
    BY <1>1, WriterIsSound, PTL

\* What a proxy waits for is on its way: the asynchronous thread is awake, the
\* response timer or the reader's suppression timer is armed.
THEOREM NothingIsForgotten == Spec => []PendingIsScheduled
<1>1. ASSUME WriterInvariant PROVE PendingIsScheduled
    <2> SUFFICES ASSUME NEW r \in Readers
                 PROVE  LET rp == writer.matched_readers[r]
                        IN  /\ WithStatus(rp, "UNSENT") # {} => writer.async_pending
                            /\ WithStatus(rp, "REQUESTED") # {} => writer.nack_response
                            /\ WithStatus(rp, "UNDERWAY") # {} => rp.nack_supression
        BY DEF PendingIsScheduled, MatchedReaders
    <2>1. Timely(writer.matched_readers[r], writer.async_pending, writer.nack_response)
        BY <1>1 DEF WriterInvariant, Sound, InOrder
    <2> QED
        BY <2>1 DEF Timely, WithStatus
<1> QED
    BY <1>1, WriterIsSound, PTL

\* wait_for_all_acked does not succeed by mistake: its flag is up only if nothing
\* was pending at some moment of the wait.
THEOREM WaitsEndRightly == Spec => []AllAckedIsTrue
<1>1. Init => AllAckedIsTrue
    BY DEF Init, AllAckedIsTrue, Idle
<1>2. ASSUME WriterInvariant, AllAckedIsTrue, [Next]_vars
      PROVE  AllAckedIsTrue'
    <2> SUFFICES ASSUME NEW t \in Threads, thread'[t].pc = "all_acked", writer'.all_acked
                 PROVE  thread'[t].settled
        BY DEF AllAckedIsTrue
    <2>1. Stepped
        BY <1>2, NextStep
    <2>2. thread[t].pc = "all_acked" /\ Witnessed
        <3>1. CASE HandledStep
            BY <3>1 DEF HandledStep
        <3>2. CASE \E u \in Threads : WrittenStep(u)
            <4>1. PICK u \in Threads : WrittenStep(u)
                BY <3>2
            <4>2. thread'[u].pc \in {"idle", "room", "ack"}
                BY <4>1 DEF WrittenStep, Piece
            <4>3. u # t
                BY <4>2
            <4> QED
                BY <4>1, <4>3 DEF WrittenStep
        <3> QED
            BY <2>1, <3>1, <3>2 DEF Stepped
    <2> QED
        BY <1>2, <2>2 DEF AllAckedIsTrue, Witnessed
<1> QED
    BY <1>1, <1>2, WriterIsSound, PTL DEF Spec

\* With one writing thread, a write that goes on because a change was removed
\* finds room, as add_pub_change asserts.
THEOREM RoomIsFound == Spec => []RoomIsKept
<1>1. Init => RoomIsKept
    BY DEF Init, RoomIsKept, Idle
<1>2. ASSUME WriterInvariant, RoomIsKept, [Next]_vars
      PROVE  RoomIsKept'
    <2> SUFFICES ASSUME NEW t \in Threads, ThreadsOf(writer'.qos) = {t},
                        thread'[t].pc = "room", writer'.may_remove_change = 2
                 PROVE  ~writer'.isHistoryFull
        BY DEF RoomIsKept
    <2>1. Stepped
        BY <1>2, NextStep
    <2>2. CASE HandledStep
        <3>1. writer'.qos = writer.qos /\ Roomy(writer, writer')
            BY <2>2 DEF HandledStep, Checked, After
        <3>2. thread[t].pc = "room"
            BY <2>2 DEF HandledStep
        <3> QED
            BY <1>2, <3>1, <3>2 DEF RoomIsKept, Roomy
    <2>3. CASE \E u \in Threads : WrittenStep(u)
        <3>1. PICK u \in Threads : WrittenStep(u)
            BY <2>3
        <3>2. writer'.qos = writer.qos /\ u \in ThreadsOf(writer.qos)
            BY <3>1 DEF WrittenStep, Piece
        <3>3. u = t
            BY <3>2
        <3>4. thread'[u].pc = "room" => writer'.may_remove_change = 0
            BY <3>1 DEF WrittenStep, Piece
        <3> QED
            BY <3>3, <3>4
    <2> QED
        BY <2>1, <2>2, <2>3 DEF Stepped
<1> QED
    BY <1>1, <1>2, WriterIsSound, PTL DEF Spec

\* A KEEP_ALL writer of VOLATILE durability is used by one thread.  (With two,
\* check_acked_status may empty the history and announce a removal that the
\* second thread's change then suffers.)
VolatileUsesOneThread ==
    \A qos \in Configurations :
        (qos.keep_all /\ qos.volatile) => \A t, u \in ThreadsOf(qos) : t = u

\* What was announced may still be removed when a thread that waits for room
\* takes it up.
KeepInvariant ==
    /\ Keeps(writer, owed)
    /\ (~writer.qos.volatile \/ \E t \in Threads : thread[t].pc = "room") => Ready(writer, owed)

\* KEEP_ALL: no change that a matched reliable reader has not acknowledged is
\* removed, unless it expires.
THEOREM KeepAllKeeps ==
    ASSUME VolatileUsesOneThread
    PROVE  Spec => []KeepAllIsReliable
<1>1. Init => KeepInvariant
    <2> SUFFICES ASSUME Init PROVE KeepInvariant
        OBVIOUS
    <2>1. owed = {} /\ writer.may_remove_change = 0
        BY DEF Init, created
    <2> QED
        BY <2>1 DEF KeepInvariant, Keeps, Ready
<1>2. ASSUME WriterInvariant, KeepInvariant, [Next]_vars
      PROVE  KeepInvariant'
    <2>1. Stepped
        BY <1>2, NextStep
    <2>2. Owes(writer, owed) /\ Keeps(writer, owed) /\ writer.qos \in Configurations
        BY <1>2, Zenon DEF WriterInvariant, KeepInvariant, Sound, Typed
    <2>3. CASE HandledStep
        <3>1. /\ owed' \in SUBSET owed /\ After(writer, writer', owed')
              /\ writer'.qos = writer.qos
            BY <2>3 DEF HandledStep, Checked, After
        <3>2. Keeps(writer, owed') /\ (Ready(writer, owed) => Ready(writer, owed'))
            BY <2>2, <3>1, OwesLess
        <3>3. Keeps(writer', owed') /\ (Ready(writer, owed') => Ready(writer', owed'))
            BY <3>1, <3>2 DEF After
        <3>4. \A t \in Threads : thread'[t].pc = "room" => thread[t].pc = "room"
            BY <2>3 DEF HandledStep
        <3>6. (~writer.qos.volatile \/ \E t \in Threads : thread[t].pc = "room") =>
                    Ready(writer, owed)
            BY <1>2 DEF KeepInvariant
        <3>5. (~writer'.qos.volatile \/ \E t \in Threads : thread'[t].pc = "room") =>
                    Ready(writer', owed')
            BY <3>1, <3>2, <3>3, <3>4, <3>6
        <3> QED
            BY <3>3, <3>5 DEF KeepInvariant
    <2>4. CASE \E t \in Threads : WrittenStep(t)
        <3>1. PICK t \in Threads : WrittenStep(t)
            BY <2>4
        <3>2. /\ owed' = Due(writer, writer', owed) /\ t \in ThreadsOf(writer.qos)
              /\ writer'.qos = writer.qos
              /\ thread'[t].pc = "room" => writer'.may_remove_change = 0
              /\ (thread[t].pc = "room" => Ready(writer, owed)) =>
                        KeepsPiece(writer, writer', owed)
              /\ \A u \in Threads \ {t} : thread'[u].pc = thread[u].pc
            BY <3>1, Zenon DEF WrittenStep, Piece
        <3>3. thread[t].pc = "room" => Ready(writer, owed)
            BY <1>2 DEF KeepInvariant
        <3>4. /\ Keeps(writer', owed')
              /\ Ready(writer, owed) /\ ~writer.qos.volatile => Ready(writer', owed')
            BY <2>2, <3>2, <3>3 DEF KeepsPiece
        <3>5. CASE ~writer.qos.volatile
            <4>1. Ready(writer', owed')
                BY <1>2, <3>4, <3>5 DEF KeepInvariant
            <4> QED
                BY <3>4, <4>1 DEF KeepInvariant
        <3>6. CASE writer.qos.volatile
            <4> SUFFICES ASSUME NEW u \in Threads, thread'[u].pc = "room", writer.qos.keep_all
                         PROVE  writer'.may_remove_change = 0
                BY <3>2, <3>4, <3>6 DEF KeepInvariant, Ready
            <4>1. u \in ThreadsOf(writer.qos)
                <5>1. ThreadsOK'
                    BY <2>1 DEF Stepped, WriterInvariant
                <5>2. u \notin ThreadsOf(writer'.qos) => thread'[u].pc = "idle"
                    BY <5>1 DEF ThreadsOK
                <5> QED
                    BY <3>2, <5>2
            <4>2. u = t
                BY <2>2, <3>2, <3>6, <4>1 DEF VolatileUsesOneThread
            <4> QED
                BY <3>2, <4>2
        <3> QED
            BY <3>5, <3>6
    <2> QED
        BY <2>1, <2>3, <2>4 DEF Stepped
<1>3. KeepInvariant => KeepAllIsReliable
    BY DEF KeepInvariant, Keeps, KeepAllIsReliable
<1> QED
    BY <1>1, <1>2, <1>3, WriterIsSound, PTL DEF Spec
=============================================================================
