---------------------------- MODULE WriterLemmas ----------------------------
(***************************************************************************)
(* What the methods of ReaderProxy and the pieces of the writer preserve,  *)
(* up to a whole write: the proxies follow the history, a change a reader  *)
(* still needs stays with its proxy, and a change that waits has a thread  *)
(* or a timer on its way.  WriterHandlerLemmas goes on with the other      *)
(* handlers.                                                               *)
(***************************************************************************)
EXTENDS PublisherHistory, WellFoundedInduction, TLAPS

\* A proxy between two calls, over history H with numbers up to last.
ProxyOK(rp, H, last) ==
    /\ rp \in ReaderProxyState
    /\ rp.low_mark <= last
    /\ \A c \in rp.changes : c.seq \in H /\ rp.low_mark < c.seq
    /\ \A c, d \in rp.changes : c.seq = d.seq => c = d
    /\ rp.is_reliable => \A c \in rp.changes : c.status # "ACKNOWLEDGED"
    /\ ~rp.is_active => rp.changes = {}

\* A change that waits to be sent has the asynchronous thread awake, a requested
\* one the response timer, one underway the suppression timer of its reader.
Timely(rp, async_pending, nack_response) ==
    \A c \in rp.changes :
        /\ c.status = "UNSENT" => async_pending
        /\ c.status = "REQUESTED" => nack_response
        /\ c.status = "UNDERWAY" => rp.nack_supression

\* The messages name numbers up to last only.
OutOK(out, last) ==
    \A m \in out :
        /\ m.type \in {"DATA", "HEARTBEAT", "GAP"}
        /\ m.type = "DATA" => m.seq \in 0 .. last
        /\ m.type = "GAP" => m.numbers \in SUBSET (0 .. last)
        /\ m.type = "HEARTBEAT" => m.first \in 0 .. (last + 1) /\ m.last \in 0 .. last

Fields ==
    {"qos", "matched_readers", "history", "keyed_changes", "isHistoryFull", "last_seq",
     "next_all_acked", "min_low_mark", "biggest_removed", "may_remove_change", "all_acked",
     "last_sequence_number", "periodic_hb", "nack_response", "ack_event", "async_pending",
     "notify", "out"}

\* wq is wr but for the fields of F.
SameBut(wr, wq, F) ==
    /\ DOMAIN wr = Fields /\ DOMAIN wq = Fields
    /\ \A f \in Fields \ F : wq[f] = wr[f]

----------------------------------------------------------------------------
(* Least and greatest numbers.                                             *)

\* Least and Greatest find what they are named for in a set of naturals, which
\* must have an upper bound for Greatest.
LEMMA LeastIs ==
    ASSUME NEW T \in SUBSET Nat, T # {}
    PROVE  Least(T) \in T /\ \A y \in T : Least(T) <= y
<1>1. IsWellFoundedOn(OpToRel(<, Nat), Nat)
    BY Zenon, NatLessThanWellFounded
<1>2. PICK x \in T : \A y \in T : ~(<<y, x>> \in OpToRel(<, Nat))
    BY Zenon, <1>1, WFMin
<1>3. ASSUME NEW y \in T, y < x
      PROVE  FALSE
    <2>1. <<y, x>> \in {ss \in Nat \X Nat : ss[1] < ss[2]}
        BY <1>3
    <2>2. <<y, x>> \in OpToRel(<, Nat)
        BY <2>1 DEF OpToRel
    <2> QED
        BY Zenon, <1>2, <2>2
<1>4. \A y \in T : x <= y
    BY <1>3
<1> QED
    BY <1>4, Zenon DEF Least

\* The same for the greatest number of a bounded set.
LEMMA GreatestIs ==
    ASSUME NEW T \in SUBSET Nat, T # {}, NEW k \in Nat, \A y \in T : y <= k
    PROVE  Greatest(T) \in T /\ \A y \in T : y <= Greatest(T)
<1> DEFINE Bounds == {b \in Nat : \A y \in T : y <= b}
           b == Least(Bounds)
<1>1. Bounds \in SUBSET Nat /\ Bounds # {}
    OBVIOUS
<1> HIDE DEF Bounds
<1>2. b \in Bounds /\ \A c \in Bounds : b <= c
    BY <1>1, LeastIs
<1> HIDE DEF b
<1>3. b \in Nat /\ \A y \in T : y <= b
    BY <1>2 DEF Bounds
<1>4. b \in T
    <2>1. SUFFICES ASSUME b \notin T PROVE FALSE
        OBVIOUS
    <2>2. PICK z \in T : TRUE
        BY Zenon
    <2>3. z <= b /\ z # b /\ z \in Nat
        BY <1>3, <2>1, <2>2
    <2>4. b - 1 \in Nat /\ \A y \in T : y <= b - 1
        BY <1>3, <2>1, <2>3
    <2>5. b - 1 \in Bounds
        BY <2>4 DEF Bounds
    <2> QED
        BY <1>2, <1>3, <2>5
<1>5. \E x \in T : \A y \in T : y <= x
    BY <1>3, <1>4
<1> QED
    BY <1>5, Zenon DEF Greatest

----------------------------------------------------------------------------
(* The methods of ReaderProxy.                                             *)

\* The QoS of the reader stays what it was when it was matched.
SameReader(rp, rq) ==
    /\ rq.is_active = rp.is_active /\ rq.is_reliable = rp.is_reliable
    /\ rq.is_volatile = rp.is_volatile
    /\ rq.disable_positive_acks = rp.disable_positive_acks

\* rq is a proxy in order for the same reader that holds what rp held of N.
Carries(rp, rq, H, last, N) ==
    /\ ProxyOK(rq, H, last)
    /\ SameReader(rp, rq)
    /\ Numbers(rp) \cap N \subseteq Numbers(rq)

\* rq is rp with the new status next for the changes of seqs that had a
\* status of previous.
Restates(rp, rq, seqs, previous, next, H, last) ==
    /\ Carries(rp, rq, H, last, Nat)
    /\ rq.low_mark = rp.low_mark
    /\ \A c \in rq.changes :
        \/ c.status = next
        \/ c \in rp.changes /\ ~(c.seq \in seqs /\ c.status \in previous)

\* Methods that only give changes a new status.
LEMMA RestatedCarries ==
    ASSUME NEW H, NEW last \in Nat, NEW rp, ProxyOK(rp, H, last),
           NEW seqs, NEW previous, NEW next \in ChangeForReaderStatus,
           rp.is_reliable => next # "ACKNOWLEDGED",
           NEW supression \in BOOLEAN,
           NEW rq, rq = [rp EXCEPT !.changes = Restated(rp.changes, seqs, previous, next),
                                   !.nack_supression = supression]
    PROVE  Restates(rp, rq, seqs, previous, next, H, last)
<1> DEFINE C == Restated(rp.changes, seqs, previous, next)
<1>1. rp \in ReaderProxyState /\ rp.changes \in SUBSET ChangeForReader
    BY DEF ProxyOK, ReaderProxyState
<1>2. ASSUME NEW d \in C
      PROVE  /\ d \in ChangeForReader
             /\ \E c \in rp.changes :
                    /\ d.seq = c.seq
                    /\ IF c.seq \in seqs /\ c.status \in previous THEN d.status = next ELSE d = c
    <2>1. PICK c \in rp.changes :
            d = IF c.seq \in seqs /\ c.status \in previous THEN [c EXCEPT !.status = next] ELSE c
        BY <1>2 DEF Restated
    <2>2. c \in ChangeForReader
        BY <1>1
    <2> QED
        BY <2>1, <2>2 DEF ChangeForReader
<1>3. \A c \in rp.changes : \E d \in C : d.seq = c.seq
    <2> SUFFICES ASSUME NEW c \in rp.changes
                 PROVE  \E d \in C : d.seq = c.seq
        OBVIOUS
    <2> DEFINE d == IF c.seq \in seqs /\ c.status \in previous
                    THEN [c EXCEPT !.status = next] ELSE c
    <2>1. d \in C
        BY DEF Restated
    <2>2. d.seq = c.seq
        BY <1>1 DEF ChangeForReader
    <2> QED
        BY <2>1, <2>2, Zenon
<1>4. ASSUME NEW d \in C, NEW e \in C, d.seq = e.seq
      PROVE  d = e
    <2>1. PICK c \in rp.changes :
                /\ d.seq = c.seq
                /\ IF c.seq \in seqs /\ c.status \in previous THEN d.status = next ELSE d = c
        BY <1>2
    <2>2. PICK b \in rp.changes :
                /\ e.seq = b.seq
                /\ IF b.seq \in seqs /\ b.status \in previous THEN e.status = next ELSE e = b
        BY <1>2
    <2>3. b = c
        BY <1>4, <2>1, <2>2, Zenon DEF ProxyOK
    <2>4. d \in ChangeForReader /\ e \in ChangeForReader
        BY <1>2
    <2> QED
        BY <1>4, <2>1, <2>2, <2>3, <2>4 DEF ChangeForReader
<1>5. /\ rq \in ReaderProxyState /\ rq.changes = C
      /\ rq.low_mark = rp.low_mark /\ rq.nack_supression = supression
      /\ SameReader(rp, rq)
    BY <1>1, <1>2, Zenon DEF ReaderProxyState, SameReader
<1> HIDE DEF C
<1>6. ProxyOK(rq, H, last)
    <2>1. \A c \in rq.changes : c.seq \in H /\ rq.low_mark < c.seq
        BY <1>2, <1>5 DEF ProxyOK
    <2>2. rq.is_reliable => \A c \in rq.changes : c.status # "ACKNOWLEDGED"
        BY <1>2, <1>5 DEF ProxyOK, SameReader
    <2>3. ~rq.is_active => rq.changes = {}
        BY <1>2, <1>5 DEF ProxyOK, SameReader
    <2> QED
        BY <1>4, <1>5, <2>1, <2>2, <2>3 DEF ProxyOK
<1>7. Numbers(rp) \subseteq Numbers(rq)
    BY <1>3, <1>5 DEF Numbers
<1> QED
    BY <1>2, <1>5, <1>6, <1>7 DEF Carries, Restates

\* NextUnacknowledged finds a number; for a reliable reader it is the base of
\* the ACKNACK, since the proxy keeps no acknowledged change.
LEMMA NextUnacknowledgedIs ==
    ASSUME NEW last \in Nat, NEW H \in SUBSET (1 .. last), NEW rp, ProxyOK(rp, H, last),
           NEW n \in 0 .. (last + 1)
    PROVE  /\ NextUnacknowledged(rp, n, last + 1) \in n .. (last + 1)
           /\ rp.is_reliable => NextUnacknowledged(rp, n, last + 1) = n
<1> DEFINE acked == {c.seq : c \in WithStatus(rp, "ACKNOWLEDGED")}
           T == {k \in n .. (last + 1) : k \notin acked}
<1>1. acked \in SUBSET H
    BY DEF ProxyOK, WithStatus
<1>2. rp.is_reliable => acked = {}
    BY DEF ProxyOK, WithStatus
<1>3. NextUnacknowledged(rp, n, last + 1) =
        CHOOSE k \in n .. (last + 1) : k \notin acked /\ \A m \in n .. (k - 1) : m \in acked
    BY DEF NextUnacknowledged
<1> HIDE DEF acked
<1>4. T \in SUBSET Nat /\ last + 1 \in T
    BY <1>1
<1>5. PICK k \in T : \A y \in T : k <= y
    BY <1>4, LeastIs, Zenon
<1>6. k \in n .. (last + 1) /\ k \notin acked /\ \A m \in n .. (k - 1) : m \in acked
    BY <1>5
<1> HIDE DEF T
<1> DEFINE f == NextUnacknowledged(rp, n, last + 1)
<1>7. f \in n .. (last + 1) /\ f \notin acked /\ \A m \in n .. (f - 1) : m \in acked
    BY <1>3, <1>6
<1> HIDE DEF f
<1>8. rp.is_reliable => f = n
    BY <1>2, <1>7
<1> QED
    BY <1>7, <1>8 DEF f

\* What acked_changes_set does to the proxy of a matched reader.
Acked(rp, rq, n, H, last) ==
    /\ Carries(rp, rq, H, last, IF rp.is_reliable THEN {m \in Nat : n <= m} ELSE {})
    /\ rq.nack_supression = rp.nack_supression
    /\ \A c \in rq.changes : c \in rp.changes \/ c.status = "UNACKNOWLEDGED"
    /\ (n > 0 \/ rp.is_volatile \/ \A m \in H : rp.low_mark < m) => rq.changes \subseteq rp.changes

\* A base above the low mark.
LEMMA AckedAbove ==
    ASSUME NEW last \in Nat, NEW H \in SUBSET (1 .. last), NEW rp, ProxyOK(rp, H, last),
           NEW n \in 0 .. (last + 1), n > rp.low_mark
    PROVE  Acked(rp, acked_changes_set(rp, n, H, last + 1), n, H, last)
<1> DEFINE future == NextUnacknowledged(rp, n, last + 1)
           rq == [rp EXCEPT !.changes = {c \in rp.changes : c.seq >= future},
                            !.low_mark = future - 1]
<1>1. future \in n .. (last + 1) /\ (rp.is_reliable => future = n)
    BY NextUnacknowledgedIs
<1>2. rp \in ReaderProxyState /\ rp.low_mark \in Nat /\ rp.changes \in SUBSET ChangeForReader
    BY DEF ProxyOK, ReaderProxyState
<1>3. acked_changes_set(rp, n, H, last + 1) = rq
    BY <1>2 DEF acked_changes_set
<1> HIDE DEF future
<1>4. future \in Nat /\ future - 1 \in Nat /\ future - 1 <= last
    BY <1>1, <1>2
<1>5. /\ rq \in ReaderProxyState /\ rq.changes = {c \in rp.changes : c.seq >= future}
      /\ rq.low_mark = future - 1 /\ rq.nack_supression = rp.nack_supression
      /\ SameReader(rp, rq)
    BY <1>2, <1>4, Zenon DEF ReaderProxyState, SameReader
<1> HIDE DEF rq
<1>6. \A c \in rp.changes : c.seq \in Nat
    BY <1>2 DEF ChangeForReader
<1>7. ProxyOK(rq, H, last)
    BY <1>4, <1>5, <1>6 DEF ProxyOK, SameReader
<1>8. rp.is_reliable => Numbers(rp) \cap {m \in Nat : n <= m} \subseteq Numbers(rq)
    BY <1>1, <1>4, <1>5 DEF Numbers
<1> QED
    BY <1>3, <1>5, <1>7, <1>8 DEF Acked, Carries

\* Base 0: a reader that is not volatile starts again.
LEMMA AckedFromTheStart ==
    ASSUME NEW last \in Nat, NEW H \in SUBSET (1 .. last), NEW rp, ProxyOK(rp, H, last),
           rp.is_active, ~rp.is_volatile
    PROVE  Acked(rp, acked_from_the_start(rp, H, last + 1), 0, H, last)
<1> DEFINE back == {m \in H : m <= rp.low_mark /\ m \notin Numbers(rp)}
           again == {[seq |-> m, status |-> "UNACKNOWLEDGED"] : m \in back}
           rq == acked_from_the_start(rp, H, last + 1)
<1>1. rp \in ReaderProxyState /\ rp.low_mark \in Nat /\ rp.changes \in SUBSET ChangeForReader
    BY DEF ProxyOK, ReaderProxyState
<1>2. CASE H = {}
    <2>1. rq = [rp EXCEPT !.low_mark = last]
        BY <1>2 DEF acked_from_the_start
    <2> HIDE DEF rq
    <2>2. rp.changes = {}
        BY <1>2 DEF ProxyOK
    <2>3. /\ rq \in ReaderProxyState /\ rq.changes = rp.changes /\ rq.low_mark = last
          /\ rq.nack_supression = rp.nack_supression /\ SameReader(rp, rq)
        BY <1>1, <2>1, Zenon DEF ReaderProxyState, SameReader
    <2> QED
        BY <2>2, <2>3 DEF Acked, Carries, ProxyOK, Numbers, rq
<1>3. CASE H # {}
    <2> DEFINE low == Least(H) - 1
    <2>1. Least(H) \in H /\ \A m \in H : Least(H) <= m
        BY <1>3, LeastIs
    <2>2. rq = [rp EXCEPT !.low_mark = low, !.changes = rp.changes \cup again]
        BY <1>3 DEF acked_from_the_start
    <2>20. \A m \in H : m \in Nat /\ 1 <= m /\ m <= last
        OBVIOUS
    <2>3. low \in Nat /\ low <= last /\ \A m \in H : low < m
        <3> DEFINE l == Least(H)
        <3>1. l \in Nat /\ 1 <= l /\ l <= last /\ \A m \in H : l <= m
            BY <2>1, <2>20, Zenon
        <3> HIDE DEF l
        <3>2. l - 1 \in Nat /\ l - 1 <= last
            BY <3>1
        <3>3. \A m \in H : l - 1 < m
            BY <2>20, <3>1
        <3> QED
            BY <3>2, <3>3 DEF l
    <2>4. again \in SUBSET ChangeForReader
        BY DEF ChangeForReader, ChangeForReaderStatus
    <2>5. \A c \in again : c.seq \in back /\ c.status = "UNACKNOWLEDGED"
        OBVIOUS
    <2>6. \A c, d \in again : c.seq = d.seq => c = d
        OBVIOUS
    <2> HIDE DEF again, rq, low
    <2>7. /\ rq \in ReaderProxyState /\ rq.changes = rp.changes \cup again /\ rq.low_mark = low
          /\ rq.nack_supression = rp.nack_supression /\ SameReader(rp, rq)
        BY <1>1, <2>2, <2>3, <2>4, Zenon DEF ReaderProxyState, SameReader
    <2>8. \A c \in again : c.seq \in H /\ c.seq <= rp.low_mark /\ c.seq \notin Numbers(rp)
        BY <2>5
    <2>9. ProxyOK(rq, H, last)
        <3>1. \A c \in rq.changes : c.seq \in H
            BY <2>7, <2>8 DEF ProxyOK
        <3>2. \A c \in rq.changes : rq.low_mark < c.seq
            BY <2>3, <2>7, <3>1, Zenon
        <3>3. \A c, d \in rq.changes : c.seq = d.seq => c = d
            BY <2>7, <2>8, <2>6 DEF ProxyOK, Numbers
        <3> QED
            BY <2>3, <2>5, <2>7, <3>1, <3>2, <3>3 DEF ProxyOK, SameReader
    <2>10. Numbers(rp) \subseteq Numbers(rq)
        BY <2>7 DEF Numbers
    <2>11. (\A m \in H : rp.low_mark < m) => again = {}
        <3> SUFFICES ASSUME \A m \in H : rp.low_mark < m, NEW c \in again
                     PROVE  FALSE
            OBVIOUS
        <3>1. c.seq \in Nat /\ c.seq <= rp.low_mark /\ rp.low_mark < c.seq
            BY <2>8, <2>20, Zenon
        <3> QED
            BY <1>1, <3>1
    <2> QED
        BY <2>5, <2>7, <2>9, <2>10, <2>11 DEF Acked, Carries, rq
<1> QED
    BY <1>2, <1>3

\* ReaderProxy::acked_changes_set.
LEMMA AckedCarries ==
    ASSUME NEW last \in Nat, NEW H \in SUBSET (1 .. last), NEW rp, ProxyOK(rp, H, last),
           rp.is_active, NEW n \in 0 .. (last + 1)
    PROVE  Acked(rp, acked_changes_set(rp, n, H, last + 1), n, H, last)
<1>1. rp \in ReaderProxyState /\ rp.low_mark \in Nat /\ rp.is_volatile \in BOOLEAN
    BY DEF ProxyOK, ReaderProxyState
<1>2. CASE n > rp.low_mark
    BY <1>2, AckedAbove
<1>3. CASE n <= rp.low_mark /\ n = 0 /\ ~rp.is_volatile
    <2>1. acked_changes_set(rp, n, H, last + 1) = acked_from_the_start(rp, H, last + 1)
        BY <1>1, <1>3 DEF acked_changes_set
    <2> QED
        BY <1>3, <2>1, AckedFromTheStart
<1>4. CASE n <= rp.low_mark /\ (n # 0 \/ rp.is_volatile)
    <2>1. acked_changes_set(rp, n, H, last + 1) = rp
        BY <1>1, <1>4 DEF acked_changes_set
    <2> QED
        BY <2>1, Zenon DEF Acked, Carries, SameReader
<1> QED
    BY <1>1, <1>2, <1>3, <1>4

\* ReaderProxy::change_has_been_removed.
LEMMA RemovedCarries ==
    ASSUME NEW H, NEW last, NEW rp, ProxyOK(rp, H, last), NEW S,
           NEW rq, rq = change_has_been_removed(rp, S)
    PROVE  /\ Carries(rp, rq, H \ S, last, Nat \ S)
           /\ rq.low_mark = rp.low_mark /\ rq.nack_supression = rp.nack_supression
           /\ rq.changes \subseteq rp.changes
<1>1. rp \in ReaderProxyState /\ rp.changes \in SUBSET ChangeForReader
    BY DEF ProxyOK, ReaderProxyState
<1>2. /\ rq \in ReaderProxyState /\ rq.changes = {c \in rp.changes : c.seq \notin S}
      /\ rq.low_mark = rp.low_mark /\ rq.nack_supression = rp.nack_supression
      /\ SameReader(rp, rq)
    BY <1>1 DEF change_has_been_removed, ReaderProxyState, SameReader
<1>3. ProxyOK(rq, H \ S, last)
    BY <1>2 DEF ProxyOK, SameReader
<1>4. Numbers(rp) \cap (Nat \ S) \subseteq Numbers(rq)
    BY <1>2 DEF Numbers
<1> QED
    BY <1>2, <1>3, <1>4 DEF Carries

\* rq is rp with the new change n in the given status.
Added(rp, rq, status, H, n) ==
    /\ Carries(rp, rq, H, n, Nat)
    /\ rp.nack_supression => rq.nack_supression
    /\ \A c \in rq.changes : c \in rp.changes \/ c.status = status
    /\ rp.is_reliable => n \in Numbers(rq)

\* ReaderProxy::add_change, for the change after the last one.
LEMMA AddedCarries ==
    ASSUME NEW last \in Nat, NEW H \in SUBSET (1 .. last), NEW rp, ProxyOK(rp, H, last),
           rp.is_active, NEW status \in ChangeForReaderStatus,
           rp.is_reliable => status # "ACKNOWLEDGED", NEW n, n = last + 1
    PROVE  Added(rp, add_change(rp, n, status, TRUE), status, H \cup {n}, n)
<1> DEFINE new == [seq |-> n, status |-> status]
           rq == add_change(rp, n, status, TRUE)
<1>0. n \in Nat /\ n \in Nat \ {0} /\ last < n /\ n <= n
    OBVIOUS
<1>1. rp \in ReaderProxyState /\ rp.low_mark \in Nat /\ rp.changes \in SUBSET ChangeForReader
    BY DEF ProxyOK, ReaderProxyState
<1>4. rq = add_change(rp, n, status, TRUE)
    OBVIOUS
<1> HIDE DEF rq
<1> SUFFICES /\ Carries(rp, rq, H \cup {n}, n, Nat)
             /\ rq.nack_supression = rp.nack_supression
             /\ \A c \in rq.changes : c \in rp.changes \/ c.status = status
             /\ rp.is_reliable => n \in Numbers(rq) /\ rq.low_mark = rp.low_mark
    BY <1>4, Zenon DEF Added
<1>5. \A m \in H : m \in Nat /\ m < n
    OBVIOUS
<1>6. rp.low_mark < n /\ rp.low_mark <= n
    BY <1>1 DEF ProxyOK
<1>2. CASE rp.changes = {} /\ status = "ACKNOWLEDGED"
    <2>1. /\ rq \in ReaderProxyState /\ rq.changes = {} /\ rq.low_mark = n
          /\ rq.nack_supression = rp.nack_supression /\ SameReader(rp, rq)
        BY <1>0, <1>1, <1>2, <1>4, Zenon DEF add_change, ReaderProxyState, SameReader
    <2>2. ProxyOK(rq, H \cup {n}, n)
        BY <1>0, <2>1 DEF ProxyOK
    <2> QED
        BY <1>2, <2>1, <2>2 DEF Carries, Numbers
<1>3. CASE ~(rp.changes = {} /\ status = "ACKNOWLEDGED")
    <2>1. new \in ChangeForReader /\ new.seq = n /\ new.status = status
        BY <1>0 DEF ChangeForReader
    <2>2. rq = [rp EXCEPT !.changes = rp.changes \cup {new}]
        BY <1>3, <1>4 DEF add_change
    <2> HIDE DEF new
    <2>3. /\ rq \in ReaderProxyState /\ rq.changes = rp.changes \cup {new}
          /\ rq.low_mark = rp.low_mark
          /\ rq.nack_supression = rp.nack_supression /\ SameReader(rp, rq)
        BY <1>1, <2>1, <2>2, Zenon DEF ReaderProxyState, SameReader
    <2>4. \A c \in rp.changes : c.seq # n
        BY <1>0, <1>5 DEF ProxyOK
    <2>6. \A c, d \in rq.changes : c.seq = d.seq => c = d
        <3> SUFFICES ASSUME NEW c \in rq.changes, NEW d \in rq.changes, c.seq = d.seq
                     PROVE  c = d
            OBVIOUS
        <3>1. (c \in rp.changes \/ c = new) /\ (d \in rp.changes \/ d = new)
            BY <2>3
        <3>2. CASE c \in rp.changes /\ d \in rp.changes
            BY <3>2 DEF ProxyOK
        <3> QED
            BY <2>1, <2>4, <3>1, <3>2
    <2>7. \A c \in rq.changes : c.seq \in H \cup {n} /\ rq.low_mark < c.seq
        BY <2>1, <2>3, <1>6 DEF ProxyOK
    <2>8. ProxyOK(rq, H \cup {n}, n)
        BY <2>1, <2>3, <1>6, <2>6, <2>7 DEF ProxyOK, SameReader
    <2>9. Numbers(rp) \subseteq Numbers(rq) /\ n \in Numbers(rq)
        BY <2>1, <2>3 DEF Numbers
    <2> QED
        BY <2>1, <2>3, <2>8, <2>9 DEF Carries
<1> QED
    BY <1>2, <1>3

\* The proxy of a reader that has just been matched.
Started(rp, reliable, no_positive_acks, H, last) ==
    /\ rp \in ReaderProxyState
    /\ rp.is_active /\ rp.is_reliable = reliable /\ rp.disable_positive_acks = no_positive_acks
    /\ rp.changes = {} /\ rp.low_mark <= last /\ \A m \in H : rp.low_mark < m

\* ReaderProxy::start: the low mark is just below the history.
LEMMA StartIs ==
    ASSUME NEW last \in Nat, NEW H \in SUBSET (1 .. last),
           NEW reliable \in BOOLEAN, NEW volatile \in BOOLEAN, NEW no_positive_acks \in BOOLEAN,
           NEW next, next = last + 1,
           NEW rp, rp = start(reliable, volatile, no_positive_acks, H, next)
    PROVE  Started(rp, reliable, no_positive_acks, H, last)
<1> USE DEF Started
<1> DEFINE low == IF H = {} THEN last ELSE Least(H) - 1
           fresh == [stopped EXCEPT !.is_active = TRUE, !.is_reliable = reliable,
                                    !.is_volatile = volatile,
                                    !.disable_positive_acks = no_positive_acks]
<1>1. low \in Nat /\ low <= last /\ \A m \in H : low < m
    <2>1. CASE H = {}
        BY <2>1
    <2>2. CASE H # {}
        <3> DEFINE l == Least(H)
        <3>1. \A m \in H : m \in Nat /\ 1 <= m /\ m <= last
            OBVIOUS
        <3>2. l \in H /\ \A m \in H : l <= m
            BY <2>2, LeastIs
        <3>3. low = l - 1
            BY <2>2, Zenon
        <3> HIDE DEF l, low
        <3>4. low \in Nat /\ low <= last
            BY <3>1, <3>2, <3>3
        <3> QED
            BY <3>1, <3>2, <3>3, <3>4
    <2> QED
        BY <2>1, <2>2
<1>2. /\ fresh \in ReaderProxyState /\ fresh.is_active /\ fresh.is_reliable = reliable
      /\ fresh.is_volatile = volatile /\ fresh.disable_positive_acks = no_positive_acks
      /\ fresh.low_mark = 0 /\ fresh.changes = {} /\ fresh.nack_supression = FALSE
    BY Zenon DEF stopped, ReaderProxyState
<1>3. last + 1 - 1 = last /\ ~(0 > 0) /\ 0 <= 0
    OBVIOUS
<1>4. CASE volatile
    <2>1. PICK l : l = IF H = {} THEN next - 1 ELSE Least(H) - 1
        OBVIOUS
    <2>2. rp = [fresh EXCEPT !.low_mark = l]
        BY <1>4, <2>1 DEF start, stopped
    <2>3. l = low
        BY <1>3, <2>1
    <2> HIDE DEF low, fresh
    <2> QED
        BY <1>1, <1>2, <2>2, <2>3 DEF ReaderProxyState
<1>5. ~volatile => rp = acked_changes_set(fresh, 0, H, last + 1)
    BY DEF start
<1> HIDE DEF fresh
<1>6. CASE ~volatile
    <2>1. rp = acked_from_the_start(fresh, H, last + 1)
        BY <1>2, <1>3, <1>5, <1>6 DEF acked_changes_set
    <2>2. CASE H = {}
        <3>1. rp = [fresh EXCEPT !.low_mark = low]
            BY <1>3, <2>1, <2>2 DEF acked_from_the_start
        <3> HIDE DEF low
        <3> QED
            BY <1>1, <1>2, <3>1 DEF ReaderProxyState
    <2>3. CASE H # {}
        <3> DEFINE back == {m \in H : m <= fresh.low_mark /\ m \notin Numbers(fresh)}
                   again == {[seq |-> n, status |-> "UNACKNOWLEDGED"] : n \in back}
        <3>1. rp = [fresh EXCEPT !.low_mark = low, !.changes = fresh.changes \cup again]
            BY <2>1, <2>3, Zenon DEF acked_from_the_start
        <3>2. back = {}
            <4>1. \A m \in H : 1 <= m /\ m \in Nat
                OBVIOUS
            <4>2. \A m \in H : ~(m <= 0)
                BY <4>1
            <4> QED
                BY <1>2, <4>2, Zenon
        <3>3. again = {}
            BY <3>2
        <3> HIDE DEF low, again
        <3> QED
            BY <1>1, <1>2, <3>1, <3>3, Zenon DEF ReaderProxyState
    <2> QED
        BY <2>2, <2>3
<1> QED
    BY <1>4, <1>6

\* What set_changes_to_sent does.
Sent(rp, rq, seqs, H, last) ==
    /\ Carries(rp, rq, H, last, IF rp.is_reliable THEN Nat ELSE {})
    /\ rp.nack_supression \/ rp.is_reliable => rq.nack_supression
    /\ \A c \in rq.changes :
        \/ c \in rp.changes /\ c.seq \notin seqs
        \/ c.status = IF rp.is_reliable THEN "UNDERWAY" ELSE "ACKNOWLEDGED"

\* ReaderProxy::set_change_to_status, when changes are sent.
LEMMA SentCarries ==
    ASSUME NEW last \in Nat, NEW H \in SUBSET (1 .. last), NEW rp, ProxyOK(rp, H, last),
           NEW seqs \in SUBSET (1 .. last), seqs # {}, \A n \in seqs : rp.low_mark < n
    PROVE  Sent(rp, set_changes_to_sent(rp, seqs), seqs, H, last)
<1> DEFINE rq == set_changes_to_sent(rp, seqs)
<1>1. /\ rp \in ReaderProxyState /\ rp.low_mark \in Nat /\ rp.nack_supression \in BOOLEAN
      /\ rp.is_reliable \in BOOLEAN /\ rp.changes \in SUBSET ChangeForReader
    BY DEF ProxyOK, ReaderProxyState
<1>2. \A c \in rp.changes : c.status \in ChangeForReaderStatus
    BY <1>1 DEF ChangeForReader
<1>3. CASE rp.is_reliable
    <2>1. rq = [rp EXCEPT !.changes = Restated(rp.changes, seqs, ChangeForReaderStatus, "UNDERWAY"),
                          !.nack_supression = TRUE]
        BY <1>3, Zenon DEF set_changes_to_sent
    <2>2. "UNDERWAY" \in ChangeForReaderStatus /\ "UNDERWAY" # "ACKNOWLEDGED" /\ TRUE \in BOOLEAN
        BY DEF ChangeForReaderStatus
    <2> HIDE DEF rq
    <2>3. Restates(rp, rq, seqs, ChangeForReaderStatus, "UNDERWAY", H, last)
        BY <2>1, <2>2, RestatedCarries, Zenon
    <2>4. rq.nack_supression
        BY <1>1, <2>1 DEF ReaderProxyState
    <2> QED
        BY <1>2, <1>3, <2>3, <2>4 DEF Sent, Restates, rq
<1>4. CASE ~rp.is_reliable
    <2> DEFINE low == rp.low_mark
               G == Greatest(seqs)
               run == CHOOSE k \in low .. G : (low + 1) .. k \subseteq seqs /\ k + 1 \notin seqs
               T == {k \in low .. G : k + 1 \notin seqs}
               rf == [rp EXCEPT !.changes = {c \in rp.changes : c.seq > run}, !.low_mark = run]
    <2>17. seqs \in SUBSET Nat /\ \A n \in seqs : n <= last
        OBVIOUS
    <2>1. G \in seqs /\ \A n \in seqs : n <= G
        BY <2>17, GreatestIs, Zenon
    <2> HIDE DEF G
    <2>2. G \in Nat /\ G <= last /\ low < G /\ low \in Nat
        BY <1>1, <2>1, <2>17
    <2> HIDE DEF G, low
    <2>3. G + 1 \notin seqs
        BY <2>1, <2>2
    <2>4. T \in SUBSET Nat /\ G \in T
        BY <2>2, <2>3
    <2>5. PICK k \in T : \A y \in T : k <= y
        BY <2>4, LeastIs, Zenon
    <2>6. (low + 1) .. k \subseteq seqs
        <3> SUFFICES ASSUME NEW m \in (low + 1) .. k, m \notin seqs
                     PROVE  FALSE
            OBVIOUS
        <3>1. m - 1 \in low .. G /\ m - 1 + 1 = m /\ m - 1 < k
            BY <2>2, <2>5
        <3>2. m - 1 \in T
            BY <3>1
        <3> QED
            BY <2>2, <2>5, <3>1, <3>2
    <2>7. run \in low .. G
        BY <2>5, <2>6
    <2>8. run \in Nat /\ run <= last /\ low <= run
        BY <2>2, <2>7
    <2>9. rq = [rp EXCEPT !.low_mark = run,
                          !.changes = Restated({c \in rp.changes : c.seq > run}, seqs,
                                               ChangeForReaderStatus, "ACKNOWLEDGED")]
        BY <1>4 DEF set_changes_to_sent, low, G
    <2> HIDE DEF run, rq
    <2>10. /\ rf \in ReaderProxyState /\ rf.changes = {c \in rp.changes : c.seq > run}
           /\ rf.low_mark = run /\ rf.nack_supression = rp.nack_supression
           /\ SameReader(rp, rf)
        BY <1>1, <2>8, Zenon DEF ReaderProxyState, SameReader
    <2>11. rq = [rf EXCEPT !.changes = Restated(rf.changes, seqs, ChangeForReaderStatus,
                                                "ACKNOWLEDGED"),
                           !.nack_supression = rp.nack_supression]
        BY <1>1, <2>9, <2>10, Zenon DEF ReaderProxyState
    <2> HIDE DEF rf, T
    <2>12. \A c \in rp.changes : c.seq \in Nat
        BY <1>1 DEF ChangeForReader
    <2>13. ProxyOK(rf, H, last)
        BY <2>8, <2>10, <2>12 DEF ProxyOK, SameReader
    <2>14. /\ "ACKNOWLEDGED" \in ChangeForReaderStatus
           /\ rf.is_reliable => "ACKNOWLEDGED" # "ACKNOWLEDGED"
        BY <1>4, <2>10 DEF ChangeForReaderStatus, SameReader
    <2>15. Restates(rf, rq, seqs, ChangeForReaderStatus, "ACKNOWLEDGED", H, last)
        BY <1>1, <2>11, <2>13, <2>14, RestatedCarries, Zenon
    <2>16. Carries(rp, rq, H, last, {})
        BY <2>10, <2>15 DEF Carries, SameReader, Restates
    <2>18. rq.nack_supression = rp.nack_supression
        BY <2>10, <2>11 DEF ReaderProxyState
    <2> QED
        BY <1>2, <1>4, <2>10, <2>15, <2>16, <2>18 DEF Sent, Restates, rq
<1> QED
    BY <1>1, <1>3, <1>4

----------------------------------------------------------------------------
(* The writer.                                                             *)

Typed(wr) ==
    /\ DOMAIN wr = Fields
    /\ wr.qos \in Configurations
    /\ wr.last_seq \in Nat
    /\ wr.history \in SUBSET (1 .. wr.last_seq)
    /\ wr.matched_readers \in [Readers -> ReaderProxyState]
    /\ wr.next_all_acked \in 0 .. (wr.last_seq + 1)
    /\ wr.last_sequence_number \in 0 .. (wr.last_seq + 1)
    /\ wr.ack_event => wr.last_sequence_number <= wr.last_seq
    /\ wr.ack_event \in BOOLEAN /\ wr.async_pending \in BOOLEAN
    /\ wr.nack_response \in BOOLEAN /\ wr.periodic_hb \in BOOLEAN
    /\ wr.all_acked \in BOOLEAN /\ wr.isHistoryFull \in BOOLEAN
    /\ wr.may_remove_change \in 0 .. 2
    /\ OutOK(wr.out, wr.last_seq)

\* The proxy of reader r is in order, has the QoS of r and waits for nothing
\* that is not on its way.
InOrder(wr, r) ==
    LET rp == wr.matched_readers[r]
    IN  /\ ProxyOK(rp, wr.history, wr.last_seq)
        /\ Timely(rp, wr.async_pending, wr.nack_response)
        /\ rp.is_active =>
            /\ rp.is_reliable <=> r \notin wr.qos.best_effort
            /\ rp.disable_positive_acks <=> r \in wr.qos.no_positive_acks

Sound(wr) == Typed(wr) /\ \A r \in Readers : InOrder(wr, r)

\* The pairs of O are changes that reliable readers are to receive: those in the
\* history are held by their proxies and not taken for acknowledged by all.
Owes(wr, O) ==
    \A p \in O :
        /\ p \in Readers \X Nat
        /\ wr.matched_readers[p[1]].is_active /\ wr.matched_readers[p[1]].is_reliable
        /\ p[2] <= wr.last_seq
        /\ p[2] \in wr.history =>
            /\ p[2] \in Numbers(wr.matched_readers[p[1]])
            /\ wr.next_all_acked <= p[2]

\* A KEEP_ALL writer has not removed them.
Keeps(wr, O) == wr.qos.keep_all => \A p \in O : p[2] \in wr.history

\* When a KEEP_ALL writer tells that a change may be removed, the first one may.
Ready(wr, O) ==
    (wr.qos.keep_all /\ wr.may_remove_change = 1) =>
        \/ wr.history = {} /\ wr.qos.volatile
        \/ wr.history # {} /\ \A p \in O : Least(wr.history) < p[2]

\* A removal that was told has left room.
Roomy(wr, wq) ==
    wq.may_remove_change = 2 =>
        \/ ~wq.isHistoryFull
        \/ wr.may_remove_change = 2 /\ wr.isHistoryFull

\* What a handler that writes nothing makes of the writer.
After(wr, wq, O) ==
    /\ Sound(wq) /\ Owes(wq, O)
    /\ wq.qos = wr.qos /\ wq.last_seq = wr.last_seq
    /\ Keeps(wr, O) => Keeps(wq, O) /\ (Ready(wr, O) => Ready(wq, O))
    /\ Roomy(wr, wq)

\* One handler after another.
LEMMA AfterAfter ==
    ASSUME NEW O, NEW wr, NEW wq, NEW ws, After(wr, wq, O), After(wq, ws, O)
    PROVE  After(wr, ws, O)
BY DEF After, Roomy

\* The pairs that are no longer owed do not matter.
LEMMA OwesLess ==
    ASSUME NEW O, NEW wr, Owes(wr, O), NEW P \in SUBSET O
    PROVE  /\ Owes(wr, P)
           /\ Keeps(wr, O) => Keeps(wr, P)
           /\ Ready(wr, O) => Ready(wr, P)
BY DEF Owes, Keeps, Ready

\* The fields of a handler that arms timers and sends, and the lists of the
\* instances, which repeat the history.
OutFields ==
    {"out", "notify", "periodic_hb", "nack_response", "async_pending", "ack_event",
     "last_sequence_number", "keyed_changes"}

TimersOK(wr, last) ==
    /\ wr.periodic_hb \in BOOLEAN /\ wr.nack_response \in BOOLEAN
    /\ wr.async_pending \in BOOLEAN /\ wr.ack_event \in BOOLEAN
    /\ wr.last_sequence_number \in 0 .. (last + 1)
    /\ wr.ack_event => wr.last_sequence_number <= last

\* A handler that tells nobody that everything is acknowledged.
Quiet(wr, wq, O) == After(wr, wq, O) /\ (wq.all_acked => wr.all_acked)

\* The numbers a reader is owed.
OwedTo(O, r) == {n \in Nat : <<r, n>> \in O}

\* Handlers that change proxies, arm timers and send.
LEMMA ProxiesStep ==
    ASSUME NEW O, NEW wr, Sound(wr), Owes(wr, O),
           NEW wq, SameBut(wr, wq, OutFields \cup {"matched_readers"}),
           wq.matched_readers \in [Readers -> ReaderProxyState],
           OutOK(wq.out, wr.last_seq),
           TimersOK(wq, wr.last_seq),
           \A r \in Readers :
                /\ Carries(wr.matched_readers[r], wq.matched_readers[r], wr.history, wr.last_seq,
                           OwedTo(O, r))
                /\ Timely(wq.matched_readers[r], wq.async_pending, wq.nack_response)
    PROVE  Quiet(wr, wq, O)
<1>1. /\ DOMAIN wq = Fields /\ wq.qos = wr.qos /\ wq.last_seq = wr.last_seq
      /\ wq.history = wr.history /\ wq.next_all_acked = wr.next_all_acked
      /\ wq.all_acked = wr.all_acked
      /\ wq.isHistoryFull = wr.isHistoryFull
      /\ wq.may_remove_change = wr.may_remove_change
    BY DEF SameBut, Fields, OutFields
<1>2. Typed(wq)
    BY <1>1 DEF Sound, Typed, TimersOK
<1>3. \A r \in Readers : InOrder(wq, r)
    BY <1>1 DEF Sound, InOrder, Carries, SameReader
<1>4. Owes(wq, O)
    <2> SUFFICES ASSUME NEW p \in O
                 PROVE  /\ p \in Readers \X Nat
                        /\ wq.matched_readers[p[1]].is_active
                        /\ wq.matched_readers[p[1]].is_reliable
                        /\ p[2] <= wq.last_seq
                        /\ p[2] \in wq.history =>
                            /\ p[2] \in Numbers(wq.matched_readers[p[1]])
                            /\ wq.next_all_acked <= p[2]
        BY DEF Owes
    <2>1. PICK r \in Readers, n \in Nat : p = <<r, n>>
        BY DEF Owes
    <2>2. n \in OwedTo(O, r)
        BY <2>1 DEF OwedTo
    <2> QED
        BY <1>1, <2>1, <2>2 DEF Owes, Carries, SameReader
<1>5. Keeps(wr, O) => Keeps(wq, O)
    BY <1>1 DEF Keeps
<1>6. Ready(wr, O) => Ready(wq, O)
    BY <1>1 DEF Ready
<1>7. Roomy(wr, wq)
    BY <1>1 DEF Roomy
<1> QED
    BY <1>1, <1>2, <1>3, <1>4, <1>5, <1>6, <1>7 DEF After, Sound, Quiet

\* Handlers that arm timers and send.
LEMMA OutStep ==
    ASSUME NEW O, NEW wr, Sound(wr), Owes(wr, O),
           NEW wq, SameBut(wr, wq, OutFields),
           OutOK(wq.out, wr.last_seq),
           TimersOK(wq, wr.last_seq),
           wr.async_pending => wq.async_pending, wr.nack_response => wq.nack_response
    PROVE  Quiet(wr, wq, O)
<1>1. SameBut(wr, wq, OutFields \cup {"matched_readers"})
      /\ wq.matched_readers = wr.matched_readers
    BY DEF SameBut, Fields, OutFields
<1>2. ASSUME NEW r \in Readers
      PROVE  /\ Carries(wr.matched_readers[r], wq.matched_readers[r], wr.history, wr.last_seq,
                        OwedTo(O, r))
             /\ Timely(wq.matched_readers[r], wq.async_pending, wq.nack_response)
    BY <1>1, <1>2 DEF Sound, InOrder, Carries, SameReader, Timely
<1>3. wq.matched_readers \in [Readers -> ReaderProxyState]
    BY <1>1 DEF Sound, Typed
<1> QED
    BY <1>1, <1>2, <1>3, ProxiesStep

----------------------------------------------------------------------------
(* Messages.                                                               *)

\* wq has sent messages about numbers up to the last one.
Sends(wr, wq) == SameBut(wr, wq, {"out"}) /\ OutOK(wq.out, wr.last_seq)

\* Sending leaves all but the messages alone.
LEMMA SendsTyped ==
    ASSUME NEW wr, Typed(wr), NEW wq, Sends(wr, wq)
    PROVE  /\ Typed(wq) /\ wq.history = wr.history /\ wq.last_seq = wr.last_seq
           /\ wq.matched_readers = wr.matched_readers /\ wq.qos = wr.qos
           /\ wq.periodic_hb = wr.periodic_hb /\ wq.nack_response = wr.nack_response
           /\ wq.async_pending = wr.async_pending /\ wq.all_acked = wr.all_acked
           /\ wq.last_sequence_number = wr.last_sequence_number
           /\ wq.isHistoryFull = wr.isHistoryFull /\ wq.next_all_acked = wr.next_all_acked
<1>1. /\ DOMAIN wq = Fields /\ wq.qos = wr.qos /\ wq.last_seq = wr.last_seq
      /\ wq.history = wr.history /\ wq.matched_readers = wr.matched_readers
      /\ wq.next_all_acked = wr.next_all_acked
      /\ wq.last_sequence_number = wr.last_sequence_number
      /\ wq.ack_event = wr.ack_event /\ wq.all_acked = wr.all_acked
      /\ wq.periodic_hb = wr.periodic_hb /\ wq.nack_response = wr.nack_response
      /\ wq.async_pending = wr.async_pending
      /\ wq.isHistoryFull = wr.isHistoryFull
      /\ wq.may_remove_change = wr.may_remove_change
    BY DEF Sends, SameBut, Fields
<1> QED
    BY <1>1 DEF Sends, Typed

\* Sending acknowledges nothing and forgets nothing.
LEMMA SendsQuiet ==
    ASSUME NEW O, NEW wr, Sound(wr), Owes(wr, O), NEW wq, Sends(wr, wq)
    PROVE  Quiet(wr, wq, O)
<1>1. SameBut(wr, wq, OutFields) /\ OutOK(wq.out, wr.last_seq)
    BY DEF Sends, SameBut, OutFields
<1>2. /\ wq.periodic_hb = wr.periodic_hb /\ wq.nack_response = wr.nack_response
      /\ wq.async_pending = wr.async_pending /\ wq.ack_event = wr.ack_event
      /\ wq.last_sequence_number = wr.last_sequence_number
    BY DEF Sends, SameBut, Fields
<1>3. TimersOK(wq, wr.last_seq)
    BY <1>2 DEF Sound, Typed, TimersOK
<1> QED
    BY <1>1, <1>2, <1>3, OutStep

\* A handler may send more than once.
LEMMA SendsTwice ==
    ASSUME NEW wr, NEW wq, NEW ws, Sends(wr, wq), Sends(wq, ws)
    PROVE  Sends(wr, ws)
BY DEF Sends, SameBut, Fields

\* Messages are added.
LEMMA MoreMessages ==
    ASSUME NEW wr, Typed(wr), NEW M, OutOK(M, wr.last_seq)
    PROVE  Sends(wr, [wr EXCEPT !.out = @ \cup M])
<1> DEFINE wq == [wr EXCEPT !.out = wr.out \cup M]
<1>1. SameBut(wr, wq, {"out"}) /\ wq.out = wr.out \cup M
    BY DEF Typed, SameBut, Fields
<1> HIDE DEF wq
<1>2. OutOK(wq.out, wr.last_seq)
    BY <1>1 DEF Typed, OutOK
<1> QED
    BY <1>1, <1>2 DEF Sends, wq

\* Nothing is sent.
LEMMA NoMessage ==
    ASSUME NEW wr, Typed(wr)
    PROVE  Sends(wr, wr)
BY DEF Typed, Sends, SameBut

\* The first and the last number of a history.
LEMMA HistoryEnds ==
    ASSUME NEW wr, Typed(wr), wr.history # {}
    PROVE  /\ Least(wr.history) \in wr.history /\ Greatest(wr.history) \in wr.history
           /\ Least(wr.history) \in 1 .. wr.last_seq /\ Greatest(wr.history) \in 1 .. wr.last_seq
           /\ \A n \in wr.history : Least(wr.history) <= n
<1>1. wr.history \in SUBSET Nat /\ wr.last_seq \in Nat /\ \A n \in wr.history : n <= wr.last_seq
    BY DEF Typed
<1>2. Least(wr.history) \in wr.history /\ \A n \in wr.history : Least(wr.history) <= n
    BY <1>1, LeastIs
<1>3. Greatest(wr.history) \in wr.history
    BY <1>1, GreatestIs
<1> QED
    BY <1>2, <1>3 DEF Typed

\* A HEARTBEAT names the ends of the history.
LEMMA HeartbeatIs ==
    ASSUME NEW wr, Typed(wr), NEW to, NEW final
    PROVE  /\ heartbeat(wr, to, final).type = "HEARTBEAT"
           /\ heartbeat(wr, to, final).first \in 0 .. (wr.last_seq + 1)
           /\ heartbeat(wr, to, final).last \in 0 .. wr.last_seq
<1> DEFINE first == IF wr.history = {} THEN next_sequence_number(wr) ELSE Least(wr.history)
           last == IF wr.history = {} THEN wr.last_seq ELSE Greatest(wr.history)
<1>1. wr.last_seq \in Nat
    BY DEF Typed
<1>2. first \in 0 .. (wr.last_seq + 1) /\ last \in 0 .. wr.last_seq
    BY <1>1, HistoryEnds DEF next_sequence_number
<1> HIDE DEF first, last
<1>3. heartbeat(wr, to, final) = [type |-> "HEARTBEAT", to |-> to, first |-> first, last |-> last,
                                  final |-> final]
    BY DEF heartbeat, first, last
<1> QED
    BY <1>2, <1>3

\* send_heartbeat_nts_ sends at most that.
LEMMA HeartbeatSends ==
    ASSUME NEW wr, Typed(wr), NEW k, NEW to, NEW final
    PROVE  Sends(wr, send_heartbeat_nts(wr, k, to, final))
<1> DEFINE m == heartbeat(wr, to, final)
<1>1. send_heartbeat_nts(wr, k, to, final) = wr
      \/ send_heartbeat_nts(wr, k, to, final) = [wr EXCEPT !.out = @ \cup {m}]
    BY DEF send_heartbeat_nts
<1>2. /\ m.type = "HEARTBEAT" /\ m.first \in 0 .. (wr.last_seq + 1) /\ m.last \in 0 .. wr.last_seq
    BY HeartbeatIs, Zenon
<1> HIDE DEF m
<1>3. OutOK({m}, wr.last_seq)
    BY <1>2 DEF OutOK
<1> QED
    BY <1>1, <1>3, MoreMessages, NoMessage, Zenon

\* A GAP names numbers that have been used.
LEMMA GapSends ==
    ASSUME NEW wr, Typed(wr), NEW to, NEW numbers \in SUBSET (0 .. wr.last_seq)
    PROVE  Sends(wr, add_gap(wr, to, numbers))
<1> DEFINE m == [type |-> "GAP", to |-> to, numbers |-> numbers]
<1>1. add_gap(wr, to, numbers) = wr \/ add_gap(wr, to, numbers) = [wr EXCEPT !.out = @ \cup {m}]
    BY DEF add_gap
<1>2. OutOK({m}, wr.last_seq)
    BY DEF OutOK
<1> HIDE DEF m
<1>3. Sends(wr, [wr EXCEPT !.out = @ \cup {m}])
    BY <1>2, MoreMessages, Zenon
<1>4. Sends(wr, wr)
    BY NoMessage
<1> QED
    BY Zenon, <1>1, <1>3, <1>4

\* A DATA carries a change that has been written.
LEMMA DataSends ==
    ASSUME NEW wr, Typed(wr), NEW to, NEW n \in 0 .. wr.last_seq
    PROVE  Sends(wr, add_data(wr, to, n))
<1> DEFINE m == [type |-> "DATA", to |-> to, seq |-> n]
<1>1. OutOK({m}, wr.last_seq)
    BY DEF OutOK
<1> HIDE DEF m
<1>2. Sends(wr, [wr EXCEPT !.out = @ \cup {m}])
    BY <1>1, MoreMessages
<1> QED
    BY <1>2 DEF add_data, m

\* The heartbeat a preemptive ACKNACK asks for.
LEMMA HeartbeatToSends ==
    ASSUME NEW wr, Sound(wr), NEW r \in Readers
    PROVE  Sends(wr, send_heartbeat_to_nts(wr, r))
<1> DEFINE rp == wr.matched_readers[r]
           relevant == first_relevant_sequence_number(rp)
           beat == send_heartbeat_nts(wr, 1, {r}, wr.qos.disable_positive_acks)
           old == IF rp.is_volatile THEN Least(wr.history) .. (relevant - 1) ELSE {}
           gaps == send_gaps(rp, next_sequence_number(wr))
           skipped == add_gap(beat, {r}, old)
<1>1. /\ Typed(wr) /\ wr.last_seq \in Nat /\ wr.history \in SUBSET (1 .. wr.last_seq)
      /\ ProxyOK(rp, wr.history, wr.last_seq) /\ rp.low_mark \in Nat
      /\ rp.changes \in SUBSET ChangeForReader
    BY DEF Sound, Typed, InOrder, ProxyOK, ReaderProxyState
<1>2. Sends(wr, beat)
    BY <1>1, HeartbeatSends
<1>3. CASE rp.is_reliable /\ wr.history # {}
    <2>1. Least(wr.history) \in 1 .. wr.last_seq
        BY <1>1, <1>3, HistoryEnds
    <2>2. relevant \in Nat /\ relevant <= wr.last_seq + 1
        <3>1. CASE rp.changes = {}
            BY <1>1, <3>1 DEF first_relevant_sequence_number, ProxyOK
        <3>2. CASE rp.changes # {}
            <4>1. Numbers(rp) \in SUBSET (1 .. wr.last_seq) /\ Numbers(rp) # {}
                BY <1>1, <3>2 DEF Numbers, ProxyOK
            <4>2. Numbers(rp) \in SUBSET Nat
                BY <1>1, <4>1
            <4>3. Least(Numbers(rp)) \in Numbers(rp)
                BY <4>1, <4>2, LeastIs
            <4>4. relevant = Least(Numbers(rp))
                BY <3>2 DEF first_relevant_sequence_number
            <4> QED
                BY <1>1, <4>1, <4>3, <4>4
        <3> QED
            BY <3>1, <3>2
    <2> HIDE DEF relevant
    <2>3. old \in SUBSET (0 .. wr.last_seq)
        BY <1>1, <2>1, <2>2
    <2>4. gaps \in SUBSET (0 .. wr.last_seq)
        BY <1>1 DEF send_gaps, next_sequence_number
    <2>5. send_heartbeat_to_nts(wr, r) = add_gap(skipped, {r}, gaps)
        BY <1>3 DEF send_heartbeat_to_nts, relevant
    <2> HIDE DEF old, gaps, beat
    <2>6. Typed(beat) /\ beat.last_seq = wr.last_seq
        BY <1>1, <1>2, SendsTyped
    <2>7. Sends(beat, skipped)
        BY <2>3, <2>6, GapSends
    <2>8. Typed(skipped) /\ skipped.last_seq = wr.last_seq
        BY <2>6, <2>7, SendsTyped
    <2>9. Sends(skipped, add_gap(skipped, {r}, gaps))
        BY <2>4, <2>8, GapSends
    <2> QED
        BY <1>2, <2>5, <2>7, <2>9, SendsTwice
<1>4. CASE ~(rp.is_reliable /\ wr.history # {})
    <2>1. send_heartbeat_to_nts(wr, r) = wr \/ send_heartbeat_to_nts(wr, r) = beat
        BY <1>4 DEF send_heartbeat_to_nts
    <2> QED
        BY <1>1, <1>2, <2>1, NoMessage
<1> QED
    BY <1>3, <1>4

----------------------------------------------------------------------------
(* The history, and what has been acknowledged.                            *)

\* A handler that does nothing.
LEMMA AfterNothing ==
    ASSUME NEW O, NEW wr, Sound(wr), Owes(wr, O)
    PROVE  After(wr, wr, O)
BY DEF After, Roomy, Sound, Typed

RemoveFields ==
    {"matched_readers", "history", "keyed_changes", "isHistoryFull", "biggest_removed",
     "may_remove_change", "notify"}

\* wq is wr without the changes of S.
Removes(wr, wq, S, O) ==
    /\ Sound(wq) /\ Owes(wq, O)
    /\ wq.qos = wr.qos /\ wq.last_seq = wr.last_seq
    /\ (wr.qos.keep_all => \A p \in O : p[2] \in wr.history => p[2] \notin S) =>
            After(wr, wq, O)
    /\ wq.all_acked = wr.all_acked
    /\ wq.last_sequence_number = wr.last_sequence_number
    /\ wq.history = wr.history \ S
    /\ wq.next_all_acked = wr.next_all_acked
    /\ S # {} => ~wq.isHistoryFull /\ wq.may_remove_change = 2
    /\ S = {} => wq = wr
    /\ \A r \in Readers :
        /\ SameReader(wr.matched_readers[r], wq.matched_readers[r])
        /\ wq.matched_readers[r].changes \subseteq wr.matched_readers[r].changes

\* Changes are removed: those that nobody is owed, if the history is KEEP_ALL and
\* is to keep its promise.
LEMMA RemoveStep ==
    ASSUME NEW O, NEW wr, Sound(wr), Owes(wr, O), NEW S
    PROVE  Removes(wr, remove_changes(wr, S), S, O)
<1> DEFINE wq == remove_changes(wr, S)
           mr == wr.matched_readers
           mq == [r \in Readers |-> IF r \in MatchedReaders(wr)
                                    THEN change_has_been_removed(mr[r], S) ELSE mr[r]]
<1>1. CASE S = {}
    <2>1. wq = wr
        BY <1>1 DEF remove_changes
    <2>2. wr.history \ S = wr.history
        BY <1>1
    <2> QED
        BY <1>1, <2>1, <2>2, AfterNothing DEF SameReader, Removes
<1>2. CASE S # {}
    <2>1. wq = [[wr EXCEPT !.matched_readers = mq] EXCEPT
                    !.history = @ \ S,
                    !.keyed_changes = LeaveInstances(@, S),
                    !.isHistoryFull = FALSE,
                    !.biggest_removed = Greatest({@} \cup S),
                    !.may_remove_change = 2,
                    !.notify = @ + Cardinality(S)]
        BY <1>2 DEF remove_changes, OnReaders
    <2>2. DOMAIN wr = Fields
        BY DEF Sound, Typed
    <2> HIDE DEF wq, mq
    <2>3. /\ SameBut(wr, wq, RemoveFields)
          /\ wq.matched_readers = mq /\ wq.history = wr.history \ S
          /\ wq.isHistoryFull = FALSE /\ wq.may_remove_change = 2
        BY <2>1, <2>2, Zenon DEF SameBut, Fields, RemoveFields
    <2>4. /\ DOMAIN wq = Fields /\ wq.qos = wr.qos /\ wq.last_seq = wr.last_seq
          /\ wq.next_all_acked = wr.next_all_acked /\ wq.out = wr.out
          /\ wq.last_sequence_number = wr.last_sequence_number
          /\ wq.ack_event = wr.ack_event /\ wq.all_acked = wr.all_acked
          /\ wq.periodic_hb = wr.periodic_hb /\ wq.nack_response = wr.nack_response
          /\ wq.async_pending = wr.async_pending
        BY <2>3 DEF SameBut, Fields, RemoveFields
    <2>5. ASSUME NEW r \in Readers
          PROVE  /\ Carries(mr[r], mq[r], wr.history \ S, wr.last_seq, Nat \ S)
                 /\ mq[r] \in ReaderProxyState
                 /\ mq[r].changes \subseteq mr[r].changes
                 /\ mq[r].nack_supression = mr[r].nack_supression
        <3>1. ProxyOK(mr[r], wr.history, wr.last_seq) /\ mr[r] \in ReaderProxyState
            BY DEF Sound, InOrder, ProxyOK
        <3>2. CASE r \in MatchedReaders(wr)
            <4>1. mq[r] = [mr[r] EXCEPT !.changes = {c \in mr[r].changes : c.seq \notin S}]
                BY <3>2 DEF mq, change_has_been_removed
            <4>2. mq[r].changes = {c \in mr[r].changes : c.seq \notin S}
                  /\ mq[r].nack_supression = mr[r].nack_supression
                BY <3>1, <4>1 DEF ReaderProxyState
            <4>3. Carries(mr[r], mq[r], wr.history \ S, wr.last_seq, Nat \ S)
                BY <3>1, <4>1, RemovedCarries, Zenon DEF change_has_been_removed
            <4> QED
                BY <4>2, <4>3 DEF Carries, ProxyOK
        <3>3. CASE r \notin MatchedReaders(wr)
            <4>1. mq[r] = mr[r] /\ ~mr[r].is_active
                BY <3>3 DEF mq, MatchedReaders
            <4> QED
                BY <3>1, <4>1 DEF Carries, ProxyOK, SameReader, Numbers
        <3> QED
            BY <3>2, <3>3
    <2>6. Typed(wq)
        <3>1. mq \in [Readers -> ReaderProxyState]
            BY <2>5 DEF mq
        <3>2. wq.history \in SUBSET (1 .. wq.last_seq) /\ wq.may_remove_change \in 0 .. 2
            BY <2>3, <2>4 DEF Sound, Typed
        <3> QED
            BY <2>3, <2>4, <3>1, <3>2, Zenon DEF Sound, Typed
    <2>7. \A r \in Readers : InOrder(wq, r)
        <3> SUFFICES ASSUME NEW r \in Readers PROVE InOrder(wq, r)
            OBVIOUS
        <3>1. Timely(mq[r], wq.async_pending, wq.nack_response)
            BY <2>4, <2>5 DEF Sound, InOrder, Timely
        <3> QED
            BY <2>3, <2>4, <2>5, <3>1, ZenonT(30) DEF Sound, InOrder, Carries, SameReader
    <2>8. Owes(wq, O)
        <3> SUFFICES ASSUME NEW p \in O
                     PROVE  /\ p \in Readers \X Nat
                            /\ wq.matched_readers[p[1]].is_active
                            /\ wq.matched_readers[p[1]].is_reliable
                            /\ p[2] <= wq.last_seq
                            /\ p[2] \in wq.history =>
                                /\ p[2] \in Numbers(wq.matched_readers[p[1]])
                                /\ wq.next_all_acked <= p[2]
            BY DEF Owes
        <3>1. p[1] \in Readers /\ p[2] \in Nat
            BY DEF Owes
        <3> QED
            BY <2>3, <2>4, <2>5, <3>1 DEF Owes, Carries, SameReader
    <2>9. (wr.qos.keep_all => \A p \in O : p[2] \in wr.history => p[2] \notin S) =>
            (Keeps(wr, O) => Keeps(wq, O))
        BY <2>3, <2>4 DEF Keeps
    <2>10. Ready(wq, O) /\ Roomy(wr, wq)
        BY <2>3 DEF Ready, Roomy
    <2>11. (wr.qos.keep_all => \A p \in O : p[2] \in wr.history => p[2] \notin S) =>
            After(wr, wq, O)
        BY <2>4, <2>6, <2>7, <2>8, <2>9, <2>10 DEF After, Sound
    <2>12. Sound(wq)
        BY <2>6, <2>7 DEF Sound
    <2> QED
        BY <1>2, <2>3, <2>4, <2>5, <2>8, <2>11, <2>12 DEF Carries, wq, Removes
<1> QED
    BY <1>1, <1>2

MarkFields == {"next_all_acked", "may_remove_change", "min_low_mark", "all_acked", "notify"}

\* Notifications: nothing that is owed may be taken for acknowledged by all, and
\* the first change may go when it is told that one may.
LEMMA MarkStep ==
    ASSUME NEW O, NEW wr, Sound(wr), Owes(wr, O),
           NEW wq, SameBut(wr, wq, MarkFields),
           wq.next_all_acked \in 0 .. (wr.last_seq + 1), wq.all_acked \in BOOLEAN,
           \A p \in O : p[2] \in wr.history => wq.next_all_acked <= p[2],
           \/ wq.may_remove_change \in {0, wr.may_remove_change}
           \/ /\ wq.may_remove_change = 1
              /\ \/ wr.history = {} /\ wr.qos.volatile
                 \/ /\ wr.history # {}
                    /\ (\A p \in O : p[2] \in wr.history) => \A p \in O : Least(wr.history) < p[2]
    PROVE  After(wr, wq, O)
<1>1. /\ DOMAIN wq = Fields /\ wq.qos = wr.qos /\ wq.last_seq = wr.last_seq
      /\ wq.history = wr.history /\ wq.matched_readers = wr.matched_readers
      /\ wq.last_sequence_number = wr.last_sequence_number
      /\ wq.ack_event = wr.ack_event /\ wq.out = wr.out
      /\ wq.periodic_hb = wr.periodic_hb /\ wq.nack_response = wr.nack_response
      /\ wq.async_pending = wr.async_pending
      /\ wq.isHistoryFull = wr.isHistoryFull
    BY DEF SameBut, Fields, MarkFields
<1>2. Typed(wq)
    BY <1>1 DEF Sound, Typed
<1>3. \A r \in Readers : InOrder(wq, r)
    BY <1>1 DEF Sound, InOrder
<1>4. Owes(wq, O)
    BY <1>1 DEF Owes
<1>5. Keeps(wr, O) => Keeps(wq, O)
    BY <1>1 DEF Keeps
<1>6. Keeps(wr, O) /\ Ready(wr, O) => Ready(wq, O)
    BY <1>1 DEF Ready, Keeps
<1>7. Roomy(wr, wq)
    BY <1>1, <1>2 DEF Roomy, Typed
<1> QED
    BY <1>1, <1>2, <1>3, <1>4, <1>5, <1>6, <1>7 DEF After, Sound

\* The flag of wait_for_all_acked goes up only when nothing is pending.
Told(wr, wq) ==
    wq.all_acked => wr.all_acked \/ \A r \in MatchedReaders(wq) : wq.matched_readers[r].changes = {}

\* The low mark of all readers is below every change that is owed.
LEMMA LowMarkIs ==
    ASSUME NEW O, NEW wr, Sound(wr), Owes(wr, O)
    PROVE  /\ MinLowMark(wr) \in 0 .. wr.last_seq
           /\ \A p \in O : p[2] \in wr.history => MinLowMark(wr) < p[2]
<1> DEFINE L == {wr.matched_readers[r].low_mark : r \in MatchedReaders(wr)}
           low == MinLowMark(wr)
<1>1. wr.last_seq \in Nat
    BY DEF Sound, Typed
<1>2. \A r \in MatchedReaders(wr) :
            /\ r \in Readers /\ wr.matched_readers[r].low_mark \in Nat
            /\ wr.matched_readers[r].low_mark <= wr.last_seq
    BY DEF Sound, InOrder, ProxyOK, ReaderProxyState, MatchedReaders
<1>3. CASE MatchedReaders(wr) = {}
    <2>1. \A p \in O : FALSE
        BY <1>3 DEF Owes, MatchedReaders
    <2> QED
        BY <1>1, <1>3, <2>1 DEF MinLowMark
<1>4. CASE MatchedReaders(wr) # {}
    <2>1. L \in SUBSET Nat /\ L # {}
        BY <1>2, <1>4
    <2>2. low = Least(L)
        BY <1>4 DEF MinLowMark
    <2> HIDE DEF L, low
    <2>3. low \in L /\ \A m \in L : low <= m
        BY <2>1, <2>2, LeastIs
    <2>4. low \in 0 .. wr.last_seq
        BY <1>1, <1>2, <2>3 DEF L
    <2>5. ASSUME NEW p \in O, p[2] \in wr.history
          PROVE  low < p[2]
        <3>1. /\ p[1] \in Readers /\ p[2] \in Nat /\ p[1] \in MatchedReaders(wr)
              /\ p[2] \in Numbers(wr.matched_readers[p[1]])
            BY <2>5 DEF Owes, MatchedReaders
        <3>2. wr.matched_readers[p[1]].low_mark < p[2]
            BY <3>1 DEF Sound, InOrder, ProxyOK, Numbers
        <3>3. low <= wr.matched_readers[p[1]].low_mark
            BY <2>3, <3>1 DEF L
        <3> QED
            BY <1>2, <2>4, <3>1, <3>2, <3>3
    <2> QED
        BY <2>4, <2>5 DEF low
<1> QED
    BY <1>3, <1>4

\* The branch of check_acked_status for a history that is not empty.
LEMMA ReceivedStep ==
    ASSUME NEW O, NEW wr, Sound(wr), Owes(wr, O), wr.history # {}
    PROVE  /\ After(wr, notify_received_by_all(wr), O)
           /\ notify_received_by_all(wr).all_acked = wr.all_acked
           /\ notify_received_by_all(wr).last_sequence_number = wr.last_sequence_number
           /\ notify_received_by_all(wr).history \subseteq wr.history
           /\ \A r \in Readers :
                /\ SameReader(wr.matched_readers[r], notify_received_by_all(wr).matched_readers[r])
                /\ notify_received_by_all(wr).matched_readers[r].changes
                        \subseteq wr.matched_readers[r].changes
<1> DEFINE low == MinLowMark(wr)
           T == IF wr.qos.volatile THEN ReceivedByAll(wr) ELSE {}
           kept == IF wr.qos.volatile THEN remove_changes(wr, ReceivedByAll(wr)) ELSE wr
           wq == notify_received_by_all(wr)
           first == kept.history = {} \/ Least(kept.history) <= low
<1>1. low \in 0 .. wr.last_seq /\ \A p \in O : p[2] \in wr.history => low < p[2]
    BY LowMarkIs
<1>10. wr.last_seq \in Nat /\ \A p \in O : p[2] \in Nat
    BY DEF Sound, Typed, Owes
<1>2. \A p \in O : p[2] \notin ReceivedByAll(wr)
    BY <1>1, <1>10 DEF ReceivedByAll
<1>3. Removes(wr, kept, T, O) /\ After(wr, kept, O)
    <2>1. Removes(wr, remove_changes(wr, ReceivedByAll(wr)), ReceivedByAll(wr), O)
        BY <1>2, RemoveStep
    <2>2. Removes(wr, wr, {}, O)
        BY AfterNothing DEF Removes, SameReader
    <2>3. \A p \in O : p[2] \notin T
        BY <1>2
    <2>4. Removes(wr, kept, T, O)
        BY <2>1, <2>2
    <2> QED
        BY <2>3, <2>4, Zenon DEF Removes
<1>4. wq = [kept EXCEPT !.next_all_acked = IF @ <= low THEN low + 1 ELSE @,
                        !.may_remove_change = IF first THEN 1 ELSE @,
                        !.min_low_mark = low]
    BY DEF notify_received_by_all
<1>5. kept.history = {} => kept.qos.volatile
    BY <1>3, Zenon DEF Removes, After
<1> HIDE DEF low, wq, T, kept
<1>6. Sound(kept) /\ Owes(kept, O) /\ DOMAIN kept = Fields /\ After(wr, kept, O)
    BY <1>3, Zenon DEF Removes, After, Sound, Typed
<1>7. /\ SameBut(kept, wq, MarkFields) /\ wq.all_acked = kept.all_acked
      /\ wq.next_all_acked = IF kept.next_all_acked <= low THEN low + 1 ELSE kept.next_all_acked
      /\ wq.may_remove_change = IF first THEN 1 ELSE kept.may_remove_change
    BY <1>4, <1>6, Zenon DEF SameBut, Fields, MarkFields
<1>8. /\ kept.last_seq = wr.last_seq /\ kept.next_all_acked \in 0 .. (wr.last_seq + 1)
      /\ kept.all_acked \in BOOLEAN /\ kept.history \subseteq wr.history
      /\ kept.history \in SUBSET Nat
    <2>1. kept.last_seq = wr.last_seq /\ kept.history \subseteq wr.history
        BY <1>3 DEF Removes
    <2>2. /\ kept.next_all_acked \in 0 .. (kept.last_seq + 1) /\ kept.all_acked \in BOOLEAN
          /\ kept.history \in SUBSET (1 .. kept.last_seq)
        BY <1>6 DEF Sound, Typed
    <2> QED
        BY <2>1, <2>2
<1>9. wq.next_all_acked \in 0 .. (kept.last_seq + 1)
    BY <1>1, <1>7, <1>8, <1>10
<1>11. \A p \in O : p[2] \in kept.history => wq.next_all_acked <= p[2]
    BY <1>1, <1>6, <1>7, <1>8, <1>10 DEF Owes
<1>12. kept.history # {} => Least(kept.history) \in Nat
    BY <1>8, LeastIs
<1>13. \/ wq.may_remove_change \in {0, kept.may_remove_change}
       \/ /\ wq.may_remove_change = 1
          /\ \/ kept.history = {} /\ kept.qos.volatile
             \/ /\ kept.history # {}
                /\ (\A p \in O : p[2] \in kept.history) => \A p \in O : Least(kept.history) < p[2]
    <2>1. CASE first /\ kept.history # {}
        <3>1. ASSUME \A p \in O : p[2] \in kept.history, NEW p \in O
              PROVE  Least(kept.history) < p[2]
            <4>1. low < p[2] /\ p[2] \in Nat
                BY <1>1, <1>8, <1>10, <3>1
            <4> QED
                BY <1>1, <1>10, <1>12, <2>1, <4>1
        <3> QED
            BY <1>7, <2>1, <3>1
    <2> QED
        BY <1>5, <1>7, <2>1
<1>14. After(kept, wq, O)
    BY <1>6, <1>7, <1>8, <1>9, <1>11, <1>13, MarkStep
<1>15. /\ wq.matched_readers = kept.matched_readers /\ wq.history = kept.history
       /\ wq.last_sequence_number = kept.last_sequence_number
    BY <1>7 DEF SameBut, Fields, MarkFields
<1> QED
    BY <1>3, <1>6, <1>7, <1>14, <1>15, AfterAfter DEF Removes, wq

\* What check_acked_status makes of the writer.
Checked(wr, wq, O) == After(wr, wq, O) /\ Told(wr, wq)

\* One handler after another, again.
LEMMA QuietQuiet ==
    ASSUME NEW O, NEW wr, NEW wq, NEW ws, Quiet(wr, wq, O), Quiet(wq, ws, O)
    PROVE  Quiet(wr, ws, O)
BY AfterAfter DEF Quiet

\* A quiet handler that ends with check_acked_status.
LEMMA QuietChecked ==
    ASSUME NEW O, NEW wr, NEW wq, NEW ws, Quiet(wr, wq, O), Checked(wq, ws, O)
    PROVE  Checked(wr, ws, O)
BY AfterAfter DEF Quiet, Checked, Told

\* A quiet handler raises no flag.
LEMMA QuietIsChecked ==
    ASSUME NEW O, NEW wr, NEW wq, Quiet(wr, wq, O)
    PROVE  Checked(wr, wq, O)
BY DEF Quiet, Checked, Told

\* check_acked_status neither forgets what is owed nor reports it acknowledged.
LEMMA CheckStep ==
    ASSUME NEW O, NEW wr, Sound(wr), Owes(wr, O)
    PROVE  /\ Checked(wr, check_acked_status(wr), O)
           /\ check_acked_status(wr).last_sequence_number = wr.last_sequence_number
<1> DEFINE notified == IF wr.history # {} THEN notify_received_by_all(wr) ELSE wr
           settled == IF AllAcked(wr) THEN NotifyAllAcked(notified) ELSE notified
           last == IF AllAcked(wr) \/ wr.history # {} THEN NotifyMayRemove(settled) ELSE settled
<1>1. check_acked_status(wr) = last
    BY DEF check_acked_status
<1>2. /\ After(wr, notified, O)
      /\ notified.all_acked = wr.all_acked
      /\ notified.last_sequence_number = wr.last_sequence_number
      /\ notified.history \subseteq wr.history
      /\ \A r \in Readers :
            /\ SameReader(wr.matched_readers[r], notified.matched_readers[r])
            /\ notified.matched_readers[r].changes \subseteq wr.matched_readers[r].changes
    <2>1. CASE wr.history # {}
        BY <2>1, ReceivedStep
    <2>2. CASE wr.history = {}
        BY <2>2, AfterNothing DEF SameReader
    <2> QED
        BY <2>1, <2>2
<1> HIDE DEF notified
<1>3. Sound(notified) /\ Owes(notified, O) /\ DOMAIN notified = Fields
    BY <1>2 DEF After, Sound, Typed
<1>4. /\ After(wr, settled, O)
      /\ settled.last_sequence_number = wr.last_sequence_number
      /\ settled.all_acked => wr.all_acked \/ AllAcked(wr)
      /\ settled.matched_readers = notified.matched_readers
    <2>1. CASE AllAcked(wr)
        <3> DEFINE wq == [notified EXCEPT !.next_all_acked = next_sequence_number(notified),
                                          !.min_low_mark = notified.last_seq,
                                          !.all_acked = TRUE]
        <3>1. settled = wq
            BY <2>1 DEF NotifyAllAcked
        <3>2. /\ SameBut(notified, wq, MarkFields) /\ wq.all_acked = TRUE
              /\ wq.next_all_acked = notified.last_seq + 1
              /\ wq.may_remove_change = notified.may_remove_change
              /\ wq.last_sequence_number = notified.last_sequence_number
              /\ wq.matched_readers = notified.matched_readers
            BY <1>3, Zenon DEF SameBut, Fields, MarkFields, next_sequence_number
        <3> HIDE DEF wq
        <3>3. notified.last_seq \in Nat
            BY <1>3 DEF Sound, Typed
        <3>4. \A p \in O : p[2] \notin notified.history
            <4> SUFFICES ASSUME NEW p \in O, p[2] \in notified.history
                         PROVE  FALSE
                OBVIOUS
            <4>1. p[1] \in Readers /\ p[1] \in MatchedReaders(wr)
                BY <1>2 DEF Owes, MatchedReaders
            <4>2. p[2] \in Numbers(wr.matched_readers[p[1]])
                BY <1>2 DEF Owes
            <4> QED
                BY <2>1, <4>1, <4>2 DEF AllAcked, has_changes, Numbers
        <3>6. /\ wq.next_all_acked \in 0 .. (notified.last_seq + 1)
              /\ \A p \in O : p[2] \in notified.history => wq.next_all_acked <= p[2]
            BY <3>2, <3>3, <3>4
        <3>7. wq.all_acked \in BOOLEAN
            BY Zenon, <3>2
        <3>5. After(notified, wq, O)
            BY <1>3, <3>2, <3>6, <3>7, MarkStep
        <3> QED
            BY <1>2, <2>1, <3>1, <3>2, <3>5, AfterAfter
    <2>2. CASE ~AllAcked(wr)
        BY <1>2, <2>2
    <2> QED
        BY <2>1, <2>2
<1> HIDE DEF settled
<1>5. Sound(settled) /\ Owes(settled, O) /\ DOMAIN settled = Fields
    BY <1>4 DEF After, Sound, Typed
<1>6. /\ After(wr, last, O)
      /\ last.last_sequence_number = wr.last_sequence_number
      /\ last.all_acked = settled.all_acked /\ last.matched_readers = settled.matched_readers
    <2> DEFINE wq == [settled EXCEPT !.notify = settled.notify + 1]
    <2>1. /\ SameBut(settled, wq, MarkFields) /\ wq.all_acked = settled.all_acked
          /\ wq.next_all_acked = settled.next_all_acked
          /\ wq.may_remove_change = settled.may_remove_change
          /\ wq.last_sequence_number = settled.last_sequence_number
          /\ wq.matched_readers = settled.matched_readers
        BY <1>5 DEF SameBut, Fields, MarkFields
    <2>2. last = wq \/ last = settled
        BY DEF NotifyMayRemove
    <2> HIDE DEF wq, last
    <2>3. /\ settled.next_all_acked \in 0 .. (settled.last_seq + 1)
          /\ settled.all_acked \in BOOLEAN
        BY <1>5 DEF Sound, Typed
    <2>4. \A p \in O : p[2] \in settled.history => wq.next_all_acked <= p[2]
        BY <1>5, <2>1 DEF Owes
    <2>5. After(settled, wq, O)
        BY <1>5, <2>1, <2>3, <2>4, MarkStep
    <2> QED
        BY <1>4, <2>1, <2>2, <2>5, AfterAfter
<1> HIDE DEF last
<1>7. Told(wr, last)
    <2> SUFFICES ASSUME last.all_acked, ~wr.all_acked, NEW r \in MatchedReaders(last)
                 PROVE  last.matched_readers[r].changes = {}
        BY DEF Told
    <2>1. AllAcked(wr)
        BY <1>4, <1>6
    <2>2. r \in Readers /\ r \in MatchedReaders(wr)
        BY <1>2, <1>4, <1>6 DEF MatchedReaders, SameReader
    <2> QED
        BY <1>2, <1>4, <1>6, <2>1, <2>2 DEF AllAcked, has_changes
<1> QED
    BY <1>1, <1>6, <1>7 DEF Checked

----------------------------------------------------------------------------
(* A new change.                                                           *)

\* The readers that are to receive every change written from now on.
ReliableReaders(wr) == {r \in MatchedReaders(wr) : wr.matched_readers[r].is_reliable}

\* The writer with the next change in its history, not yet in a proxy.
Numbered(wr, full) ==
    [wr EXCEPT !.last_seq = wr.last_seq + 1, !.history = wr.history \cup {wr.last_seq + 1},
               !.isHistoryFull = full]

\* The new number is greater than all that the proxies and the readers know.
LEMMA NumberStep ==
    ASSUME NEW O, NEW wr, Sound(wr), Owes(wr, O), NEW full \in BOOLEAN
    PROVE  Sound(Numbered(wr, full)) /\ Owes(Numbered(wr, full), O)
<1> DEFINE w1 == Numbered(wr, full)
           n == wr.last_seq + 1
<1>1. Typed(wr) /\ DOMAIN wr = Fields /\ wr.last_seq \in Nat /\ n \in Nat
      /\ wr.history \in SUBSET (1 .. wr.last_seq)
    BY DEF Sound, Typed
<1>2. /\ DOMAIN w1 = Fields /\ w1.qos = wr.qos /\ w1.last_seq = n
      /\ w1.history = wr.history \cup {n} /\ w1.matched_readers = wr.matched_readers
      /\ w1.next_all_acked = wr.next_all_acked
      /\ w1.last_sequence_number = wr.last_sequence_number
      /\ w1.ack_event = wr.ack_event /\ w1.all_acked = wr.all_acked
      /\ w1.periodic_hb = wr.periodic_hb /\ w1.nack_response = wr.nack_response
      /\ w1.async_pending = wr.async_pending /\ w1.isHistoryFull = full
      /\ w1.out = wr.out /\ w1.may_remove_change = wr.may_remove_change
    BY <1>1 DEF Numbered, Fields
<1> HIDE DEF w1
<1>3. OutOK(w1.out, n)
    BY <1>1, <1>2 DEF Typed, OutOK
<1>4. Typed(w1)
    <2>1. w1.history \in SUBSET (1 .. n)
        BY <1>1, <1>2
    <2>2. /\ w1.next_all_acked \in 0 .. (n + 1) /\ w1.last_sequence_number \in 0 .. (n + 1)
          /\ w1.ack_event => w1.last_sequence_number <= n
        BY <1>1, <1>2 DEF Typed
    <2> QED
        BY <1>1, <1>2, <1>3, <2>1, <2>2 DEF Typed
<1>5. \A r \in Readers : InOrder(w1, r)
    <2> SUFFICES ASSUME NEW r \in Readers PROVE InOrder(w1, r)
        OBVIOUS
    <2>1. /\ ProxyOK(wr.matched_readers[r], wr.history, wr.last_seq)
          /\ wr.matched_readers[r].low_mark \in Nat
        BY DEF Sound, InOrder, ProxyOK, ReaderProxyState
    <2>2. ProxyOK(wr.matched_readers[r], wr.history \cup {n}, n)
        BY <1>1, <2>1 DEF ProxyOK
    <2> QED
        BY <1>2, <2>2 DEF Sound, InOrder
<1>6. Owes(w1, O)
    <2> SUFFICES ASSUME NEW p \in O
                 PROVE  /\ p \in Readers \X Nat
                        /\ w1.matched_readers[p[1]].is_active
                        /\ w1.matched_readers[p[1]].is_reliable
                        /\ p[2] <= w1.last_seq
                        /\ p[2] \in w1.history =>
                            /\ p[2] \in Numbers(w1.matched_readers[p[1]])
                            /\ w1.next_all_acked <= p[2]
        BY DEF Owes
    <2>1. p[2] \in Nat /\ p[2] <= wr.last_seq
        BY DEF Owes
    <2>2. p[2] # n /\ p[2] <= n
        BY <1>1, <2>1
    <2> QED
        BY <1>2, <2>1, <2>2 DEF Owes
<1> QED
    BY <1>4, <1>5, <1>6 DEF Sound, w1

\* The pairs that a new change n adds to those that are owed.
News(wr, n) == ReliableReaders(wr) \X {n}

\* What unsent_change_added_to_history does to the proxies.
LEMMA DeliveryStep ==
    ASSUME NEW O, NEW wr, Sound(wr), Owes(wr, O), NEW full \in BOOLEAN,
           NEW w1, w1 = Numbered(wr, full), NEW n, n = wr.last_seq + 1,
           NEW wq, SameBut(w1, wq, OutFields \cup {"matched_readers"}),
           wq.matched_readers \in [Readers -> ReaderProxyState],
           OutOK(wq.out, n), TimersOK(wq, n),
           \A r \in Readers :
                /\ Carries(wr.matched_readers[r], wq.matched_readers[r], wr.history \cup {n}, n, Nat)
                /\ Timely(wq.matched_readers[r], wq.async_pending, wq.nack_response)
                /\ r \in ReliableReaders(wr) => n \in Numbers(wq.matched_readers[r])
    PROVE  Quiet(w1, wq, O) /\ Owes(wq, O \cup News(wr, n))
<1>1. Sound(w1) /\ Owes(w1, O)
    BY NumberStep
<1>2. DOMAIN wr = Fields /\ wr.last_seq \in Nat /\ wr.next_all_acked \in 0 .. n
    BY DEF Sound, Typed
<1>3. /\ w1.matched_readers = wr.matched_readers /\ w1.history = wr.history \cup {n}
      /\ w1.last_seq = n /\ w1.next_all_acked = wr.next_all_acked
    BY <1>2 DEF Numbered, Fields
<1>4. \A r \in Readers :
        /\ Carries(w1.matched_readers[r], wq.matched_readers[r], w1.history, w1.last_seq,
                   OwedTo(O, r))
        /\ Timely(wq.matched_readers[r], wq.async_pending, wq.nack_response)
    BY <1>3, Zenon DEF Carries, OwedTo
<1>5. Quiet(w1, wq, O)
    BY <1>1, <1>3, <1>4, ProxiesStep, Zenon
<1>6. wq.history = w1.history /\ wq.last_seq = n /\ wq.next_all_acked = wr.next_all_acked
    BY <1>3 DEF SameBut, Fields, OutFields
<1>7. Owes(wq, News(wr, n))
    <2> SUFFICES ASSUME NEW r \in ReliableReaders(wr), NEW p, p = <<r, n>>
                 PROVE  /\ p \in Readers \X Nat
                        /\ wq.matched_readers[p[1]].is_active
                        /\ wq.matched_readers[p[1]].is_reliable
                        /\ p[2] <= wq.last_seq
                        /\ p[2] \in wq.history =>
                            /\ p[2] \in Numbers(wq.matched_readers[p[1]])
                            /\ wq.next_all_acked <= p[2]
        BY DEF Owes, News
    <2>1. r \in Readers /\ wr.matched_readers[r].is_active /\ wr.matched_readers[r].is_reliable
        BY DEF ReliableReaders, MatchedReaders
    <2> QED
        BY <1>2, <1>6, <2>1 DEF Carries, SameReader
<1> QED
    BY <1>5, <1>7, Zenon DEF Quiet, After, Owes

\* Fields of the writer with its new change.
LEMMA NumberedIs ==
    ASSUME NEW wr, Sound(wr), NEW full \in BOOLEAN, NEW w1, w1 = Numbered(wr, full)
    PROVE  /\ Sound(w1) /\ DOMAIN w1 = Fields
           /\ w1.matched_readers = wr.matched_readers /\ w1.qos = wr.qos
           /\ w1.history = wr.history \cup {wr.last_seq + 1} /\ w1.last_seq = wr.last_seq + 1
           /\ MatchedReaders(w1) = MatchedReaders(wr) /\ ReliableReaders(w1) = ReliableReaders(wr)
           /\ w1.may_remove_change = wr.may_remove_change
           /\ w1.last_sequence_number \in Nat /\ w1.last_sequence_number <= w1.last_seq
<1>1. Owes(wr, {})
    BY DEF Owes
<1>2. Sound(w1)
    BY <1>1, NumberStep
<1>3. DOMAIN wr = Fields
    BY DEF Sound, Typed
<1>4. /\ w1.matched_readers = wr.matched_readers /\ w1.qos = wr.qos
      /\ w1.history = wr.history \cup {wr.last_seq + 1} /\ w1.last_seq = wr.last_seq + 1
      /\ w1.may_remove_change = wr.may_remove_change
    BY <1>3 DEF Numbered, Fields
<1>5. w1.last_sequence_number = wr.last_sequence_number
    BY <1>3 DEF Numbered, Fields
<1>6. w1.last_sequence_number \in Nat /\ w1.last_sequence_number <= w1.last_seq
    BY <1>4, <1>5 DEF Sound, Typed
<1> QED
    BY <1>2, <1>4, <1>6 DEF Sound, Typed, MatchedReaders, ReliableReaders

\* Reader r of wr has got the proxy rq with the new change n.
Delivered(wr, r, rq, n, async_pending, nack_response) ==
    /\ rq \in ReaderProxyState
    /\ Carries(wr.matched_readers[r], rq, wr.history \cup {n}, n, Nat)
    /\ Timely(rq, async_pending, nack_response)
    /\ r \in ReliableReaders(wr) => n \in Numbers(rq)

\* A proxy with the new change n, or that of a reader that is not matched.
LEMMA ProxyWithNew ==
    ASSUME NEW wr, Sound(wr), NEW r \in Readers, NEW n, n = wr.last_seq + 1,
           NEW rp, ProxyOK(rp, wr.history, wr.last_seq), SameReader(wr.matched_readers[r], rp),
           rp.changes = wr.matched_readers[r].changes,
           wr.matched_readers[r].nack_supression => rp.nack_supression,
           NEW status \in ChangeForReaderStatus, rp.is_reliable => status # "ACKNOWLEDGED",
           NEW rq, rq = IF r \in MatchedReaders(wr) THEN add_change(rp, n, status, TRUE) ELSE rp,
           NEW async_pending, NEW nack_response,
           wr.async_pending => async_pending, wr.nack_response => nack_response,
           r \in MatchedReaders(wr) =>
                /\ status = "UNSENT" => async_pending
                /\ status = "REQUESTED" => nack_response
                /\ status = "UNDERWAY" => rp.nack_supression
    PROVE  Delivered(wr, r, rq, n, async_pending, nack_response)
<1> DEFINE ro == wr.matched_readers[r]
<1>1. /\ wr.last_seq \in Nat /\ wr.history \in SUBSET (1 .. wr.last_seq)
      /\ Timely(ro, wr.async_pending, wr.nack_response)
    BY DEF Sound, Typed, InOrder
<1>2. Timely(rp, async_pending, nack_response)
    BY <1>1 DEF Timely
<1>3. CASE r \in MatchedReaders(wr)
    <2>1. rp.is_active
        BY <1>3 DEF MatchedReaders, SameReader
    <2>2. Added(rp, rq, status, wr.history \cup {n}, n)
        BY <1>1, <1>3, <2>1, AddedCarries, Zenon
    <2>3. Carries(ro, rq, wr.history \cup {n}, n, Nat)
        BY <2>2, Zenon DEF Added, Carries, SameReader, Numbers
    <2>4. Timely(rq, async_pending, nack_response)
        BY <1>2, <1>3, <2>2, Zenon DEF Added, Timely
    <2> QED
        BY <2>2, <2>3, <2>4, Zenon DEF ReliableReaders, Added, Carries, ProxyOK, SameReader, Delivered
<1>4. CASE r \notin MatchedReaders(wr)
    <2>1. rq = rp /\ ~rp.is_active /\ r \notin ReliableReaders(wr)
        BY <1>4, Zenon DEF MatchedReaders, ReliableReaders, SameReader
    <2>2. rp.changes = {} /\ rp \in ReaderProxyState /\ rp.low_mark \in Nat
        BY <2>1 DEF ProxyOK, ReaderProxyState
    <2>3. ProxyOK(rp, wr.history \cup {n}, n)
        BY <1>1, <2>1, <2>2 DEF ProxyOK
    <2> QED
        BY <1>2, <2>1, <2>2, <2>3, Zenon DEF Carries, Numbers, Delivered
<1> QED
    BY <1>3, <1>4, Zenon

\* async_delivery: the asynchronous thread is woken for what it has to send.
LEMMA AsyncStep ==
    ASSUME NEW O, NEW wr, Sound(wr), Owes(wr, O), NEW full \in BOOLEAN,
           NEW w1, w1 = Numbered(wr, full), NEW n, n = wr.last_seq + 1
    PROVE  Quiet(w1, async_delivery(w1, n), O) /\ Owes(async_delivery(w1, n), O \cup News(wr, n))
<1> DEFINE M == MatchedReaders(wr)
           mr == wr.matched_readers
           St(rp) == IF wr.qos.push_mode \/ ~rp.is_reliable THEN "UNSENT" ELSE "UNACKNOWLEDGED"
           mq == [r \in Readers |-> IF r \in M THEN add_change(mr[r], n, St(mr[r]), TRUE)
                                    ELSE mr[r]]
           wq == async_delivery(w1, n)
<1>1. /\ Sound(w1) /\ DOMAIN w1 = Fields /\ w1.matched_readers = mr /\ w1.qos = wr.qos
      /\ w1.last_seq = n /\ MatchedReaders(w1) = M
    BY NumberedIs
<1> HIDE DEF M
<1>2. SentAtOnce(w1) = {r \in M : wr.qos.push_mode \/ ~mr[r].is_reliable}
    BY <1>1 DEF SentAtOnce
<1>3. OnReaders(w1, MatchedReaders(w1),
                LAMBDA rp : add_change(rp, n, IF w1.qos.push_mode \/ ~rp.is_reliable
                                              THEN "UNSENT" ELSE "UNACKNOWLEDGED", TRUE))
        = [w1 EXCEPT !.matched_readers = mq]
    BY <1>1 DEF OnReaders
<1>4. wq = IF SentAtOnce(w1) # {}
           THEN [[w1 EXCEPT !.matched_readers = mq] EXCEPT !.async_pending = TRUE]
           ELSE [[w1 EXCEPT !.matched_readers = mq] EXCEPT !.periodic_hb = TRUE]
    BY <1>3, Zenon DEF async_delivery
<1> HIDE DEF wq, mq, St
<1>5. /\ SameBut(w1, wq, OutFields \cup {"matched_readers"}) /\ wq.matched_readers = mq
      /\ wq.out = w1.out /\ wq.nack_response = w1.nack_response
      /\ wq.ack_event = w1.ack_event /\ wq.last_sequence_number = w1.last_sequence_number
      /\ wq.async_pending = TRUE \/ wq.async_pending = w1.async_pending
      /\ wq.periodic_hb = TRUE \/ wq.periodic_hb = w1.periodic_hb
      /\ SentAtOnce(w1) # {} => wq.async_pending
    BY <1>1, <1>4, Zenon DEF SameBut, Fields, OutFields
<1>6. OutOK(wq.out, n) /\ TimersOK(wq, n)
    BY <1>1, <1>5, Zenon DEF Sound, Typed, TimersOK
<1>7. wr.async_pending => wq.async_pending
    BY <1>5 DEF Numbered, Sound, Typed, Fields
<1>8. wr.nack_response => wq.nack_response
    BY <1>5 DEF Numbered, Sound, Typed, Fields
<1>9. ASSUME NEW r \in Readers
      PROVE  Delivered(wr, r, mq[r], n, wq.async_pending, wq.nack_response)
    <2>1. ProxyOK(mr[r], wr.history, wr.last_seq) /\ SameReader(mr[r], mr[r])
        BY DEF Sound, InOrder, SameReader
    <2>2. /\ St(mr[r]) \in ChangeForReaderStatus
          /\ St(mr[r]) # "ACKNOWLEDGED" /\ St(mr[r]) # "REQUESTED" /\ St(mr[r]) # "UNDERWAY"
        BY DEF St, ChangeForReaderStatus
    <2>3. r \in MatchedReaders(wr) => (St(mr[r]) = "UNSENT" => wq.async_pending)
        BY <1>2, <1>5 DEF St, M
    <2>4. mq[r] = IF r \in MatchedReaders(wr) THEN add_change(mr[r], n, St(mr[r]), TRUE)
                  ELSE mr[r]
        BY DEF mq, M
    <2> QED
        BY <1>7, <1>8, <2>1, <2>2, <2>3, <2>4, ProxyWithNew, Zenon
<1>10. mq \in [Readers -> ReaderProxyState]
    BY <1>9, Zenon DEF mq, Delivered
<1> QED
    BY <1>5, <1>6, <1>9, <1>10, DeliveryStep, ZenonT(30) DEF wq, Delivered

\* The proxies get the new change, then it is sent and the status is checked.
Delivers(w1, wq, O, P) ==
    \E wa :
        /\ Quiet(w1, wa, O) /\ Owes(wa, P)
        /\ wa.history = w1.history /\ wa.may_remove_change = w1.may_remove_change
        /\ Checked(wa, wq, P)
        /\ wq.last_sequence_number <= w1.last_seq

\* An asynchronous writer delivers the new change.
LEMMA AsyncDelivers ==
    ASSUME NEW O, NEW wr, Sound(wr), Owes(wr, O), NEW full \in BOOLEAN,
           NEW w1, w1 = Numbered(wr, full), NEW n, n = wr.last_seq + 1
    PROVE  Delivers(w1, async_delivery(w1, n), O, O \cup News(wr, n))
<1> DEFINE wq == async_delivery(w1, n)
           P == O \cup News(wr, n)
<1>1. Quiet(w1, wq, O) /\ Owes(wq, P)
    BY AsyncStep
<1>2. DOMAIN w1 = Fields
    BY NumberedIs
<1>3. /\ wq.history = w1.history /\ wq.may_remove_change = w1.may_remove_change
      /\ wq.last_sequence_number = w1.last_sequence_number
    BY <1>2 DEF async_delivery, OnReaders, Fields
<1>6. wq.last_sequence_number <= w1.last_seq
    BY <1>3, NumberedIs
<1> HIDE DEF wq, P
<1>4. After(wq, wq, P)
    BY <1>1, AfterNothing DEF Quiet, After
<1>5. Checked(wq, wq, P)
    BY <1>4 DEF Checked, Told
<1> QED
    BY <1>1, <1>3, <1>5, <1>6 DEF Delivers, wq, P

\* sync_delivery, whether or not the send gives up.
LEMMA SyncDelivers ==
    ASSUME NEW O, NEW wr, Sound(wr), Owes(wr, O), NEW full \in BOOLEAN,
           NEW w1, w1 = Numbered(wr, full), NEW n, n = wr.last_seq + 1, NEW timeout \in BOOLEAN
    PROVE  Delivers(w1, sync_delivery(w1, n, timeout), O, O \cup News(wr, n))
<1> DEFINE M == MatchedReaders(wr)
           mr == wr.matched_readers
           Pre(rp) == restart_nack_supression(rp)
           St(rp) == sync_status(w1, rp)
           mq == [r \in Readers |-> IF r \in M THEN add_change(Pre(mr[r]), n, St(mr[r]), TRUE)
                                    ELSE mr[r]]
           wa == [w1 EXCEPT !.matched_readers = mq]
           to == SentAtOnce(w1)
           wd == add_data(wa, to, n)
           ws == send_heartbeat_nts(wd, Cardinality(M), to, w1.qos.disable_positive_acks)
           lsn == IF w1.qos.disable_positive_acks /\ ws.last_sequence_number = 0
                  THEN n ELSE ws.last_sequence_number
           wz == CASE to = {} -> [wa EXCEPT !.periodic_hb = TRUE]
                   [] to # {} /\ timeout -> wa
                   [] to # {} /\ ~timeout ->
                        [ws EXCEPT !.periodic_hb = TRUE, !.last_sequence_number = lsn]
           P == O \cup News(wr, n)
<1>1. /\ Sound(w1) /\ DOMAIN w1 = Fields /\ w1.matched_readers = mr /\ w1.qos = wr.qos
      /\ w1.last_seq = n /\ MatchedReaders(w1) = M
    BY NumberedIs
<1>13. n \in Nat
    BY DEF Sound, Typed
<1>2. sync_delivery(w1, n, timeout) = check_acked_status(wz)
    <2>1. OnReaders(w1, MatchedReaders(w1),
                    LAMBDA rp : add_change(restart_nack_supression(rp), n,
                                           sync_status(w1, rp), TRUE)) = wa
        BY <1>1 DEF OnReaders
    <2> HIDE DEF wa
    <2> QED
        BY <1>1, <2>1, Zenon DEF sync_delivery
<1> HIDE DEF M
<1>3. /\ SameBut(w1, wa, {"matched_readers"}) /\ wa.matched_readers = mq
      /\ SameBut(w1, wa, OutFields \cup {"matched_readers"})
      /\ wa.out = w1.out /\ wa.history = w1.history /\ wa.last_seq = n
      /\ wa.may_remove_change = w1.may_remove_change
      /\ wa.nack_response = w1.nack_response /\ wa.async_pending = w1.async_pending
      /\ wa.ack_event = w1.ack_event /\ wa.last_sequence_number = w1.last_sequence_number
      /\ wa.periodic_hb = w1.periodic_hb /\ DOMAIN wa = Fields
    BY <1>1, Zenon DEF SameBut, Fields, OutFields
<1>4. /\ wr.async_pending => wa.async_pending
      /\ wr.nack_response => wa.nack_response
    BY <1>3 DEF Numbered, Sound, Typed, Fields
<1> HIDE DEF wa, mq, St, Pre
<1>5. OutOK(wa.out, n) /\ TimersOK(wa, n)
    BY <1>1, <1>3 DEF Sound, Typed, TimersOK
<1>6. ASSUME NEW r \in Readers
      PROVE  Delivered(wr, r, mq[r], n, wa.async_pending, wa.nack_response)
    <2> DEFINE ro == mr[r]
               rp == IF r \in MatchedReaders(wr) THEN Pre(ro) ELSE ro
    <2>1. /\ ProxyOK(ro, wr.history, wr.last_seq) /\ ro \in ReaderProxyState
          /\ ro.is_reliable \in BOOLEAN /\ ro.nack_supression \in BOOLEAN
        BY DEF Sound, InOrder, ProxyOK, ReaderProxyState
    <2>2. /\ Pre(ro) \in ReaderProxyState /\ SameReader(ro, Pre(ro))
          /\ Pre(ro).changes = ro.changes /\ Pre(ro).low_mark = ro.low_mark
        BY <2>1 DEF Pre, restart_nack_supression, ReaderProxyState, SameReader
    <2>3. Pre(ro).nack_supression = (ro.nack_supression \/ ro.is_reliable)
        BY <2>1 DEF Pre, restart_nack_supression, ReaderProxyState
    <2>4. ProxyOK(Pre(ro), wr.history, wr.last_seq)
        BY <2>1, <2>2 DEF ProxyOK, SameReader
    <2>5. /\ ProxyOK(rp, wr.history, wr.last_seq) /\ SameReader(ro, rp)
          /\ rp.changes = ro.changes /\ (ro.nack_supression => rp.nack_supression)
        BY <2>1, <2>2, <2>3, <2>4, Zenon DEF SameReader
    <2>6. r \in MatchedReaders(wr) => (ro.is_reliable => rp.nack_supression)
        BY <2>3, Zenon
    <2>7. /\ St(ro) \in ChangeForReaderStatus
          /\ St(ro) # "UNSENT" /\ St(ro) # "REQUESTED"
          /\ ro.is_reliable => St(ro) # "ACKNOWLEDGED"
          /\ St(ro) = "UNDERWAY" => ro.is_reliable
        BY <2>1 DEF St, sync_status, ChangeForReaderStatus
    <2>8. mq[r] = IF r \in MatchedReaders(wr) THEN add_change(rp, n, St(ro), TRUE) ELSE rp
        BY DEF mq, M
    <2> HIDE DEF rp
    <2>9. PICK st \in ChangeForReaderStatus : st = St(ro)
        BY <2>7
    <2>10. rp.is_reliable => st # "ACKNOWLEDGED"
        BY <2>5, <2>7, <2>9 DEF SameReader
    <2>11. r \in MatchedReaders(wr) =>
                /\ st = "UNSENT" => wa.async_pending
                /\ st = "REQUESTED" => wa.nack_response
                /\ st = "UNDERWAY" => rp.nack_supression
        BY <2>6, <2>7, <2>9
    <2> QED
        BY <1>4, <2>5, <2>8, <2>9, <2>10, <2>11, ProxyWithNew, ZenonT(30)
<1>7. mq \in [Readers -> ReaderProxyState]
    BY <1>6, Zenon DEF mq, Delivered
<1>8. Quiet(w1, wa, O) /\ Owes(wa, P)
    BY <1>3, <1>5, <1>6, <1>7, DeliveryStep, Zenon DEF Delivered
<1>14. wa.last_sequence_number \in Nat /\ wa.last_sequence_number <= n
    BY <1>1, <1>3, NumberedIs
<1>9. Quiet(wa, wz, P) /\ wz.last_sequence_number <= n
    <2>1. Sound(wa) /\ Typed(wa) /\ wa.last_seq = n
        BY <1>3, <1>8 DEF Quiet, After, Sound
    <2>2. Sends(wa, wd)
        BY <1>13, <2>1, DataSends
    <2>3. Typed(wd) /\ wd.last_seq = n
        BY <2>1, <2>2, SendsTyped
    <2> HIDE DEF wd
    <2>4. Sends(wa, ws)
        BY <2>2, <2>3, HeartbeatSends, SendsTwice
    <2> HIDE DEF ws
    <2>5. /\ DOMAIN ws = Fields /\ SameBut(wa, ws, {"out"}) /\ OutOK(ws.out, n)
          /\ ws.periodic_hb = wa.periodic_hb /\ ws.nack_response = wa.nack_response
          /\ ws.async_pending = wa.async_pending /\ ws.ack_event = wa.ack_event
          /\ ws.last_sequence_number = wa.last_sequence_number
        BY <2>1, <2>4 DEF Sends, SameBut, Fields
    <2>6. CASE to = {}
        <3>1. wz = [wa EXCEPT !.periodic_hb = TRUE]
            BY <2>6
        <3> HIDE DEF wz
        <3>2. /\ SameBut(wa, wz, OutFields) /\ wz.out = wa.out /\ wz.periodic_hb = TRUE
              /\ wz.nack_response = wa.nack_response /\ wz.async_pending = wa.async_pending
              /\ wz.ack_event = wa.ack_event
              /\ wz.last_sequence_number = wa.last_sequence_number
            BY <1>3, <3>1 DEF SameBut, Fields, OutFields
        <3>3. TimersOK(wz, n)
            BY <1>5, <3>2, Zenon DEF TimersOK
        <3> QED
            BY <1>5, <1>8, <1>14, <2>1, <3>2, <3>3, OutStep
    <2>7. CASE to # {} /\ timeout
        <3>1. wz = wa
            BY <2>7
        <3> HIDE DEF wz
        <3> QED
            BY <1>8, <1>14, <2>1, <3>1, AfterNothing DEF Quiet
    <2>8. CASE to # {} /\ ~timeout
        <3>1. wz = [ws EXCEPT !.periodic_hb = TRUE, !.last_sequence_number = lsn]
            BY <2>8
        <3>2. lsn \in 0 .. (n + 1) /\ lsn <= n
            BY <1>13, <1>14, <1>5, <2>5 DEF TimersOK
        <3> HIDE DEF wz, lsn
        <3>3. /\ SameBut(wa, wz, OutFields) /\ wz.out = ws.out /\ wz.periodic_hb = TRUE
              /\ wz.nack_response = wa.nack_response /\ wz.async_pending = wa.async_pending
              /\ wz.ack_event = wa.ack_event /\ wz.last_sequence_number = lsn
            BY <2>5, <3>1, Zenon DEF SameBut, Fields, OutFields
        <3>4. TimersOK(wz, n)
            BY <1>5, <3>2, <3>3, Zenon DEF TimersOK
        <3> QED
            BY <1>8, <2>1, <2>5, <3>2, <3>3, <3>4, OutStep
    <2> QED
        BY <2>6, <2>7, <2>8
<1> HIDE DEF wz, P
<1>10. Sound(wz) /\ Owes(wz, P)
    BY <1>9 DEF Quiet, After
<1>11. /\ Checked(wz, check_acked_status(wz), P)
       /\ check_acked_status(wz).last_sequence_number = wz.last_sequence_number
    BY <1>10, CheckStep
<1>12. Checked(wa, check_acked_status(wz), P)
    BY <1>9, <1>11, QuietChecked
<1> QED
    BY <1>1, <1>2, <1>3, <1>8, <1>9, <1>11, <1>12 DEF Delivers, P

\* What a write that succeeds makes of the writer: the new change is owed too.
Written(wr, wq, O) ==
    LET n == wr.last_seq + 1
        P == O \cup News(wr, n)
    IN  /\ Sound(wq) /\ Owes(wq, P)
        /\ wq.qos = wr.qos /\ wq.last_seq = n
        /\ Keeps(wr, O) => Keeps(wq, P) /\ (Ready(wr, O) /\ ~wr.qos.volatile => Ready(wq, P))
        /\ Told(wr, wq)

\* WriterHistory::add_change_ on a history that is not full.
LEMMA AddStep ==
    ASSUME NEW O, NEW wr, Sound(wr), Owes(wr, O), NEW timeout \in BOOLEAN
    PROVE  Written(wr, add_change_to_history(wr, timeout), O)
<1> DEFINE n == wr.last_seq + 1
           P == O \cup News(wr, n)
           full == (Cardinality(wr.history) + 1 = wr.qos.max_samples)
           w1 == Numbered(wr, full)
           M == MatchedReaders(w1)
           wx == IF M = {} THEN check_acked_status(w1)
                 ELSE IF w1.qos.async THEN async_delivery(w1, n) ELSE sync_delivery(w1, n, timeout)
           wq == IF M = {} THEN wx
                 ELSE [wx EXCEPT !.ack_event = wx.ack_event \/ w1.qos.disable_positive_acks]
<1>1. add_change_to_history(wr, timeout) = wq
    BY DEF add_change_to_history, unsent_change_added_to_history, Numbered, next_sequence_number
<1>2. full \in BOOLEAN
    OBVIOUS
<1> HIDE DEF full
<1>3. Sound(w1) /\ Owes(w1, O)
    BY <1>2, NumberStep
<1>4. /\ w1.qos = wr.qos /\ w1.history = wr.history \cup {n} /\ w1.last_seq = n
      /\ M = MatchedReaders(wr) /\ w1.may_remove_change = wr.may_remove_change
    BY <1>2, NumberedIs
<1>5. w1.all_acked => wr.all_acked
    BY DEF Numbered, Sound, Typed, Fields
<1>6. Delivers(w1, wx, O, P)
    <2>1. CASE M = {}
        <3>1. P = O
            BY <1>4, <2>1 DEF News, ReliableReaders
        <3>2. wx = check_acked_status(w1)
            BY <2>1
        <3>3. /\ Checked(w1, check_acked_status(w1), O)
              /\ check_acked_status(w1).last_sequence_number = w1.last_sequence_number
            BY <1>3, CheckStep
        <3>4. w1.last_sequence_number <= w1.last_seq
            BY <1>2, NumberedIs
        <3> HIDE DEF w1, wx, P
        <3>5. Quiet(w1, w1, O)
            BY <1>3, AfterNothing DEF Quiet
        <3> QED
            BY <1>3, <3>1, <3>2, <3>3, <3>4, <3>5 DEF Delivers
    <2>2. CASE M # {} /\ w1.qos.async
        <3>1. wx = async_delivery(w1, n)
            BY <2>2
        <3>2. Delivers(w1, async_delivery(w1, n), O, P)
            BY <1>2, AsyncDelivers
        <3> QED
            BY <3>1, <3>2
    <2>3. CASE M # {} /\ ~w1.qos.async
        <3>1. wx = sync_delivery(w1, n, timeout)
            BY <2>3
        <3>2. Delivers(w1, sync_delivery(w1, n, timeout), O, P)
            BY <1>2, SyncDelivers
        <3> QED
            BY <3>1, <3>2
    <2> QED
        BY <2>1, <2>2, <2>3
<1> HIDE DEF wx, w1, M
<1>7. PICK wa : /\ Quiet(w1, wa, O) /\ Owes(wa, P)
                /\ wa.history = w1.history /\ wa.may_remove_change = w1.may_remove_change
                /\ Checked(wa, wx, P) /\ wx.last_sequence_number <= w1.last_seq
    BY <1>6 DEF Delivers
<1>8. Sound(wx) /\ Owes(wx, P) /\ wx.qos = wr.qos /\ wx.last_seq = n /\ DOMAIN wx = Fields
    BY <1>4, <1>7, Zenon DEF Checked, After, Quiet, Sound, Typed
<1>9. Checked(wa, wq, P)
    <2>1. CASE M = {}
        BY <1>7, <2>1
    <2>2. CASE M # {}
        <3> DEFINE e == wx.ack_event \/ w1.qos.disable_positive_acks
        <3>1. wq = [wx EXCEPT !.ack_event = e]
            BY <2>2
        <3>2. e \in BOOLEAN
            OBVIOUS
        <3> HIDE DEF e, wq
        <3>3. /\ SameBut(wx, wq, OutFields) /\ wq.out = wx.out /\ wq.all_acked = wx.all_acked
              /\ wq.matched_readers = wx.matched_readers /\ wq.periodic_hb = wx.periodic_hb
              /\ wq.nack_response = wx.nack_response /\ wq.async_pending = wx.async_pending
              /\ wq.ack_event = e /\ wq.last_sequence_number = wx.last_sequence_number
            BY <1>8, <3>1 DEF SameBut, Fields, OutFields
        <3>4. TimersOK(wq, n) /\ OutOK(wq.out, n)
            BY <1>4, <1>7, <1>8, <3>2, <3>3, Zenon DEF Sound, Typed, TimersOK
        <3>5. Quiet(wx, wq, P)
            BY <1>8, <3>3, <3>4, OutStep, Zenon
        <3>6. After(wa, wq, P)
            BY <1>7, <3>5, AfterAfter DEF Checked, Quiet
        <3>7. Told(wa, wq)
            BY <1>7, <3>3 DEF Checked, Told, MatchedReaders
        <3> QED
            BY <3>6, <3>7 DEF Checked
    <2> QED
        BY <2>1, <2>2
<1> HIDE DEF wq
<1>10. wa.qos = wr.qos /\ wa.last_seq = n
    BY <1>4, <1>7 DEF Quiet, After
<1>11. /\ Sound(wq) /\ Owes(wq, P) /\ wq.qos = wr.qos /\ wq.last_seq = n
       /\ Keeps(wa, P) => Keeps(wq, P) /\ (Ready(wa, P) => Ready(wq, P))
    BY <1>9, <1>10 DEF Checked, After
<1>12. Told(wr, wq)
    BY <1>5, <1>7, <1>9 DEF Checked, Told, Quiet
<1>13. Keeps(wr, O) => Keeps(wa, P)
    BY <1>4, <1>7, <1>10 DEF Keeps, News
<1>14. Ready(wr, O) /\ ~wr.qos.volatile => Ready(wa, P)
    <2> SUFFICES ASSUME Ready(wr, O), ~wr.qos.volatile, wr.qos.keep_all, wa.may_remove_change = 1
                 PROVE  wa.history # {} /\ \A p \in P : Least(wa.history) < p[2]
        BY <1>10 DEF Ready
    <2> DEFINE l == Least(wr.history)
               k == Least(wa.history)
    <2>1. wr.history # {} /\ \A p \in O : l < p[2]
        BY <1>4, <1>7 DEF Ready
    <2>2. wr.history \in SUBSET (1 .. wr.last_seq) /\ wr.last_seq \in Nat
        BY DEF Sound, Typed
    <2>3. wa.history = wr.history \cup {n}
        BY <1>4, <1>7
    <2>4. l \in wr.history
        BY <2>1, <2>2, LeastIs
    <2>5. k \in wa.history /\ \A m \in wa.history : k <= m
        BY <2>2, <2>3, LeastIs
    <2> HIDE DEF l, k
    <2>6. k <= l /\ l < n /\ k \in Nat /\ l \in Nat
        BY <2>2, <2>3, <2>4, <2>5
    <2>7. ASSUME NEW p \in P PROVE k < p[2]
        <3>1. CASE p \in O
            <4>1. p[2] \in Nat /\ l < p[2]
                BY <2>1, <3>1 DEF Owes
            <4> QED
                BY <2>6, <4>1
        <3>2. CASE p \in News(wr, n)
            <4>1. p[2] = n
                BY <3>2 DEF News
            <4> QED
                BY <2>2, <2>6, <4>1
        <3> QED
            BY <3>1, <3>2
    <2> QED
        BY <2>3, <2>7 DEF k
<1> HIDE DEF P
<1>15. /\ Sound(wq) /\ Owes(wq, O \cup News(wr, n)) /\ wq.qos = wr.qos /\ wq.last_seq = n
       /\ Keeps(wr, O) => /\ Keeps(wq, O \cup News(wr, n))
                          /\ Ready(wr, O) /\ ~wr.qos.volatile => Ready(wq, O \cup News(wr, n))
       /\ Told(wr, wq)
    BY <1>11, <1>12, <1>13, <1>14 DEF P
<1> QED
    BY <1>1, <1>15 DEF Written

----------------------------------------------------------------------------
(* The pieces of a write.                                                  *)

\* What is owed after a piece that leaves the writer in wq.
Due(wr, wq, O) == O \cup (ReliableReaders(wr) \X ((wr.last_seq + 1) .. wq.last_seq))

\* What a piece of a write makes of the writer.
Piece(wr, piece, O) ==
    /\ Sound(piece.wr) /\ Owes(piece.wr, Due(wr, piece.wr, O))
    /\ piece.wr.qos = wr.qos
    /\ piece.wr.last_seq \in {wr.last_seq, wr.last_seq + 1}
    /\ Told(wr, piece.wr)
    /\ piece.pc \in {"idle", "room", "ack"}
    /\ piece.pc = "room" => piece.wr.may_remove_change = 0

KeepsPiece(wr, wq, O) ==
    Keeps(wr, O) =>
        /\ Keeps(wq, Due(wr, wq, O))
        /\ Ready(wr, O) /\ ~wr.qos.volatile => Ready(wq, Due(wr, wq, O))

\* A piece that adds no change.
LEMMA NoChange ==
    ASSUME NEW O, NEW wr, Sound(wr), NEW wq, wq.last_seq = wr.last_seq
    PROVE  Due(wr, wq, O) = O
<1>1. (wr.last_seq + 1) .. wq.last_seq = {}
    BY DEF Sound, Typed
<1> QED
    BY <1>1 DEF Due

\* A piece that adds one.
LEMMA OneChange ==
    ASSUME NEW O, NEW wr, Sound(wr), NEW wq, wq.last_seq = wr.last_seq + 1
    PROVE  Due(wr, wq, O) = O \cup News(wr, wr.last_seq + 1)
<1>1. (wr.last_seq + 1) .. wq.last_seq = {wr.last_seq + 1}
    BY DEF Sound, Typed
<1> QED
    BY <1>1 DEF Due, News

\* The piece runs after a step that writes nothing.
LEMMA PieceLater ==
    ASSUME NEW O, NEW wr, NEW w1, w1.qos = wr.qos, w1.last_seq = wr.last_seq,
           w1.all_acked => wr.all_acked, ReliableReaders(w1) = ReliableReaders(wr),
           NEW piece, Piece(w1, piece, O)
    PROVE  Piece(wr, piece, O) /\ Due(wr, piece.wr, O) = Due(w1, piece.wr, O)
BY DEF Piece, Due, Told

\* The end of add_pub_change.
LEMMA EndStep ==
    ASSUME NEW O, NEW wr, Sound(wr), Owes(wr, O), NEW instance, NEW timeout \in BOOLEAN
    PROVE  /\ Piece(wr, add_change_(wr, instance, timeout), O)
           /\ KeepsPiece(wr, add_change_(wr, instance, timeout).wr, O)
<1> DEFINE Cached(n) == IF wr.qos.keyed
                        THEN [wr EXCEPT !.keyed_changes[instance] = Append(@, n)]
                        ELSE wr
           piece == add_change_(wr, instance, timeout)
<1>1. ASSUME NEW n
      PROVE  /\ Quiet(wr, Cached(n), O) /\ ReliableReaders(Cached(n)) = ReliableReaders(wr)
             /\ Cached(n).last_seq = wr.last_seq
    <2> DEFINE wq == Cached(n)
    <2>1. DOMAIN wr = Fields
        BY DEF Sound, Typed
    <2>2. PICK k : wq = [wr EXCEPT !.keyed_changes = k] \/ wq = wr
        BY Zenon
    <2> HIDE DEF wq
    <2>3. /\ SameBut(wr, wq, OutFields) /\ wq.out = wr.out /\ wq.periodic_hb = wr.periodic_hb
          /\ wq.nack_response = wr.nack_response /\ wq.async_pending = wr.async_pending
          /\ wq.ack_event = wr.ack_event /\ wq.last_sequence_number = wr.last_sequence_number
          /\ wq.matched_readers = wr.matched_readers /\ wq.last_seq = wr.last_seq
        BY <2>1, <2>2 DEF SameBut, Fields, OutFields
    <2>4. TimersOK(wq, wr.last_seq) /\ OutOK(wq.out, wr.last_seq)
        BY <2>3 DEF Sound, Typed, TimersOK
    <2>5. Quiet(wr, wq, O)
        BY <2>3, <2>4, OutStep
    <2> QED
        BY <2>3, <2>5 DEF ReliableReaders, MatchedReaders, wq
<1>2. CASE wr.isHistoryFull
    <2> DEFINE wq == Cached(0)
    <2>1. piece = [wr |-> wq, pc |-> "idle", seq |-> 0, ret |-> "TIMEOUT"]
        BY <1>2 DEF add_change_, Returned
    <2>2. Quiet(wr, wq, O)
        BY <1>1, Zenon
    <2> HIDE DEF wq
    <2>3. wq.last_seq = wr.last_seq
        BY <2>2 DEF Quiet, After
    <2>4. Due(wr, wq, O) = O
        BY <2>3, NoChange
    <2> QED
        BY <2>1, <2>2, <2>4 DEF Quiet, After, Told, Piece, KeepsPiece
<1>3. CASE ~wr.isHistoryFull
    <2> DEFINE wc == Cached(next_sequence_number(wr))
               wq == add_change_to_history(wc, timeout)
    <2>1. piece = [wr |-> wq, pc |-> "idle", seq |-> 0, ret |-> "OK"]
        BY <1>3 DEF add_change_, Returned
    <2>2. Quiet(wr, wc, O) /\ ReliableReaders(wc) = ReliableReaders(wr) /\ wc.last_seq = wr.last_seq
        BY <1>1, Zenon
    <2> HIDE DEF wc
    <2>3. Written(wc, wq, O)
        BY <2>2, AddStep DEF Quiet, After
    <2> HIDE DEF wq
    <2>4. wq.last_seq = wr.last_seq + 1 /\ News(wc, wc.last_seq + 1) = News(wr, wr.last_seq + 1)
        BY <2>2, <2>3 DEF Written, News
    <2>5. Due(wr, wq, O) = O \cup News(wc, wc.last_seq + 1)
        BY <2>4, OneChange
    <2>6. /\ Sound(wq) /\ Owes(wq, Due(wr, wq, O)) /\ wq.qos = wr.qos
          /\ Told(wr, wq)
        BY <2>2, <2>3, <2>5 DEF Written, Quiet, After, Told
    <2>7. KeepsPiece(wr, wq, O)
        BY <2>2, <2>3, <2>5 DEF Written, Quiet, After, KeepsPiece
    <2> QED
        BY <2>1, <2>4, <2>6, <2>7 DEF Piece
<1> QED
    BY <1>2, <1>3

\* A step that removes changes and writes nothing.
LEMMA RemovedReaders ==
    ASSUME NEW O, NEW S, NEW wr, Sound(wr), NEW w1, Removes(wr, w1, S, O)
    PROVE  /\ Sound(w1) /\ Owes(w1, O) /\ w1.qos = wr.qos /\ w1.last_seq = wr.last_seq
           /\ w1.all_acked => wr.all_acked
           /\ ReliableReaders(w1) = ReliableReaders(wr)
BY DEF Removes, ReliableReaders, MatchedReaders, SameReader

\* A change that is acknowledged by all is not owed.
LEMMA AckedIsNotOwed ==
    ASSUME NEW O, NEW wr, Sound(wr), Owes(wr, O), NEW n, is_acked_by_all(wr, n),
           NEW p \in O, p[2] = n, p[2] \in wr.history
    PROVE  FALSE
<1> DEFINE rp == wr.matched_readers[p[1]]
<1>1. /\ p[1] \in Readers /\ p[2] \in Nat /\ rp.is_active /\ rp.is_reliable
      /\ n \in Numbers(rp) /\ wr.next_all_acked <= n /\ n \in Nat
    BY DEF Owes
<1>2. wr.next_all_acked \in Nat
    BY DEF Sound, Typed
<1>3. ProxyOK(rp, wr.history, wr.last_seq) /\ rp.low_mark \in Nat
    BY <1>1, ZenonT(30) DEF Sound, InOrder, ProxyOK, ReaderProxyState
<1>4. PICK c \in rp.changes : c.seq = n
    BY <1>1 DEF Numbers
<1>5. c.status # "ACKNOWLEDGED" /\ rp.low_mark < n
    BY <1>1, <1>3, <1>4 DEF ProxyOK
<1>6. ~change_is_acked(rp, n)
    BY <1>1, <1>3, <1>4, <1>5 DEF change_is_acked
<1>7. p[1] \in MatchedReaders(wr)
    BY <1>1 DEF MatchedReaders
<1> QED
    BY <1>1, <1>2, <1>6, <1>7 DEF is_acked_by_all

\* The loop of add_pub_change over the limits of the instance.
LEMMA FitStep ==
    ASSUME NEW O, NEW wr, Sound(wr), Owes(wr, O), NEW instance, NEW timeout \in BOOLEAN
    PROVE  /\ Piece(wr, FitInInstance(wr, instance, timeout), O)
           /\ KeepsPiece(wr, FitInInstance(wr, instance, timeout).wr, O)
<1> DEFINE cached == wr.keyed_changes[instance]
           h == Head(cached)
           fits == ~wr.qos.keyed \/ Len(cached) < wr.qos.samples_per_instance
           goes == wr.qos.keyed /\ Len(cached) >= wr.qos.samples_per_instance
                     /\ (wr.qos.keep_all => is_acked_by_all(wr, h))
           w1 == remove_changes(wr, {h})
           piece == FitInInstance(wr, instance, timeout)
<1>1. \/ piece = add_change_(wr, instance, timeout)
      \/ goes /\ piece = add_change_(w1, instance, timeout)
      \/ piece = Waiting(wr, "ack", h)
    BY DEF FitInInstance
<1>2. CASE piece = add_change_(wr, instance, timeout)
    <2>1. /\ Piece(wr, add_change_(wr, instance, timeout), O)
          /\ KeepsPiece(wr, add_change_(wr, instance, timeout).wr, O)
        BY EndStep
    <2> QED
        BY Zenon, <1>2, <2>1
<1>3. CASE goes /\ piece = add_change_(w1, instance, timeout)
    <2>1. Removes(wr, w1, {h}, O)
        BY RemoveStep
    <2>2. wr.qos.keep_all => \A p \in O : p[2] \in wr.history => p[2] \notin {h}
        BY <1>3, AckedIsNotOwed
    <2>3. After(wr, w1, O)
        BY <2>1, <2>2 DEF Removes
    <2> HIDE DEF w1, piece, goes
    <2>4. /\ Sound(w1) /\ Owes(w1, O) /\ w1.qos = wr.qos /\ w1.last_seq = wr.last_seq
          /\ w1.all_acked => wr.all_acked
          /\ ReliableReaders(w1) = ReliableReaders(wr)
        BY <2>1, RemovedReaders
    <2>5. Piece(w1, piece, O) /\ KeepsPiece(w1, piece.wr, O)
        BY <1>3, <2>4, EndStep
    <2>6. Piece(wr, piece, O) /\ Due(wr, piece.wr, O) = Due(w1, piece.wr, O)
        BY <2>4, <2>5, PieceLater
    <2>7. KeepsPiece(wr, piece.wr, O)
        BY <2>3, <2>4, <2>5, <2>6 DEF KeepsPiece, After
    <2> QED
        BY <2>6, <2>7 DEF piece
<1>4. CASE piece = Waiting(wr, "ack", h)
    <2>1. piece.wr = wr /\ piece.pc = "ack"
        BY <1>4 DEF Waiting
    <2> HIDE DEF piece
    <2>2. Due(wr, wr, O) = O
        BY NoChange
    <2> QED
        BY <2>1, <2>2 DEF Piece, KeepsPiece, Told, piece
<1> QED
    BY Zenon, <1>1, <1>2, <1>3, <1>4

\* The first change is removed and the write goes on.  A KEEP_ALL history keeps
\* its promise when the first change is not owed.
LEMMA FitLater ==
    ASSUME NEW O, NEW wr, Sound(wr), Owes(wr, O), wr.history # {},
           NEW instance, NEW timeout \in BOOLEAN,
           NEW piece, piece = FitInInstance(remove_min_change(wr), instance, timeout)
    PROVE  /\ Piece(wr, piece, O)
           /\ (wr.qos.keep_all => \A p \in O : p[2] \in wr.history => p[2] # Least(wr.history)) =>
                KeepsPiece(wr, piece.wr, O)
<1> DEFINE S == {Least(wr.history)}
           w1 == remove_changes(wr, S)
<1>1. piece = FitInInstance(w1, instance, timeout)
    BY DEF remove_min_change
<1>2. Removes(wr, w1, S, O)
    BY RemoveStep
<1> HIDE DEF w1
<1>3. (wr.qos.keep_all => \A p \in O : p[2] \in wr.history => p[2] # Least(wr.history)) =>
            After(wr, w1, O)
    BY <1>2 DEF Removes
<1>4. /\ Sound(w1) /\ Owes(w1, O) /\ w1.qos = wr.qos /\ w1.last_seq = wr.last_seq
      /\ w1.all_acked => wr.all_acked
      /\ ReliableReaders(w1) = ReliableReaders(wr)
    BY <1>2, RemovedReaders
<1>5. Piece(w1, piece, O) /\ KeepsPiece(w1, piece.wr, O)
    BY <1>1, <1>4, FitStep
<1>6. Piece(wr, piece, O) /\ Due(wr, piece.wr, O) = Due(w1, piece.wr, O)
    BY <1>4, <1>5, PieceLater
<1> QED
    BY <1>3, <1>4, <1>5, <1>6, Zenon DEF KeepsPiece, After

\* DataWriterImpl::write up to its first wait.
LEMMA WriteStep ==
    ASSUME NEW O, NEW wr, Sound(wr), Owes(wr, O),
           NEW instance, NEW timeout \in BOOLEAN,
           NEW piece, piece = add_pub_change(wr, instance, timeout)
    PROVE  Piece(wr, piece, O) /\ KeepsPiece(wr, piece.wr, O)
<1> DEFINE wz == [wr EXCEPT !.may_remove_change = 0]
<1>1. \/ piece = FitInInstance(wr, instance, timeout)
      \/ /\ wr.isHistoryFull /\ (wr.qos.keep_all => Least(wr.history) < wr.next_all_acked)
         /\ piece = FitInInstance(remove_min_change(wr), instance, timeout)
      \/ piece = Waiting(wz, "room", 0)
    BY DEF add_pub_change
<1>2. CASE piece = FitInInstance(wr, instance, timeout)
    BY <1>2, FitStep
<1>3. CASE /\ wr.isHistoryFull /\ (wr.qos.keep_all => Least(wr.history) < wr.next_all_acked)
           /\ piece = FitInInstance(remove_min_change(wr), instance, timeout)
    <2>1. wr.next_all_acked \in Nat
        BY DEF Sound, Typed
    <2>2. wr.qos.keep_all => \A p \in O : p[2] \in wr.history => p[2] # Least(wr.history)
        BY <1>3, <2>1 DEF Owes
    <2>3. CASE wr.history = {}
        <3>1. piece = FitInInstance(wr, instance, timeout)
            BY <1>3, <2>3 DEF remove_min_change
        <3> QED
            BY <3>1, FitStep
    <2>4. CASE wr.history # {}
        BY <1>3, <2>2, <2>4, FitLater
    <2> QED
        BY <2>3, <2>4
<1>4. CASE piece = Waiting(wz, "room", 0)
    <2>1. piece.wr = wz /\ piece.pc = "room"
        BY <1>4 DEF Waiting
    <2>2. DOMAIN wr = Fields /\ wr.all_acked \in BOOLEAN
          /\ wr.next_all_acked \in 0 .. (wr.last_seq + 1)
        BY DEF Sound, Typed
    <2>3. /\ SameBut(wr, wz, MarkFields) /\ wz.may_remove_change = 0
          /\ wz.next_all_acked = wr.next_all_acked /\ wz.all_acked = wr.all_acked
          /\ wz.last_seq = wr.last_seq /\ wz.qos = wr.qos
        BY <2>2 DEF SameBut, Fields, MarkFields
    <2> HIDE DEF wz
    <2>4. \A p \in O : p[2] \in wr.history => wz.next_all_acked <= p[2]
        BY <2>3 DEF Owes
    <2>5. After(wr, wz, O)
        BY <2>2, <2>3, <2>4, MarkStep
    <2>6. Due(wr, wz, O) = O
        BY <2>3, NoChange
    <2> QED
        BY <2>1, <2>3, <2>5, <2>6 DEF Piece, KeepsPiece, After, Told
<1> QED
    BY <1>1, <1>2, <1>3, <1>4

\* A write that goes on after its wait.  It removes the first change when it has
\* been told that it may.
LEMMA ContinueStep ==
    ASSUME NEW O, NEW wr, Sound(wr), Owes(wr, O), NEW pc, NEW seq, MayContinue(wr, pc, seq),
           NEW instance, NEW timeout \in BOOLEAN,
           NEW piece, piece = Continue(wr, pc, instance, timeout)
    PROVE  /\ Piece(wr, piece, O)
           /\ (pc = "room" => Ready(wr, O)) => KeepsPiece(wr, piece.wr, O)
<1>1. CASE pc = "room" /\ wr.may_remove_change = 1 /\ wr.history = {}
    <2>1. piece.wr = wr /\ piece.pc = "idle"
        BY <1>1 DEF Continue, Returned
    <2>2. Due(wr, wr, O) = O
        BY NoChange
    <2> QED
        BY <2>1, <2>2 DEF Piece, KeepsPiece, Told
<1>2. CASE pc = "room" /\ wr.may_remove_change = 1 /\ wr.history # {}
    <2>1. piece = FitInInstance(remove_min_change(wr), instance, timeout)
        BY <1>2 DEF Continue
    <2>2. Least(wr.history) \in Nat
        BY <1>2, HistoryEnds DEF Sound
    <2>3. Ready(wr, O) => (wr.qos.keep_all =>
                                \A p \in O : p[2] \in wr.history => p[2] # Least(wr.history))
        BY <1>2, <2>2 DEF Ready
    <2> QED
        BY <1>2, <2>1, <2>3, FitLater, Zenon
<1>3. CASE pc = "room" /\ wr.may_remove_change = 2
    <2>1. piece = FitInInstance(wr, instance, timeout)
        BY <1>3 DEF Continue
    <2> QED
        BY <2>1, FitStep
<1>4. CASE pc = "ack"
    <2>1. piece = FitInInstance(wr, instance, timeout)
        BY <1>4 DEF Continue
    <2> QED
        BY <2>1, FitStep
<1>5. wr.may_remove_change \in 0 .. 2
    BY DEF Sound, Typed
<1> QED
    BY <1>1, <1>2, <1>3, <1>4, <1>5 DEF MayContinue
=============================================================================
