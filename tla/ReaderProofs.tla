---------------------------- MODULE ReaderProofs ----------------------------
(***************************************************************************)
(* Proofs about ReaderEnvironment for every set of writers, every history  *)
(* size and kind and every set of messages the network may deliver: the    *)
(* counters of the proxies stay consistent, and the user is told about     *)
(* each sample once and in order, across rematches and restarts.           *)
(***************************************************************************)
EXTENDS ReaderEnvironment, FiniteSetTheorems, WellFoundedInduction, TLAPS

----------------------------------------------------------------------------
(* WriterProxy.  Every method keeps a proxy consistent, never moves its    *)
(* low mark back, never touches what the user has been told, and settles   *)
(* exactly the numbers it was called for.                                  *)

\* Between two calls: the received numbers start after a missing one.
Consistent(wp) ==
    /\ wp \in WriterProxyState
    /\ wp.last_notified <= wp.low_mark
    /\ wp.low_mark <= wp.max_sequence_number
    /\ \A n \in wp.changes_received : wp.low_mark + 1 < n /\ n <= wp.max_sequence_number

\* What cleanup() may be given: received numbers need not be above the mark.
Cleanable(wp) ==
    /\ wp \in WriterProxyState
    /\ wp.last_notified <= wp.low_mark
    /\ wp.low_mark <= wp.max_sequence_number
    /\ \A n \in wp.changes_received : n <= wp.max_sequence_number

\* wq is a later state of proxy wp as far as the low mark and the
\* notifications are concerned.
Advances(wp, wq) ==
    /\ wp.low_mark <= wq.low_mark
    /\ wq.last_notified = wp.last_notified
    /\ wq.is_alive = wp.is_alive

\* Of the numbers change_was_received knows, wq has those of wp and those of N.
Settles(wp, wq, N) ==
    \A m \in Nat : change_was_received(wq, m) <=> (change_was_received(wp, m) \/ m \in N)

\* Every non-empty set of naturals has a least element.
LEMMA LeastNatural ==
    ASSUME NEW T \in SUBSET Nat, T # {}
    PROVE  \E x \in T : \A y \in T : x <= y
<1>1. IsWellFoundedOn(OpToRel(<, Nat), Nat)
    BY Zenon, NatLessThanWellFounded
<1>2. PICK x \in T : \A y \in T : ~(<<y, x>> \in OpToRel(<, Nat))
    BY Zenon, <1>1, WFMin
<1>3. ASSUME NEW y \in T, y < x
      PROVE  FALSE
    <2>1. <<y, x>> \in Nat \X Nat
        OBVIOUS
    <2>2. <<y, x>> \in {ss \in Nat \X Nat : ss[1] < ss[2]}
        BY <1>3, <2>1
    <2>3. <<y, x>> \in OpToRel(<, Nat)
        BY <2>2 DEF OpToRel
    <2> QED
        BY Zenon, <1>2, <2>3
<1> QED
    BY <1>3

\* Every non-empty set of naturals with an upper bound has a greatest element.
LEMMA GreatestNatural ==
    ASSUME NEW T \in SUBSET Nat, T # {}, NEW k \in Nat, \A y \in T : y <= k
    PROVE  \E x \in T : \A y \in T : y <= x
<1> DEFINE Bounds == {b \in Nat : \A y \in T : y <= b}
<1>1. Bounds \in SUBSET Nat /\ Bounds # {}
    OBVIOUS
<1> HIDE DEF Bounds
<1>2. PICK b \in Bounds : \A c \in Bounds : b <= c
    BY <1>1, LeastNatural
<1>3. b \in Nat /\ \A y \in T : y <= b
    BY <1>2 DEF Bounds
<1>4. b \in T
    <2>1. SUFFICES ASSUME b \notin T PROVE FALSE
        OBVIOUS
    <2>2. PICK z \in T : TRUE
        BY Zenon
    <2>3. z <= b /\ z # b /\ z \in Nat
        BY <1>3, <2>1, <2>2
    <2>4. b - 1 \in Nat
        BY <1>3, <2>3
    <2>5. \A y \in T : y <= b - 1
        BY <1>3, <2>1
    <2>6. b - 1 \in Bounds
        BY <2>4, <2>5 DEF Bounds
    <2> QED
        BY <1>2, <1>3, <2>6
<1> QED
    BY <1>3, <1>4

\* cleanup stops at a missing number, with every number before it received.
LEMMA FirstMissingExists ==
    ASSUME NEW wp, Cleanable(wp)
    PROVE  /\ FirstMissing(wp) \in (wp.low_mark + 1) .. (wp.max_sequence_number + 1)
           /\ FirstMissing(wp) \notin wp.changes_received
           /\ \A m \in (wp.low_mark + 1) .. (FirstMissing(wp) - 1) : m \in wp.changes_received
<1> DEFINE T == {n \in (wp.low_mark + 1) .. (wp.max_sequence_number + 1) :
                    n \notin wp.changes_received}
<1>0. wp.low_mark \in Nat /\ wp.max_sequence_number \in Nat
    BY DEF Cleanable, WriterProxyState
<1>1. T \in SUBSET Nat
    BY <1>0
<1>2. wp.max_sequence_number + 1 \in T
    BY <1>0 DEF Cleanable
<1>3. PICK x \in T : \A y \in T : x <= y
    BY Zenon, <1>1, <1>2, LeastNatural
<1>4. x \in (wp.low_mark + 1) .. (wp.max_sequence_number + 1) /\ x \notin wp.changes_received
    BY <1>3
<1>5. \A m \in (wp.low_mark + 1) .. (x - 1) : m \in wp.changes_received
    <2>1. SUFFICES ASSUME NEW m \in (wp.low_mark + 1) .. (x - 1), m \notin wp.changes_received
                   PROVE  FALSE
        OBVIOUS
    <2>2. m \in T
        BY <1>0, <1>4, <2>1
    <2> QED
        BY <1>0, <1>3, <1>4, <2>2
<1> HIDE DEF T
<1> QED
    BY <1>4, <1>5 DEF FirstMissing

\* WriterProxy::cleanup turns a proxy whose received set may touch the low mark
\* into a consistent one, and never moves the low mark back.
LEMMA CleanupConsistent ==
    ASSUME NEW wp, Cleanable(wp)
    PROVE  /\ Consistent(cleanup(wp))
           /\ Advances(wp, cleanup(wp))
           /\ Settles(wp, cleanup(wp), {})
<1>1. /\ wp.low_mark \in Nat /\ wp.max_sequence_number \in Nat
      /\ wp.changes_received \in SUBSET Nat /\ wp.last_notified \in Nat
    BY DEF Cleanable, WriterProxyState
<1>2. PICK first \in (wp.low_mark + 1) .. (wp.max_sequence_number + 1) :
            /\ first = FirstMissing(wp) /\ first \notin wp.changes_received
            /\ \A m \in (wp.low_mark + 1) .. (first - 1) : m \in wp.changes_received
    BY FirstMissingExists
<1>3. cleanup(wp) = [wp EXCEPT !.low_mark = first - 1,
                               !.changes_received = {n \in wp.changes_received : n > first}]
    BY <1>2 DEF cleanup
<1>4. first - 1 \in Nat /\ first - 1 <= wp.max_sequence_number /\ wp.low_mark <= first - 1
    BY <1>1, <1>2
<1>5. cleanup(wp) \in WriterProxyState
    BY Zenon, <1>1, <1>3, <1>4 DEF Cleanable, WriterProxyState
<1>6. /\ cleanup(wp).low_mark = first - 1
      /\ cleanup(wp).changes_received = {n \in wp.changes_received : n > first}
      /\ cleanup(wp).max_sequence_number = wp.max_sequence_number
      /\ cleanup(wp).last_notified = wp.last_notified
      /\ cleanup(wp).is_alive = wp.is_alive
    BY <1>3 DEF Cleanable, WriterProxyState
<1>7. \A n \in cleanup(wp).changes_received :
        cleanup(wp).low_mark + 1 < n /\ n <= cleanup(wp).max_sequence_number
    BY <1>1, <1>2, <1>6 DEF Cleanable
<1>8. Settles(wp, cleanup(wp), {})
    BY <1>1, <1>2, <1>4, <1>6 DEF Settles, change_was_received
<1> QED
    BY <1>1, <1>4, <1>5, <1>6, <1>7, <1>8 DEF Consistent, Cleanable, Advances

\* lost_changes_update keeps a proxy consistent, and never moves its low mark
\* back.
LEMMA LostChangesConsistent ==
    ASSUME NEW wp, Consistent(wp), NEW n \in Nat \ {0}
    PROVE  /\ Consistent(lost_changes_update(wp, n))
           /\ Advances(wp, lost_changes_update(wp, n))
           /\ Settles(wp, lost_changes_update(wp, n), 0 .. (n - 1))
<1> DEFINE max  == IF n - 1 > wp.max_sequence_number THEN n - 1 ELSE wp.max_sequence_number
           kept == {k \in wp.changes_received : k >= n}
           wq   == [wp EXCEPT !.changes_received = kept,
                              !.low_mark = n - 1,
                              !.max_sequence_number = max]
<1>1. /\ wp.low_mark \in Nat /\ wp.max_sequence_number \in Nat
      /\ wp.changes_received \in SUBSET Nat /\ wp.last_notified \in Nat
    BY DEF Consistent, WriterProxyState
<1>2. CASE n > wp.low_mark
    <2>1. lost_changes_update(wp, n) = cleanup(wq)
        BY <1>2 DEF lost_changes_update
    <2>2. /\ max \in Nat /\ n - 1 \in Nat /\ n - 1 <= max
          /\ wp.max_sequence_number <= max
          /\ kept \in SUBSET Nat /\ kept \subseteq wp.changes_received
        BY <1>1
    <2> HIDE DEF max, kept
    <2>3. wq \in WriterProxyState
        BY Zenon, <2>2 DEF Consistent, WriterProxyState
    <2>4. /\ wq.low_mark = n - 1
          /\ wq.changes_received = kept
          /\ wq.max_sequence_number = max
          /\ wq.last_notified = wp.last_notified
          /\ wq.is_alive = wp.is_alive
        BY DEF Consistent, WriterProxyState
    <2> HIDE DEF wq
    <2>5. Cleanable(wq)
        <3>1. ASSUME NEW m \in kept
              PROVE  m <= max
            <4>1. m \in wp.changes_received /\ m \in Nat
                BY <2>2
            <4>2. m <= wp.max_sequence_number
                BY <4>1 DEF Consistent
            <4> QED
                BY <1>1, <2>2, <4>1, <4>2
        <3>2. wp.last_notified <= n - 1
            BY <1>1, <1>2 DEF Consistent
        <3> QED
            BY Zenon, <2>2, <2>3, <2>4, <3>1, <3>2 DEF Cleanable
    <2>6. Consistent(cleanup(wq)) /\ Advances(wq, cleanup(wq)) /\ Settles(wq, cleanup(wq), {})
        BY <2>5, CleanupConsistent
    <2>7. cleanup(wq).low_mark \in Nat
        BY <2>6 DEF Consistent, WriterProxyState
    <2>8. Settles(wp, wq, 0 .. (n - 1))
        BY <1>1, <1>2, <2>4 DEF kept, Settles, change_was_received
    <2>9. Settles(wp, cleanup(wq), 0 .. (n - 1))
        BY <2>6, <2>8 DEF Settles
    <2> QED
        BY <1>1, <1>2, <2>1, <2>2, <2>4, <2>6, <2>7, <2>9 DEF Advances
<1>3. CASE ~(n > wp.low_mark)
    <2>1. lost_changes_update(wp, n) = wp
        BY <1>3 DEF lost_changes_update
    <2>2. Settles(wp, wp, 0 .. (n - 1))
        BY <1>1, <1>3 DEF Settles, change_was_received
    <2> QED
        BY <1>1, <2>1, <2>2 DEF Advances
<1> QED
    BY <1>2, <1>3

\* missing_changes_update keeps a proxy consistent, and never moves its low mark
\* back.
LEMMA MissingChangesConsistent ==
    ASSUME NEW wp, Consistent(wp), NEW n \in Nat
    PROVE  /\ Consistent(missing_changes_update(wp, n))
           /\ Advances(wp, missing_changes_update(wp, n))
           /\ Settles(wp, missing_changes_update(wp, n), {})
<1>1. /\ wp.low_mark \in Nat /\ wp.max_sequence_number \in Nat
      /\ wp.changes_received \in SUBSET Nat
    BY DEF Consistent, WriterProxyState
<1>2. CASE n > wp.low_mark /\ n > wp.max_sequence_number
    <2> DEFINE wq == [wp EXCEPT !.max_sequence_number = n]
    <2>1. missing_changes_update(wp, n) = wq
        BY <1>2 DEF missing_changes_update
    <2>2. wq \in WriterProxyState
        BY DEF Consistent, WriterProxyState
    <2>3. /\ wq.low_mark = wp.low_mark /\ wq.changes_received = wp.changes_received
          /\ wq.max_sequence_number = n /\ wq.last_notified = wp.last_notified
          /\ wq.is_alive = wp.is_alive
        BY DEF Consistent, WriterProxyState
    <2> HIDE DEF wq
    <2>4. Settles(wp, wq, {})
        BY <2>3 DEF Settles, change_was_received
    <2> QED
        BY <1>1, <1>2, <2>1, <2>2, <2>3, <2>4 DEF Consistent, Advances
<1>3. CASE ~(n > wp.low_mark /\ n > wp.max_sequence_number)
    BY <1>1, <1>3 DEF missing_changes_update, Advances, Settles
<1> QED
    BY <1>2, <1>3

\* received_change_set keeps a proxy consistent, for a number that closes a hole
\* as for one that leaves a hole before it.
LEMMA ReceivedChangeConsistent ==
    ASSUME NEW wp, Consistent(wp), NEW n \in Nat
    PROVE  /\ Consistent(received_change_set(wp, n))
           /\ Advances(wp, received_change_set(wp, n))
           /\ Settles(wp, received_change_set(wp, n), {n})
<1>1. /\ wp.low_mark \in Nat /\ wp.max_sequence_number \in Nat
      /\ wp.changes_received \in SUBSET Nat /\ wp.last_notified \in Nat
    BY DEF Consistent, WriterProxyState
<1>2. CASE change_was_received(wp, n)
    BY <1>1, <1>2 DEF received_change_set, Advances, Settles
<1>3. CASE ~change_was_received(wp, n) /\ n > wp.max_sequence_number
    <2>1. CASE n = wp.low_mark + 1
        <3> DEFINE wq == [wp EXCEPT !.low_mark = n, !.max_sequence_number = n]
        <3>1. received_change_set(wp, n) = wq
            BY <1>1, <1>3, <2>1 DEF received_change_set
        <3>2. wq \in WriterProxyState
            BY Zenon DEF Consistent, WriterProxyState
        <3>3. /\ wq.low_mark = n /\ wq.changes_received = wp.changes_received
              /\ wq.max_sequence_number = n /\ wq.last_notified = wp.last_notified
              /\ wq.is_alive = wp.is_alive
            BY DEF Consistent, WriterProxyState
        <3> HIDE DEF wq
        <3>4. wp.changes_received = {}
            BY <1>1, <1>3, <2>1 DEF Consistent
        <3>5. Settles(wp, wq, {n})
            BY <1>1, <2>1, <3>3 DEF Settles, change_was_received
        <3> QED
            BY <1>1, <2>1, <3>1, <3>2, <3>3, <3>4, <3>5 DEF Consistent, Advances
    <2>2. CASE n # wp.low_mark + 1
        <3> DEFINE wq == [wp EXCEPT !.changes_received = wp.changes_received \cup {n},
                                    !.max_sequence_number = n]
        <3>1. received_change_set(wp, n) = wq
            BY <1>1, <1>3, <2>2 DEF received_change_set
        <3>2. wq \in WriterProxyState
            BY Zenon, <1>1 DEF Consistent, WriterProxyState
        <3>3. /\ wq.low_mark = wp.low_mark
              /\ wq.changes_received = wp.changes_received \cup {n}
              /\ wq.max_sequence_number = n /\ wq.last_notified = wp.last_notified
              /\ wq.is_alive = wp.is_alive
            BY DEF Consistent, WriterProxyState
        <3> HIDE DEF wq
        <3>4. n > wp.low_mark + 1
            BY <1>1, <1>3, <2>2 DEF change_was_received
        <3>5. Settles(wp, wq, {n})
            BY <1>1, <3>3 DEF Settles, change_was_received
        <3> QED
            BY <1>1, <1>3, <3>1, <3>2, <3>3, <3>4, <3>5 DEF Consistent, Advances
    <2> QED
        BY <2>1, <2>2
<1>4. CASE ~change_was_received(wp, n) /\ n <= wp.max_sequence_number
    <2>1. CASE n = wp.low_mark + 1
        <3> DEFINE wq == [wp EXCEPT !.low_mark = n]
        <3>1. received_change_set(wp, n) = cleanup(wq)
            BY <1>1, <1>4, <2>1 DEF received_change_set
        <3>2. wq \in WriterProxyState
            BY DEF Consistent, WriterProxyState
        <3>3. /\ wq.low_mark = n /\ wq.changes_received = wp.changes_received
              /\ wq.max_sequence_number = wp.max_sequence_number
              /\ wq.last_notified = wp.last_notified
              /\ wq.is_alive = wp.is_alive
            BY DEF Consistent, WriterProxyState
        <3> HIDE DEF wq
        <3>4. Cleanable(wq)
            BY <1>1, <1>4, <2>1, <3>2, <3>3 DEF Consistent, Cleanable
        <3>5. Consistent(cleanup(wq)) /\ Advances(wq, cleanup(wq)) /\ Settles(wq, cleanup(wq), {})
            BY <3>4, CleanupConsistent
        <3>6. cleanup(wq).low_mark \in Nat
            BY <3>5 DEF Consistent, WriterProxyState
        <3>7. Settles(wp, wq, {n})
            BY <1>1, <2>1, <3>3 DEF Settles, change_was_received
        <3>8. Settles(wp, cleanup(wq), {n})
            BY <3>5, <3>7 DEF Settles
        <3> QED
            BY <1>1, <2>1, <3>1, <3>3, <3>5, <3>6, <3>8 DEF Advances
    <2>2. CASE n # wp.low_mark + 1
        <3> DEFINE wq == [wp EXCEPT !.changes_received = wp.changes_received \cup {n}]
        <3>1. received_change_set(wp, n) = wq
            BY <1>1, <1>4, <2>2 DEF received_change_set
        <3>2. wq \in WriterProxyState
            BY <1>1 DEF Consistent, WriterProxyState
        <3>3. /\ wq.low_mark = wp.low_mark
              /\ wq.changes_received = wp.changes_received \cup {n}
              /\ wq.max_sequence_number = wp.max_sequence_number
              /\ wq.last_notified = wp.last_notified
              /\ wq.is_alive = wp.is_alive
            BY DEF Consistent, WriterProxyState
        <3> HIDE DEF wq
        <3>4. n > wp.low_mark + 1
            BY <1>1, <1>4, <2>2 DEF change_was_received
        <3>5. Settles(wp, wq, {n})
            BY <1>1, <3>3 DEF Settles, change_was_received
        <3> QED
            BY <1>1, <1>4, <3>1, <3>2, <3>3, <3>4, <3>5 DEF Consistent, Advances
    <2> QED
        BY <2>1, <2>2
<1> QED
    BY <1>1, <1>2, <1>3, <1>4

\* irrelevant_change_set on the numbers of a GAP, which end at k.
LEMMA IrrelevantChangesConsistent ==
    ASSUME NEW wp, Consistent(wp), NEW N \in SUBSET Nat, NEW k \in Nat, \A n \in N : n <= k
    PROVE  /\ Consistent(irrelevant_changes_set(wp, N))
           /\ Advances(wp, irrelevant_changes_set(wp, N))
           /\ Settles(wp, irrelevant_changes_set(wp, N), N)
<1> DEFINE known == {wp.max_sequence_number} \cup N
           max   == CHOOSE n \in known : \A m \in known : m <= n
           all   == wp.changes_received \cup {n \in N : n > wp.low_mark}
           wq    == [wp EXCEPT !.changes_received = all, !.max_sequence_number = max]
<1>1. /\ wp.low_mark \in Nat /\ wp.max_sequence_number \in Nat
      /\ wp.changes_received \in SUBSET Nat /\ wp.last_notified \in Nat
    BY DEF Consistent, WriterProxyState
<1>2. irrelevant_changes_set(wp, N) = cleanup(wq)
    BY DEF irrelevant_changes_set
<1>3. max \in known /\ \A m \in known : m <= max
    <2> DEFINE b == wp.max_sequence_number + k
    <2>0. wp.max_sequence_number \in known
        OBVIOUS
    <2>1. known \in SUBSET Nat /\ known # {} /\ b \in Nat
        <3>1. known \in SUBSET Nat
            BY Zenon, <1>1
        <3>2. known # {}
            BY <2>0
        <3> QED
            BY <1>1, <3>1, <3>2
    <2>3. ASSUME NEW m \in known
          PROVE  m <= b
        <3>1. m = wp.max_sequence_number \/ (m \in Nat /\ m <= k)
            BY Zenon
        <3> QED
            BY <1>1, <3>1
    <2> HIDE DEF known, b
    <2>2. \E x \in known : \A m \in known : m <= x
        BY Zenon, <2>1, <2>3, GreatestNatural
    <2> QED
        BY <2>2
<1> HIDE DEF max
<1>4. max \in Nat /\ wp.max_sequence_number <= max /\ \A n \in N : n <= max
    BY Zenon, <1>1, <1>3
<1>5. all \in SUBSET Nat /\ \A n \in all : n <= max
    <2>1. all \in SUBSET Nat
        BY Zenon, <1>1
    <2>2. ASSUME NEW n \in all
          PROVE  n <= max
        <3>1. CASE n \in N
            BY <1>4, <3>1
        <3>2. CASE n \in wp.changes_received
            <4>1. n <= wp.max_sequence_number /\ n \in Nat
                BY <1>1, <3>2 DEF Consistent
            <4> QED
                BY <1>1, <1>4, <4>1
        <3> QED
            BY <3>1, <3>2
    <2> QED
        BY <2>1, <2>2
<1> HIDE DEF all, known
<1>6. wq \in WriterProxyState
    BY Zenon, <1>4, <1>5 DEF Consistent, WriterProxyState
<1>7. /\ wq.low_mark = wp.low_mark /\ wq.changes_received = all
      /\ wq.max_sequence_number = max /\ wq.last_notified = wp.last_notified
      /\ wq.is_alive = wp.is_alive
    BY DEF Consistent, WriterProxyState
<1> HIDE DEF wq
<1>8. Cleanable(wq)
    <2>1. wp.last_notified <= wp.low_mark /\ wp.low_mark <= max
        BY <1>1, <1>4 DEF Consistent
    <2> QED
        BY Zenon, <1>5, <1>6, <1>7, <2>1 DEF Cleanable
<1>9. Consistent(cleanup(wq)) /\ Advances(wq, cleanup(wq)) /\ Settles(wq, cleanup(wq), {})
    BY <1>8, CleanupConsistent
<1>10. Settles(wp, wq, N)
    BY <1>1, <1>7 DEF all, Settles, change_was_received
<1>11. Settles(wp, cleanup(wq), N)
    BY <1>9, <1>10 DEF Settles
<1> QED
    BY <1>2, <1>7, <1>9, <1>11 DEF Advances

\* process_heartbeat keeps a proxy consistent, whatever the numbers of the
\* heartbeat.
LEMMA HeartbeatConsistent ==
    ASSUME NEW wp, Consistent(wp), NEW disable \in BOOLEAN,
           NEW hb \in [count : Nat \ {0}, first : Nat \ {0}, last : Nat,
                       final : BOOLEAN, liveliness : BOOLEAN]
    PROVE  /\ Consistent(process_heartbeat(wp, hb, disable))
           /\ Advances(wp, process_heartbeat(wp, hb, disable))
           /\ Settles(wp, process_heartbeat(wp, hb, disable), 0 .. (hb.first - 1))
<1> DEFINE wl == lost_changes_update(wp, hb.first)
           wm == missing_changes_update(wl, hb.last)
           respond == \/ ~hb.final /\ (~disable \/ are_there_missing_changes(wm))
                      \/ hb.final /\ ~hb.liveliness /\ are_there_missing_changes(wm)
           wq == [wm EXCEPT !.last_heartbeat_count = hb.count,
                            !.heartbeat_final_flag = hb.final,
                            !.heartbeat_response = wm.heartbeat_response \/ respond]
<1>1. Consistent(wl) /\ Advances(wp, wl) /\ Settles(wp, wl, 0 .. (hb.first - 1))
    BY LostChangesConsistent
<1> HIDE DEF wl
<1>2. Consistent(wm) /\ Advances(wl, wm) /\ Settles(wl, wm, {})
    BY <1>1, MissingChangesConsistent
<1>3. process_heartbeat(wp, hb, disable) = wq
    BY DEF process_heartbeat, wl
<1> HIDE DEF wm
<1>4. (wm.heartbeat_response \/ respond) \in BOOLEAN
    BY Zenon
<1> HIDE DEF respond
<1>5. wq \in WriterProxyState
    BY Zenon, <1>2, <1>4 DEF Consistent, WriterProxyState
<1>6. /\ wq.low_mark = wm.low_mark /\ wq.changes_received = wm.changes_received
      /\ wq.max_sequence_number = wm.max_sequence_number
      /\ wq.last_notified = wm.last_notified
      /\ wq.is_alive = wm.is_alive
    BY <1>2 DEF Consistent, WriterProxyState
<1> HIDE DEF wq
<1>7. wp.low_mark \in Nat /\ wl.low_mark \in Nat /\ wm.low_mark \in Nat
    BY <1>1, <1>2 DEF Consistent, WriterProxyState
<1>8. Settles(wp, wq, 0 .. (hb.first - 1))
    <2>1. \A m \in Nat : change_was_received(wq, m) <=> change_was_received(wm, m)
        BY <1>6 DEF change_was_received
    <2> QED
        BY <1>1, <1>2, <2>1 DEF Settles
<1> QED
    BY <1>1, <1>2, <1>3, <1>5, <1>6, <1>7, <1>8 DEF Consistent, Advances

\* A proxy that has just been started, at the number the history record holds.
LEMMA StartConsistent ==
    ASSUME NEW n \in Nat
    PROVE  /\ Consistent(start(n)) /\ start(n).is_alive
           /\ start(n).low_mark = n /\ start(n).last_notified = n
           /\ \A m \in Nat : change_was_received(start(n), m) <=> m <= n
<1> DEFINE wp == [stop EXCEPT !.is_alive = TRUE, !.initial_acknack = TRUE]
           wq == [wp EXCEPT !.last_notified = n, !.low_mark = n, !.max_sequence_number = n]
<1>1. start(n) = wq
    BY DEF start, loaded_from_storage
<1>2. stop \in WriterProxyState /\ stop.changes_received = {}
    BY DEF stop, WriterProxyState
<1>3. wp \in WriterProxyState /\ wp.changes_received = {} /\ wp.is_alive
    BY Zenon, <1>2 DEF WriterProxyState
<1> HIDE DEF wp
<1>4. wq \in WriterProxyState
    BY Zenon, <1>3 DEF WriterProxyState
<1>5. /\ wq.low_mark = n /\ wq.changes_received = {}
      /\ wq.max_sequence_number = n /\ wq.last_notified = n /\ wq.is_alive
    BY <1>3 DEF WriterProxyState
<1> HIDE DEF wq
<1>6. \A m \in Nat : change_was_received(wq, m) <=> m <= n
    BY <1>5 DEF change_was_received
<1> QED
    BY <1>1, <1>4, <1>5, <1>6 DEF Consistent

\* A stopped proxy is consistent.
LEMMA StopConsistent ==
    Consistent(stop) /\ ~stop.is_alive
BY DEF Consistent, stop, WriterProxyState

\* NotifyChanges leaves the low mark alone and goes on to n.
LEMMA NotifiedConsistent ==
    ASSUME NEW wp, Consistent(wp), NEW n \in Nat, wp.last_notified <= n, n <= wp.low_mark
    PROVE  /\ Consistent(notified_until(wp, n))
           /\ notified_until(wp, n).low_mark = wp.low_mark
           /\ notified_until(wp, n).last_notified = n
           /\ notified_until(wp, n).is_alive = wp.is_alive
           /\ Settles(wp, notified_until(wp, n), {})
<1> DEFINE ln == IF wp.last_notified < n THEN n ELSE wp.last_notified
           wq == [wp EXCEPT !.last_notified = ln]
<1>1. wp.low_mark \in Nat /\ wp.last_notified \in Nat
    BY DEF Consistent, WriterProxyState
<1>2. ln = n
    BY <1>1
<1>3. notified_until(wp, n) = wq
    BY DEF notified_until
<1> HIDE DEF ln
<1>4. wq \in WriterProxyState
    BY <1>1, <1>2 DEF Consistent, WriterProxyState
<1>5. /\ wq.low_mark = wp.low_mark /\ wq.changes_received = wp.changes_received
      /\ wq.max_sequence_number = wp.max_sequence_number
      /\ wq.last_notified = ln /\ wq.is_alive = wp.is_alive
    BY DEF Consistent, WriterProxyState
<1> HIDE DEF wq
<1>6. Settles(wp, wq, {})
    BY <1>5 DEF Settles, change_was_received
<1> QED
    BY <1>1, <1>2, <1>3, <1>4, <1>5, <1>6 DEF Consistent

\* The low mark is where the settled numbers stop being consecutive: the number
\* after it is missing, and a number up to which all are settled is below it.
LEMMA LowMarkIsExact ==
    ASSUME NEW wp, Consistent(wp)
    PROVE  /\ wp.low_mark \in Nat /\ wp.low_mark + 1 \in Nat
           /\ ~change_was_received(wp, wp.low_mark + 1)
           /\ \A k \in Nat : (\A m \in 0 .. k : change_was_received(wp, m)) => k <= wp.low_mark
<1>1. wp.low_mark \in Nat /\ wp.changes_received \in SUBSET Nat
    BY DEF Consistent, WriterProxyState
<1>2. ~change_was_received(wp, wp.low_mark + 1)
    BY <1>1 DEF Consistent, change_was_received
<1>3. ASSUME NEW k \in Nat, \A m \in 0 .. k : change_was_received(wp, m), ~(k <= wp.low_mark)
      PROVE  FALSE
    BY <1>1, <1>2, <1>3
<1> QED
    BY <1>1, <1>2, <1>3

----------------------------------------------------------------------------
(* StatefulReader.                                                         *)

\* The state of the reader between two handlers, and inside one before it
\* calls NotifyChanges.
ReaderOK(rd) ==
    /\ rd \in ReaderState
    /\ IsFiniteSet(rd.history)
    /\ \A w \in Writers : Consistent(rd.matched_writers[w])

\* What makes notifications unique: last_notified of a matched proxy covers
\* everything its writer has been notified for, also while NotifyChanges waits
\* for the listener and the history record is already ahead of it.
Told ==
    /\ \A p \in notified : reader.matched_writers[p[1]].is_alive =>
            p[2] <= reader.matched_writers[p[1]].last_notified
    /\ \A w \in telling : reader.matched_writers[w].is_alive

IInv ==
    /\ TypeOK
    /\ ReaderOK(reader)
    /\ NotifiedIsRecorded
    /\ Told

\* Handlers leave the record and last_notified alone until NotifyChanges.
Steady(rd, rq) ==
    /\ rq.history_record = rd.history_record
    /\ \A w \in Writers :
            /\ rq.matched_writers[w].is_alive = rd.matched_writers[w].is_alive
            /\ rq.matched_writers[w].last_notified = rd.matched_writers[w].last_notified

----------------------------------------------------------------------------
\* Handlers that only change the history keep the reader in order.
LEMMA HistoryStep ==
    ASSUME NEW rd, ReaderOK(rd), NEW rq \in ReaderState,
           rq.matched_writers = rd.matched_writers,
           rq.history_record = rd.history_record,
           IsFiniteSet(rq.history)
    PROVE  ReaderOK(rq)
BY DEF ReaderOK

\* So do handlers that only let one proxy advance.
LEMMA ProxyStep ==
    ASSUME NEW rd, ReaderOK(rd), NEW w \in Writers, NEW wq,
           Consistent(wq), Advances(rd.matched_writers[w], wq)
    PROVE  /\ ReaderOK([rd EXCEPT !.matched_writers[w] = wq])
           /\ [rd EXCEPT !.matched_writers[w] = wq].matched_writers[w] = wq
           /\ Steady(rd, [rd EXCEPT !.matched_writers[w] = wq])
           /\ [rd EXCEPT !.matched_writers[w] = wq].history = rd.history
<1> DEFINE rq == [rd EXCEPT !.matched_writers[w] = wq]
<1>1. rd \in ReaderState /\ wq \in WriterProxyState
    BY DEF ReaderOK, Consistent
<1>2. rq \in ReaderState
    BY <1>1 DEF ReaderState
<1>3. /\ rq.history = rd.history
      /\ rq.history_record = rd.history_record
      /\ rq.matched_writers = [rd.matched_writers EXCEPT ![w] = wq]
      /\ rd.matched_writers \in [Writers -> WriterProxyState]
    BY <1>1 DEF ReaderState
<1> HIDE DEF rq
<1>4. rq.matched_writers[w] = wq
    BY <1>3
<1>5. \A v \in Writers : v # w => rq.matched_writers[v] = rd.matched_writers[v]
    BY <1>3
<1>6. \A v \in Writers : Consistent(rq.matched_writers[v])
    BY <1>4, <1>5 DEF ReaderOK
<1>7. Steady(rd, rq)
    BY <1>3, <1>4, <1>5 DEF Steady, Advances
<1>8. ReaderOK(rq)
    BY <1>2, <1>3, <1>6 DEF ReaderOK
<1> QED
    BY <1>3, <1>4, <1>7, <1>8 DEF rq

\* Types of the fields of the reader that the handlers read.
LEMMA ReaderTypes ==
    ASSUME NEW rd, ReaderOK(rd), NEW w \in Writers
    PROVE  /\ rd.matched_writers \in [Writers -> WriterProxyState]
           /\ rd.history \in SUBSET Change
           /\ IsFiniteSet(rd.history)
           /\ rd.isHistoryFull \in BOOLEAN
           /\ rd.total_unread \in Nat
           /\ rd.history_record \in [Writers -> Nat]
           /\ rd.acknack_count \in Nat /\ rd.nackfrag_count \in Nat
           /\ Consistent(rd.matched_writers[w])
           /\ rd.matched_writers[w].low_mark \in Nat
           /\ rd.matched_writers[w].last_notified \in Nat
           /\ rd.matched_writers[w].last_notified <= rd.matched_writers[w].low_mark
           /\ rd.history_record[w] \in Nat
BY DEF ReaderOK, ReaderState, Consistent, WriterProxyState

\* A part of a finite history is finite: remove_* never makes a history
\* that cannot be counted.
LEMMA SubsetFinite ==
    ASSUME NEW S, IsFiniteSet(S), NEW T, T \subseteq S
    PROVE  IsFiniteSet(T) /\ Cardinality(T) \in Nat
BY FS_Subset, FS_CardinalityType

----------------------------------------------------------------------------
\* The number NotifyChanges goes on to: that of the change it tells the
\* listener of, or the low mark when there is none left.
LEMMA NextNumber ==
    ASSUME NEW rd, ReaderOK(rd), NEW w \in Writers
    PROVE  LET wp   == rd.matched_writers[w]
               next == NextToNotify(rd, w)
               upto == IF next = {} THEN wp.low_mark
                       ELSE CHOOSE n \in {c.seq : c \in next} : TRUE
           IN  /\ next \subseteq rd.history
               /\ upto \in Nat /\ wp.last_notified <= upto /\ upto <= wp.low_mark
               /\ \A c \in next : c.seq = upto /\ wp.last_notified < c.seq
<1> DEFINE wp   == rd.matched_writers[w]
           all  == ChangesToNotify(rd, w)
           next == NextToNotify(rd, w)
           upto == IF next = {} THEN wp.low_mark
                   ELSE CHOOSE n \in {c.seq : c \in next} : TRUE
<1>1. /\ wp.low_mark \in Nat /\ wp.last_notified \in Nat /\ wp.last_notified <= wp.low_mark
      /\ rd.history \in SUBSET Change
    BY ReaderTypes
<1>2. /\ all \subseteq rd.history
      /\ \A c \in all : c.seq \in Nat /\ wp.last_notified < c.seq /\ c.seq <= wp.low_mark
    BY <1>1 DEF ChangesToNotify, ChangesFrom, Change
<1>3. next \subseteq all /\ \A c, d \in next : c.seq <= d.seq
    BY DEF NextToNotify
<1> HIDE DEF wp, all, next
<1>4. \A c, d \in next : c.seq = d.seq
    BY <1>2, <1>3
<1>5. /\ upto \in Nat /\ wp.last_notified <= upto /\ upto <= wp.low_mark
      /\ \A c \in next : c.seq = upto
    <2>1. CASE next = {}
        BY <1>1, <2>1
    <2>2. CASE next # {}
        <3>1. upto = CHOOSE n \in {c.seq : c \in next} : TRUE
            BY <2>2
        <3>2. \E n \in {c.seq : c \in next} : TRUE
            BY <2>2
        <3>3. upto \in {c.seq : c \in next}
            BY Zenon, <3>1, <3>2
        <3> HIDE DEF upto
        <3>4. PICK d \in next : upto = d.seq
            BY <3>3
        <3>5. d.seq \in Nat /\ wp.last_notified < d.seq /\ d.seq <= wp.low_mark
            BY <1>2, <1>3
        <3> QED
            BY <1>1, <1>4, <3>4, <3>5
    <2> QED
        BY <2>1, <2>2, Zenon
<1>6. next \subseteq rd.history /\ \A c \in next : wp.last_notified < c.seq
    BY <1>2, <1>3
<1> QED
    BY <1>5, <1>6, Zenon DEF wp, next

\* NotifyChanges is where the user learns of samples.  Every iteration names
\* only a number above everything its writer was notified for, and recorded.
LEMMA NotifyStep ==
    ASSUME NotifiedIsRecorded, Told, notified \subseteq Writers \X Nat, ReaderOK(reader),
           NEW rd, ReaderOK(rd), NEW w \in Writers, rd.matched_writers[w].is_alive,
           Steady(reader, rd), Notify(rd, w)
    PROVE  /\ ReaderOK(reader')
           /\ NotifiedIsRecorded' /\ Told'
           /\ notified' \subseteq Writers \X Nat /\ telling' \in SUBSET Writers
           /\ \A p \in notified' \ notified : \A q \in notified : p[1] = q[1] => q[2] < p[2]
<1> DEFINE wp   == rd.matched_writers[w]
           next == NextToNotify(rd, w)
           upto == IF next = {} THEN wp.low_mark ELSE CHOOSE n \in {c.seq : c \in next} : TRUE
           wq   == notified_until(wp, upto)
           rec  == IF rd.history_record[w] < wp.low_mark THEN wp.low_mark ELSE rd.history_record[w]
           hr   == [rd.history_record EXCEPT ![w] = rec]
           mw   == [rd.matched_writers EXCEPT ![w] = wq]
<1>1. /\ rd \in ReaderState /\ Consistent(wp) /\ wp.low_mark \in Nat /\ wp.last_notified \in Nat
      /\ rd.history_record \in [Writers -> Nat] /\ rd.history_record[w] \in Nat
      /\ rd.matched_writers \in [Writers -> WriterProxyState]
      /\ rd.history \in SUBSET Change /\ IsFiniteSet(rd.history) /\ rd.total_unread \in Nat
    BY ReaderTypes DEF ReaderOK
<1>2. /\ next \subseteq rd.history
      /\ upto \in Nat /\ wp.last_notified <= upto /\ upto <= wp.low_mark
      /\ \A c \in next : c.seq = upto /\ wp.last_notified < c.seq
    BY Zenon, NextNumber
<1>3. Cardinality(next) \in Nat
    BY <1>1, <1>2, SubsetFinite
<1>4. reader' = [rd EXCEPT !.history_record[w] = rec, !.matched_writers[w] = wq,
                           !.total_unread = rd.total_unread + Cardinality(next)]
    BY DEF Notify, NotifyChanges, available_changes_max
<1>5. /\ notified' = notified \cup {<<w, c.seq>> : c \in next}
      /\ telling' \in SUBSET {w}
    BY DEF Notify
<1> HIDE DEF next, upto
<1>6. Consistent(wq) /\ wq.last_notified = upto /\ wq.is_alive = wp.is_alive
    BY Zenon, <1>1, <1>2, NotifiedConsistent
<1>7. rec \in Nat /\ rd.history_record[w] <= rec /\ wp.low_mark <= rec
    BY <1>1
<1> HIDE DEF rec, wq
<1>8. /\ reader'.history_record = hr /\ reader'.matched_writers = mw
      /\ reader'.history = rd.history
    BY <1>1, <1>4 DEF ReaderState
<1>9. reader' \in ReaderState
    <2>1. wq \in WriterProxyState /\ rd.total_unread + Cardinality(next) \in Nat
        BY <1>1, <1>3, <1>6 DEF Consistent
    <2> QED
        BY Zenon, <1>1, <1>4, <1>7, <2>1 DEF ReaderState
<1>10. hr[w] = rec /\ \A v \in Writers : v # w => hr[v] = rd.history_record[v]
    BY <1>1
<1>11. mw[w] = wq /\ \A v \in Writers : v # w => mw[v] = rd.matched_writers[v]
    BY <1>1
<1> HIDE DEF hr, mw
<1>12. ReaderOK(reader')
    <2>1. \A v \in Writers : Consistent(mw[v])
        BY <1>6, <1>11 DEF ReaderOK
    <2> QED
        BY <1>1, <1>8, <1>9, <2>1 DEF ReaderOK
<1>13. ASSUME NEW p \in notified
       PROVE  /\ p[1] \in Writers /\ p[2] \in Nat /\ p[2] <= rd.history_record[p[1]]
              /\ rd.matched_writers[p[1]].is_alive => p[2] <= rd.matched_writers[p[1]].last_notified
    BY DEF NotifiedIsRecorded, Told, Steady
<1>14. ASSUME NEW p \in notified', p \notin notified
       PROVE  p[1] = w /\ p[2] = upto /\ wp.last_notified < p[2]
    <2>1. PICK c \in next : p = <<w, c.seq>>
        BY <1>5, <1>14
    <2> QED
        BY <1>2, <2>1
<1>15. ASSUME NEW p \in notified'
       PROVE  /\ p[1] \in Writers /\ p[2] <= hr[p[1]]
              /\ mw[p[1]].is_alive => p[2] <= mw[p[1]].last_notified
    <2>1. CASE p \in notified /\ p[1] = w
        <3>1. p[2] \in Nat /\ p[2] <= rd.history_record[w] /\ p[2] <= wp.last_notified
            BY <1>13, <2>1
        <3> QED
            BY <1>1, <1>2, <1>6, <1>7, <1>10, <1>11, <2>1, <3>1
    <2>2. CASE p \in notified /\ p[1] # w
        BY <1>10, <1>11, <1>13, <2>2
    <2>3. CASE p \notin notified
        <3>1. p[1] = w /\ p[2] = upto
            BY <1>14, <2>3
        <3> QED
            BY <1>1, <1>2, <1>6, <1>7, <1>10, <1>11, <3>1
    <2> QED
        BY <2>1, <2>2, <2>3
<1>16. NotifiedIsRecorded' /\ Told'
    BY <1>5, <1>6, <1>8, <1>11, <1>15, Zenon DEF NotifiedIsRecorded, Told
<1>17. notified' \subseteq Writers \X Nat
    BY <1>2, <1>5
<1>18. ASSUME NEW p \in notified' \ notified, NEW q \in notified, p[1] = q[1]
       PROVE  q[2] < p[2]
    <2>1. p[1] = w /\ p[2] = upto /\ wp.last_notified < p[2]
        BY <1>14
    <2>2. q[2] \in Nat /\ q[2] <= wp.last_notified
        BY <1>13, <1>18, <2>1, Zenon
    <2> QED
        BY <1>1, <1>2, <2>1, <2>2
<1> QED
    BY <1>5, <1>12, <1>16, <1>17, <1>18

----------------------------------------------------------------------------
\* The operations of the history touch neither the proxies nor the record.
Untouched(rd, rq) ==
    /\ rq.matched_writers = rd.matched_writers
    /\ rq.history_record = rd.history_record

\* ReaderHistory::remove_change, with change_removed_by_history, keeps the
\* reader in order and leaves every low mark where it is.
LEMMA RemoveChangeOK ==
    ASSUME NEW rd, ReaderOK(rd), NEW c \in Change
    PROVE  ReaderOK(remove_change(rd, c)) /\ Untouched(rd, remove_change(rd, c))
<1> DEFINE r1 == change_removed_by_history(rd, c)
           rq == [r1 EXCEPT !.history = r1.history \ {c}, !.isHistoryFull = FALSE]
<1>1. c.writer \in Writers /\ rd \in ReaderState
    BY DEF Change, ReaderOK
<1>2. rd.total_unread \in Nat /\ rd.history \in SUBSET Change /\ IsFiniteSet(rd.history)
    BY <1>1, ReaderTypes
<1>3. r1 \in ReaderState /\ Untouched(rd, r1) /\ r1.history = rd.history
    <2>1. CASE r1 = rd
        BY <1>1, <2>1 DEF Untouched
    <2>2. CASE r1 # rd
        <3>1. r1 = [rd EXCEPT !.total_unread = rd.total_unread - 1] /\ 0 < rd.total_unread
            BY <2>2 DEF change_removed_by_history
        <3>2. rd.total_unread - 1 \in Nat
            BY <1>2, <3>1
        <3> HIDE DEF r1
        <3> QED
            BY <1>1, <3>1, <3>2 DEF ReaderState, Untouched
    <2> QED
        BY <2>1, <2>2
<1>4. remove_change(rd, c) = rq
    BY DEF remove_change
<1> HIDE DEF r1
<1>5. /\ rq \in ReaderState /\ rq.history = r1.history \ {c}
      /\ rq.matched_writers = r1.matched_writers /\ rq.history_record = r1.history_record
    BY Zenon, <1>3 DEF ReaderState
<1> HIDE DEF rq
<1>6. IsFiniteSet(rq.history)
    BY <1>2, <1>3, <1>5, SubsetFinite
<1>7. Untouched(rd, rq)
    BY <1>3, <1>5 DEF Untouched
<1>8. ReaderOK(rq)
    BY <1>5, <1>6, <1>7, HistoryStep DEF Untouched
<1> QED
    BY <1>4, <1>7, <1>8

\* SubscriberHistory::add_received_change only adds to the history.
LEMMA AddReceivedChangeOK ==
    ASSUME NEW rd, ReaderOK(rd), NEW c \in Change, NEW rq \in add_received_change(rd, c)
    PROVE  ReaderOK(rq) /\ Untouched(rd, rq) /\ c \in rq.history
<1> DEFINE full == Cardinality(rd.history) + 1 = MaxSamples
<1>1. c.writer \in Writers /\ rd \in ReaderState
    BY DEF Change, ReaderOK
<1>2. rd.history \in SUBSET Change /\ IsFiniteSet(rd.history)
    BY <1>1, ReaderTypes
<1>3. rq = [rd EXCEPT !.history = rd.history \cup {c}, !.isHistoryFull = full]
    BY DEF add_received_change
<1>4. full \in BOOLEAN
    OBVIOUS
<1> HIDE DEF full
<1>5. /\ rq \in ReaderState /\ rq.history = rd.history \cup {c}
      /\ rq.matched_writers = rd.matched_writers /\ rq.history_record = rd.history_record
    BY Zenon, <1>1, <1>2, <1>3, <1>4 DEF ReaderState
<1>6. IsFiniteSet(rq.history)
    BY <1>2, <1>5, FS_AddElement
<1> QED
    BY <1>5, <1>6, HistoryStep DEF Untouched

\* SubscriberHistory::received_change, for either history kind, keeps the
\* reader in order: making room removes changes and nothing else.
LEMMA ReceivedChangeOK ==
    ASSUME NEW rd, ReaderOK(rd), NEW c \in Change, NEW rq \in received_change(rd, c)
    PROVE  ReaderOK(rq) /\ Untouched(rd, rq) /\ c \in rq.history
<1>1. CASE rq \in add_received_change(rd, c)
    BY <1>1, AddReceivedChangeOK
<1>2. ASSUME NEW old \in OldestChanges(rd), rq \in add_received_change(remove_change(rd, old), c)
      PROVE  ReaderOK(rq) /\ Untouched(rd, rq) /\ c \in rq.history
    <2>1. old \in Change
        <3>1. old \in rd.history
            BY DEF OldestChanges
        <3> QED
            BY <3>1 DEF ReaderOK, ReaderState
    <2>2. ReaderOK(remove_change(rd, old)) /\ Untouched(rd, remove_change(rd, old))
        BY <2>1, RemoveChangeOK
    <2>3. /\ ReaderOK(rq) /\ Untouched(remove_change(rd, old), rq) /\ c \in rq.history
        BY <1>2, <2>2, AddReceivedChangeOK
    <2> QED
        BY <2>2, <2>3 DEF Untouched
<1>3. \/ rq \in add_received_change(rd, c)
      \/ \E old \in OldestChanges(rd) : rq \in add_received_change(remove_change(rd, old), c)
    BY DEF received_change, received_change_keep_all_no_key, received_change_keep_last_no_key
<1> QED
    BY <1>1, <1>2, <1>3

\* A step that may only let the proxy of w advance.
LEMMA ChangeStoredOK ==
    ASSUME NEW rd, ReaderOK(rd), NEW c \in Change, c \in rd.history
    PROVE  /\ ReaderOK(change_stored(rd, c))
           /\ Steady(rd, change_stored(rd, c))
<1> DEFINE w    == c.writer
           lost == make_older_changes_lost(rd, w)
           seqs == {d.seq : d \in ChangesFrom(rd, w)}
           n    == CHOOSE m \in seqs : \A d \in ChangesFrom(rd, w) : m <= d.seq
<1>1. w \in Writers /\ c.seq \in Nat
    BY DEF Change
<1>2. n \in Nat \ {0}
    <2>1. seqs \in SUBSET (Nat \ {0})
        BY DEF ReaderOK, ReaderState, Change, ChangesFrom
    <2>2. c.seq \in seqs
        BY DEF ChangesFrom
    <2>3. PICK m \in seqs : \A k \in seqs : m <= k
        BY Zenon, <2>1, <2>2, LeastNatural
    <2>4. \A d \in ChangesFrom(rd, w) : m <= d.seq
        BY <2>3
    <2>5. n \in seqs
        BY <2>3, <2>4
    <2> QED
        BY Zenon, <2>1, <2>5
<1>3. ReaderOK(lost) /\ Steady(rd, lost)
    <2>1. CASE rd.isHistoryFull
        <3> DEFINE wq == lost_changes_update(rd.matched_writers[w], n)
        <3>1. Consistent(rd.matched_writers[w])
            BY <1>1 DEF ReaderOK
        <3>2. lost = [rd EXCEPT !.matched_writers[w] = wq]
            BY <2>1 DEF make_older_changes_lost
        <3> HIDE DEF n
        <3>3. Consistent(wq) /\ Advances(rd.matched_writers[w], wq)
            BY <1>2, <3>1, LostChangesConsistent
        <3> HIDE DEF wq
        <3> QED
            BY <1>1, <3>2, <3>3, ProxyStep
    <2>2. CASE ~rd.isHistoryFull
        BY <2>2 DEF make_older_changes_lost, Steady
    <2> QED
        BY <2>1, <2>2
<1> HIDE DEF lost, n
<1>4. CASE is_fully_assembled(c)
    <2> DEFINE wq == received_change_set(lost.matched_writers[w], c.seq)
    <2>1. Consistent(lost.matched_writers[w])
        BY <1>1, <1>3 DEF ReaderOK
    <2>2. Consistent(wq) /\ Advances(lost.matched_writers[w], wq)
        BY <1>1, <2>1, ReceivedChangeConsistent, Zenon
    <2>3. change_stored(rd, c) = [lost EXCEPT !.matched_writers[w] = wq]
        BY <1>4 DEF change_stored, lost
    <2> HIDE DEF wq
    <2>4. ReaderOK(change_stored(rd, c)) /\ Steady(lost, change_stored(rd, c))
        BY <1>1, <1>3, <2>2, <2>3, ProxyStep
    <2> QED
        BY <1>3, <2>4 DEF Steady
<1>5. CASE ~is_fully_assembled(c)
    BY <1>3, <1>5 DEF change_stored, lost
<1> QED
    BY <1>4, <1>5

\* processGapMsg on a matched writer lets the proxy of that writer advance and
\* removes incomplete changes; the other proxies stay as they are.
LEMMA GapAppliedOK ==
    ASSUME NEW rd, ReaderOK(rd), NEW w \in Writers, NEW gap \in Gaps
    PROVE  /\ ReaderOK(gap_applied(rd, w, gap))
           /\ Steady(rd, gap_applied(rd, w, gap))
<1> DEFINE gone == GapRemovals(rd, w, gap)
           N    == (gap.start .. (gap.base - 1)) \cup gap.list
           wq   == irrelevant_changes_set(rd.matched_writers[w], N)
           r1   == [rd EXCEPT !.history = rd.history \ gone,
                              !.isHistoryFull = rd.isHistoryFull /\ gone = {}]
<1>1. gap.start \in Nat \ {0} /\ gap.base \in Nat \ {0} /\ gap.base + AckWindow \in Nat
    BY EnvironmentAssumption, AckWindowAssumption DEF Gap
<1>2. N \in SUBSET Nat /\ \A n \in N : n <= gap.base + AckWindow
    BY <1>1, EnvironmentAssumption, AckWindowAssumption
<1>3. Consistent(rd.matched_writers[w])
    BY DEF ReaderOK
<1> HIDE DEF N
<1>4. Consistent(wq) /\ Advances(rd.matched_writers[w], wq)
    BY Zenon, <1>1, <1>2, <1>3, IrrelevantChangesConsistent
<1> HIDE DEF wq
<1>5. rd \in ReaderState /\ IsFiniteSet(rd.history) /\ rd.history \in SUBSET Change
    BY DEF ReaderOK, ReaderState
<1>6. (rd.isHistoryFull /\ gone = {}) \in BOOLEAN
    OBVIOUS
<1> HIDE DEF gone
<1>7. /\ r1 \in ReaderState /\ r1.history = rd.history \ gone
      /\ r1.matched_writers = rd.matched_writers /\ r1.history_record = rd.history_record
    BY Zenon, <1>5, <1>6 DEF ReaderState
<1>8. ReaderOK(r1)
    <2>1. IsFiniteSet(rd.history \ gone)
        BY <1>5, SubsetFinite
    <2> QED
        BY Zenon, <1>7, <2>1, HistoryStep
<1>9. gap_applied(rd, w, gap) = [r1 EXCEPT !.matched_writers[w] = wq]
    BY <1>5 DEF gap_applied, gone, wq, N, ReaderState
<1> HIDE DEF r1
<1>10. ReaderOK(gap_applied(rd, w, gap)) /\ Steady(r1, gap_applied(rd, w, gap))
    BY <1>4, <1>7, <1>8, <1>9, ProxyStep
<1> QED
    BY <1>7, <1>10 DEF Steady

\* processHeartbeatMsg on a matched writer lets the proxy of that writer advance
\* and removes incomplete changes.
LEMMA HeartbeatAppliedOK ==
    ASSUME NEW rd, ReaderOK(rd), NEW w \in Writers, NEW hb \in Heartbeats
    PROVE  /\ ReaderOK(heartbeat_applied(rd, w, hb))
           /\ Steady(rd, heartbeat_applied(rd, w, hb))
<1> DEFINE wq == process_heartbeat(rd.matched_writers[w], hb, DisablePositiveAcks)
           r1 == [rd EXCEPT !.matched_writers[w] = wq]
           rq == remove_fragmented_changes_until(r1, w, hb.first)
           kept == {c \in r1.history : ~(/\ c.writer = w
                                         /\ c.seq < hb.first
                                         /\ ~is_fully_assembled(c))}
<1>1. hb \in [count : Nat \ {0}, first : Nat \ {0}, last : Nat,
              final : BOOLEAN, liveliness : BOOLEAN]
    BY EnvironmentAssumption DEF Heartbeat
<1>2. Consistent(rd.matched_writers[w])
    BY DEF ReaderOK
<1>3. Consistent(wq) /\ Advances(rd.matched_writers[w], wq)
    BY <1>1, <1>2, HeartbeatConsistent, ReaderAssumption
<1>4. heartbeat_applied(rd, w, hb) = rq
    BY DEF heartbeat_applied
<1> HIDE DEF wq
<1>5. ReaderOK(r1) /\ Steady(rd, r1)
    BY <1>3, ProxyStep
<1>6. rq = [r1 EXCEPT !.history = kept]
    BY DEF remove_fragmented_changes_until
<1> HIDE DEF r1, rq
<1>7. r1 \in ReaderState /\ IsFiniteSet(r1.history) /\ r1.history \in SUBSET Change
    BY <1>5 DEF ReaderOK, ReaderState
<1>8. kept \subseteq r1.history
    OBVIOUS
<1> HIDE DEF kept
<1>9. /\ rq \in ReaderState /\ rq.history = kept
      /\ rq.matched_writers = r1.matched_writers /\ rq.history_record = r1.history_record
    BY <1>6, <1>7, <1>8 DEF ReaderState
<1>10. ReaderOK(rq)
    BY <1>5, <1>7, <1>8, <1>9, SubsetFinite, HistoryStep
<1> QED
    BY <1>4, <1>5, <1>9, <1>10 DEF Steady

\* ReaderHistory::remove_changes_with_guid, which matched_writer_remove calls,
\* keeps the reader in order.
LEMMA RemoveChangesWithGuidOK ==
    ASSUME NEW rd, ReaderOK(rd), NEW w \in Writers
    PROVE  ReaderOK(remove_changes_with_guid(rd, w)) /\ Untouched(rd, remove_changes_with_guid(rd, w))
<1> DEFINE gone    == ChangesFrom(rd, w)
           counted == {c \in gone : /\ is_fully_assembled(c)
                                    /\ ~c.isRead
                                    /\ available_changes_max(rd.matched_writers[w]) >= c.seq}
           unread  == IF Cardinality(counted) <= rd.total_unread
                      THEN rd.total_unread - Cardinality(counted) ELSE 0
           full    == rd.isHistoryFull /\ gone = {}
           rq      == [rd EXCEPT !.history = rd.history \ gone, !.isHistoryFull = full,
                                 !.total_unread = unread]
<1>1. /\ rd \in ReaderState /\ IsFiniteSet(rd.history) /\ rd.history \in SUBSET Change
      /\ rd.total_unread \in Nat
    BY DEF ReaderOK, ReaderState
<1>2. counted \subseteq rd.history
    BY DEF ChangesFrom
<1>3. remove_changes_with_guid(rd, w) = rq
    BY DEF remove_changes_with_guid
<1> HIDE DEF counted
<1>4. Cardinality(counted) \in Nat
    BY <1>1, <1>2, SubsetFinite
<1>5. unread \in Nat
    BY <1>1, <1>4
<1>6. full \in BOOLEAN
    OBVIOUS
<1> HIDE DEF unread, full, gone
<1>7. /\ rq \in ReaderState /\ rq.history = rd.history \ gone
      /\ rq.matched_writers = rd.matched_writers /\ rq.history_record = rd.history_record
    BY Zenon, <1>1, <1>5, <1>6 DEF ReaderState
<1> HIDE DEF rq
<1>8. IsFiniteSet(rq.history)
    BY <1>1, <1>7, SubsetFinite
<1> QED
    BY <1>3, <1>7, <1>8, HistoryStep DEF Untouched

----------------------------------------------------------------------------
\* The step formula of NotifiedOnceInOrder.
InOrder ==
    \A p \in notified' \ notified : \A q \in notified : p[1] = q[1] => q[2] < p[2]

\* The reader StatefulReader::init builds satisfies the inductive invariant.
LEMMA InitOK == Init => IInv
<1> SUFFICES ASSUME Init PROVE IInv
    OBVIOUS
<1>1. Consistent(stop) /\ ~stop.is_alive /\ stop \in WriterProxyState
    BY StopConsistent DEF Consistent
<1>2. reader \in ReaderState
    BY <1>1 DEF Init, created, ReaderState
<1>3. reader.history = {} /\ \A w \in Writers : reader.matched_writers[w] = stop
    BY DEF Init, created
<1>4. ReaderOK(reader)
    BY <1>1, <1>2, <1>3, FS_EmptySet DEF ReaderOK
<1>5. TypeOK
    BY <1>2, Zenon DEF Init, TypeOK
<1>6. NotifiedIsRecorded
    BY DEF Init, NotifiedIsRecorded
<1>7. Told
    BY DEF Init, Told
<1> QED
    BY <1>4, <1>5, <1>6, <1>7 DEF IInv

\* Steps that notify nobody and keep what the notifications rest on.
LEMMA QuietStep ==
    ASSUME IInv, ReaderOK(reader'), Steady(reader, reader'), UNCHANGED <<notified, telling>>
    PROVE  NotifiedIsRecorded' /\ Told' /\ InOrder /\ reader' \in ReaderState
<1>1. notified \subseteq Writers \X Nat /\ telling \in SUBSET Writers
    BY DEF IInv, TypeOK
<1>2. \A p \in notified : p[1] \in Writers
    BY <1>1
<1> QED
    BY <1>1, <1>2 DEF IInv, NotifiedIsRecorded, Told, Steady, InOrder, ReaderOK

\* Steps of the history alone are among them.
LEMMA UntouchedIsSteady ==
    ASSUME NEW rd, NEW rq, Untouched(rd, rq)
    PROVE  Steady(rd, rq)
BY DEF Untouched, Steady

\* processDataMsg preserves the inductive invariant, and notifies only above
\* what has been recorded.
LEMMA DataStep ==
    ASSUME IInv, NEW w \in Writers, NEW n \in DataNumbers, processDataMsg(w, n)
    PROVE  IInv' /\ InOrder
<1> DEFINE c == NewChange(w, n, {})
<1>1. n \in Nat \ {0}
    BY EnvironmentAssumption
<1>2. c \in Change /\ c.writer = w
    BY <1>1 DEF NewChange, Change
<1> HIDE DEF c
<1>3. PICK rd \in received_change(reader, c) : Notify(change_stored(rd, c), w)
    BY DEF processDataMsg, c
<1>4. ReaderOK(rd) /\ Untouched(reader, rd) /\ c \in rd.history
    BY <1>2, ReceivedChangeOK DEF IInv
<1> DEFINE rq == change_stored(rd, c)
<1>5. ReaderOK(rq) /\ Steady(rd, rq)
    BY <1>2, <1>4, ChangeStoredOK
<1>6. reader.matched_writers[w].is_alive
    BY DEF processDataMsg, Matched
<1>7. rq.matched_writers[w].is_alive /\ Steady(reader, rq)
    BY <1>4, <1>5, <1>6 DEF Untouched, Steady
<1>8. Notify(rq, w)
    BY <1>3
<1> HIDE DEF rq
<1>9. /\ ReaderOK(reader') /\ NotifiedIsRecorded' /\ Told'
      /\ notified' \subseteq Writers \X Nat /\ telling' \in SUBSET Writers /\ InOrder
    BY Zenon, <1>5, <1>7, <1>8, NotifyStep DEF IInv, TypeOK, InOrder
<1>10. arrived' \in [Writers -> SUBSET Nat] /\ UNCHANGED <<sent, excused, early>>
    BY <1>1 DEF processDataMsg, IInv, TypeOK
<1>11. TypeOK'
    BY <1>9, <1>10 DEF IInv, TypeOK, ReaderOK
<1> QED
    BY <1>9, <1>11 DEF IInv

\* processDataFragMsg does so too, whether or not the change becomes complete.
LEMMA FragmentStep ==
    ASSUME IInv, NEW w \in Writers, NEW n \in FragNumbers, NEW f \in Fragments,
           processDataFragMsg(w, n, {f})
    PROVE  IInv' /\ InOrder
<1>1. n \in Nat \ {0}
    BY EnvironmentAssumption
<1>2. reader.matched_writers[w].is_alive
    BY Zenon DEF processDataFragMsg, Matched
<1>3. arrived' \in [Writers -> SUBSET Nat] /\ UNCHANGED <<sent, excused, early>>
    <2>1. arrived' = arrived \/ arrived' = [arrived EXCEPT ![w] = @ \cup {n}]
        BY Zenon DEF processDataFragMsg
    <2>2. UNCHANGED <<sent, excused, early>>
        BY Zenon DEF processDataFragMsg
    <2>3. arrived \in [Writers -> SUBSET Nat]
        BY DEF IInv, TypeOK
    <2> QED
        BY <1>1, <2>1, <2>2, <2>3
<1>4. ASSUME NEW rq, ReaderOK(rq), Steady(reader, rq), Notify(rq, w)
      PROVE  IInv' /\ InOrder
    <2>1. /\ ReaderOK(reader') /\ NotifiedIsRecorded' /\ Told'
          /\ notified' \subseteq Writers \X Nat /\ telling' \in SUBSET Writers /\ InOrder
        <3>1. rq.matched_writers[w].is_alive
            BY <1>2, <1>4 DEF Steady
        <3> QED
            BY Zenon, <1>4, <3>1, NotifyStep DEF IInv, TypeOK, InOrder
    <2> QED
        BY <1>3, <2>1 DEF IInv, TypeOK, ReaderOK
<1>5. CASE \E rd \in received_change(reader, NewChange(w, n, Fragments \ {f})) :
              Notify(change_stored(rd, NewChange(w, n, Fragments \ {f})), w)
    <2> DEFINE c == NewChange(w, n, Fragments \ {f})
    <2>1. c \in Change /\ c.writer = w
        BY <1>1 DEF NewChange, Change
    <2> HIDE DEF c
    <2>2. PICK rd \in received_change(reader, c) : Notify(change_stored(rd, c), w)
        BY <1>5 DEF c
    <2>3. ReaderOK(rd) /\ Untouched(reader, rd) /\ c \in rd.history
        BY <2>1, ReceivedChangeOK DEF IInv
    <2>4. ReaderOK(change_stored(rd, c)) /\ Steady(rd, change_stored(rd, c))
        BY <2>1, <2>3, ChangeStoredOK
    <2>5. Steady(reader, change_stored(rd, c))
        BY <2>3, <2>4 DEF Untouched, Steady
    <2> QED
        BY Zenon, <1>4, <2>2, <2>4, <2>5
<1>6. ASSUME NEW c \in Partial(reader, w, n)
      PROVE  LET d  == [c EXCEPT !.missing = c.missing \ {f}]
                 rd == [reader EXCEPT !.history = (reader.history \ {c}) \cup {d}]
             IN  /\ ReaderOK(rd) /\ Untouched(reader, rd)
                 /\ Notify([rd EXCEPT !.matched_writers[w] =
                                received_change_set(rd.matched_writers[w], n)], w) => IInv' /\ InOrder
    <2> DEFINE d  == [c EXCEPT !.missing = c.missing \ {f}]
               H  == (reader.history \ {c}) \cup {d}
               rd == [reader EXCEPT !.history = H]
               wq == received_change_set(rd.matched_writers[w], n)
               rq == [rd EXCEPT !.matched_writers[w] = wq]
    <2>1. /\ reader \in ReaderState /\ reader.history \in SUBSET Change
          /\ IsFiniteSet(reader.history)
        BY DEF IInv, ReaderOK, ReaderState
    <2>2. c \in Change
        BY <2>1 DEF Partial, ChangesFrom
    <2>3. d \in Change
        BY <2>2 DEF Change
    <2>4. H \in SUBSET Change
        BY <2>1, <2>3
    <2>5. IsFiniteSet(H)
        <3>1. IsFiniteSet(reader.history \ {c})
            BY <2>1, SubsetFinite
        <3> QED
            BY Zenon, <3>1, FS_AddElement
    <2> HIDE DEF H, d
    <2>6. /\ rd \in ReaderState /\ rd.history = H
          /\ rd.matched_writers = reader.matched_writers
          /\ rd.history_record = reader.history_record
        BY <2>1, <2>4 DEF ReaderState
    <2> HIDE DEF rd
    <2>7. ReaderOK(rd) /\ Untouched(reader, rd)
        BY <2>5, <2>6, HistoryStep DEF IInv, Untouched
    <2>8. Consistent(rd.matched_writers[w])
        BY <2>7 DEF ReaderOK
    <2>9. Consistent(wq) /\ Advances(rd.matched_writers[w], wq)
        BY <1>1, <2>8, ReceivedChangeConsistent, Zenon
    <2> HIDE DEF wq
    <2>10. ReaderOK(rq) /\ Steady(rd, rq)
        BY <2>7, <2>9, ProxyStep
    <2>11. Steady(reader, rq)
        BY <2>7, <2>10 DEF Untouched, Steady
    <2> HIDE DEF rq
    <2>12. Notify(rq, w) => IInv' /\ InOrder
        BY <1>4, <2>10, <2>11
    <2> QED
        BY <2>7, <2>12 DEF rq, wq, rd, H, d
<1>7. CASE /\ UNCHANGED <<telling, notified>>
           /\ \E c \in Partial(reader, w, n) :
                reader' = [reader EXCEPT !.history =
                            (reader.history \ {c}) \cup {[c EXCEPT !.missing = c.missing \ {f}]}]
    <2>1. ReaderOK(reader') /\ Untouched(reader, reader')
        BY Zenon, <1>6, <1>7
    <2>2. NotifiedIsRecorded' /\ Told' /\ InOrder /\ reader' \in ReaderState
        BY <1>7, <2>1, UntouchedIsSteady, QuietStep
    <2> QED
        BY <1>3, <1>7, <2>1, <2>2 DEF IInv, TypeOK
<1>8. CASE \E c \in Partial(reader, w, n) :
              LET d  == [c EXCEPT !.missing = c.missing \ {f}]
                  rd == [reader EXCEPT !.history = (reader.history \ {c}) \cup {d}]
              IN  Notify([rd EXCEPT !.matched_writers[w] =
                            received_change_set(rd.matched_writers[w], n)], w)
    BY Zenon, <1>6, <1>8
<1> QED
    BY Zenon, <1>5, <1>7, <1>8 DEF processDataFragMsg

\* processHeartbeatMsg preserves the inductive invariant.
LEMMA HeartbeatStep ==
    ASSUME IInv, NEW w \in Writers, NEW hb \in Heartbeats, processHeartbeatMsg(w, hb)
    PROVE  IInv' /\ InOrder
<1> DEFINE rq == heartbeat_applied(reader, w, hb)
<1>1. ReaderOK(rq) /\ Steady(reader, rq)
    BY HeartbeatAppliedOK DEF IInv
<1>2. rq.matched_writers[w].is_alive /\ Notify(rq, w)
    BY <1>1 DEF processHeartbeatMsg, Matched, Steady
<1> HIDE DEF rq
<1>3. /\ ReaderOK(reader') /\ NotifiedIsRecorded' /\ Told'
      /\ notified' \subseteq Writers \X Nat /\ telling' \in SUBSET Writers /\ InOrder
    BY Zenon, <1>1, <1>2, NotifyStep DEF IInv, TypeOK, InOrder
<1>4. 1 .. (hb.first - 1) \in SUBSET Nat
    BY EnvironmentAssumption DEF Heartbeat
<1>5. excused' \in [Writers -> SUBSET Nat] /\ UNCHANGED <<sent, arrived, early>>
    BY <1>4 DEF processHeartbeatMsg, IInv, TypeOK
<1>6. TypeOK'
    BY <1>3, <1>5 DEF IInv, TypeOK, ReaderOK
<1> QED
    BY <1>3, <1>6 DEF IInv

\* processGapMsg preserves the inductive invariant.
LEMMA GapStep ==
    ASSUME IInv, NEW w \in Writers, NEW gap \in Gaps, processGapMsg(w, gap)
    PROVE  IInv' /\ InOrder
<1> DEFINE rq == gap_applied(reader, w, gap)
<1>1. ReaderOK(rq) /\ Steady(reader, rq)
    BY GapAppliedOK DEF IInv
<1>2. rq.matched_writers[w].is_alive /\ Notify(rq, w)
    BY <1>1 DEF processGapMsg, Matched, Steady
<1> HIDE DEF rq
<1>3. /\ ReaderOK(reader') /\ NotifiedIsRecorded' /\ Told'
      /\ notified' \subseteq Writers \X Nat /\ telling' \in SUBSET Writers /\ InOrder
    BY Zenon, <1>1, <1>2, NotifyStep DEF IInv, TypeOK, InOrder
<1>4. gap.start .. (gap.base - 1) \in SUBSET Nat /\ gap.list \in SUBSET Nat
    BY EnvironmentAssumption DEF Gap
<1>5. excused' \in [Writers -> SUBSET Nat] /\ UNCHANGED <<sent, arrived, early>>
    BY <1>4 DEF processGapMsg, IInv, TypeOK
<1>6. TypeOK'
    BY <1>3, <1>5 DEF IInv, TypeOK, ReaderOK
<1> QED
    BY <1>3, <1>6 DEF IInv

\* A proxy whose timer flags change is the same proxy otherwise.
LEMMA TimerFlags ==
    ASSUME NEW wp, Consistent(wp), NEW b \in BOOLEAN
    PROVE  /\ Consistent([wp EXCEPT !.initial_acknack = b])
           /\ Advances(wp, [wp EXCEPT !.initial_acknack = b])
           /\ Consistent([wp EXCEPT !.heartbeat_response = b])
           /\ Advances(wp, [wp EXCEPT !.heartbeat_response = b])
<1>1. wp.low_mark \in Nat /\ wp \in WriterProxyState
    BY DEF Consistent, WriterProxyState
<1> DEFINE wi == [wp EXCEPT !.initial_acknack = b]
           wh == [wp EXCEPT !.heartbeat_response = b]
<1>2. /\ wi \in WriterProxyState /\ wi.low_mark = wp.low_mark
      /\ wi.max_sequence_number = wp.max_sequence_number
      /\ wi.changes_received = wp.changes_received
      /\ wi.last_notified = wp.last_notified /\ wi.is_alive = wp.is_alive
    BY <1>1 DEF WriterProxyState
<1>3. /\ wh \in WriterProxyState /\ wh.low_mark = wp.low_mark
      /\ wh.max_sequence_number = wp.max_sequence_number
      /\ wh.changes_received = wp.changes_received
      /\ wh.last_notified = wp.last_notified /\ wh.is_alive = wp.is_alive
    BY <1>1 DEF WriterProxyState
<1> HIDE DEF wi, wh
<1>4. Consistent(wi) /\ Advances(wp, wi)
    BY <1>1, <1>2 DEF Consistent, Advances
<1>5. Consistent(wh) /\ Advances(wp, wh)
    BY <1>1, <1>3 DEF Consistent, Advances
<1> QED
    BY <1>4, <1>5 DEF wi, wh

\* perform_initial_ack_nack, run by the event thread, preserves it.
LEMMA InitialAcknackStep ==
    ASSUME IInv, NEW w \in Writers, perform_initial_ack_nack(w)
    PROVE  IInv' /\ InOrder
<1> DEFINE wq == [reader.matched_writers[w] EXCEPT !.initial_acknack = FALSE]
           r1 == [reader EXCEPT !.matched_writers[w] = wq]
<1>1. Consistent(reader.matched_writers[w]) /\ reader \in ReaderState
    BY DEF IInv, ReaderOK
<1>2. Consistent(wq) /\ Advances(reader.matched_writers[w], wq)
    BY Zenon, <1>1, TimerFlags
<1>3. reader' = [r1 EXCEPT !.acknack_count = reader.acknack_count + 1]
    BY <1>1 DEF perform_initial_ack_nack, ReaderState
<1> HIDE DEF wq
<1>4. ReaderOK(r1) /\ Steady(reader, r1)
    BY <1>2, ProxyStep DEF IInv
<1>5. reader.acknack_count + 1 \in Nat
    BY <1>1 DEF ReaderState
<1> HIDE DEF r1
<1>6. r1 \in ReaderState /\ IsFiniteSet(r1.history)
    BY <1>4 DEF ReaderOK
<1>7. /\ reader' \in ReaderState /\ reader'.history = r1.history
      /\ reader'.matched_writers = r1.matched_writers
      /\ reader'.history_record = r1.history_record
    BY <1>3, <1>5, <1>6 DEF ReaderState
<1>8. ReaderOK(reader')
    BY <1>4, <1>6, <1>7, HistoryStep
<1>9. UNCHANGED <<arrived, excused, notified, telling, early>>
    BY DEF perform_initial_ack_nack
<1>10. NotifiedIsRecorded' /\ Told' /\ InOrder
    <2>1. Steady(reader, reader')
        BY <1>4, <1>7 DEF Steady
    <2> QED
        BY <1>8, <1>9, <2>1, QuietStep
<1>11. \A m \in sent' : m.type \in {"ACKNACK", "NACKFRAG"} /\ m.writer \in Writers
    BY DEF perform_initial_ack_nack, IInv, TypeOK
<1>12. TypeOK'
    BY <1>7, <1>9, <1>11 DEF IInv, TypeOK
<1> QED
    BY <1>8, <1>10, <1>12 DEF IInv

\* perform_heartbeat_response, with the ACKNACK and NACKFRAGs it sends,
\* preserves it.
LEMMA HeartbeatResponseStep ==
    ASSUME IInv, NEW w \in Writers, perform_heartbeat_response(w)
    PROVE  IInv' /\ InOrder
<1> DEFINE wq == [reader.matched_writers[w] EXCEPT !.heartbeat_response = FALSE]
           r1 == [reader EXCEPT !.matched_writers[w] = wq]
<1>1. Consistent(reader.matched_writers[w]) /\ reader \in ReaderState /\ IsFiniteSet(reader.history)
    BY DEF IInv, ReaderOK
<1>2. Consistent(wq) /\ Advances(reader.matched_writers[w], wq)
    BY Zenon, <1>1, TimerFlags
<1>3. \/ reader' = r1
      \/ reader' = [r1 EXCEPT !.acknack_count = reader.acknack_count + 1,
                              !.nackfrag_count = reader.nackfrag_count + Cardinality(PartlyReceived(w))]
    BY <1>1 DEF perform_heartbeat_response, ReaderState
<1> HIDE DEF wq
<1>4. ReaderOK(r1) /\ Steady(reader, r1)
    BY <1>2, ProxyStep DEF IInv
<1>5. reader.acknack_count + 1 \in Nat /\ reader.nackfrag_count + Cardinality(PartlyReceived(w)) \in Nat
    <2>1. PartlyReceived(w) \subseteq reader.history
        BY DEF PartlyReceived, ChangesFrom
    <2>2. Cardinality(PartlyReceived(w)) \in Nat
        BY <1>1, <2>1, SubsetFinite
    <2> QED
        BY <1>1, <2>2 DEF ReaderState
<1> HIDE DEF r1
<1>6. r1 \in ReaderState /\ IsFiniteSet(r1.history)
    BY <1>4 DEF ReaderOK
<1>7. /\ reader' \in ReaderState /\ reader'.history = r1.history
      /\ reader'.matched_writers = r1.matched_writers
      /\ reader'.history_record = r1.history_record
    BY Zenon, <1>3, <1>5, <1>6 DEF ReaderState
<1>8. ReaderOK(reader')
    BY <1>4, <1>6, <1>7, HistoryStep
<1>9. UNCHANGED <<arrived, excused, notified, telling, early>>
    BY DEF perform_heartbeat_response
<1>10. NotifiedIsRecorded' /\ Told' /\ InOrder
    <2>1. Steady(reader, reader')
        BY <1>4, <1>7 DEF Steady
    <2> QED
        BY <1>8, <1>9, <2>1, QuietStep
<1>11. \A m \in sent' : m.type \in {"ACKNACK", "NACKFRAG"} /\ m.writer \in Writers
    <2>1. AckNack(w).type = "ACKNACK" /\ AckNack(w).writer = w
        BY DEF AckNack
    <2>2. ASSUME NEW c \in PartlyReceived(w)
          PROVE  NackFrag(w, c).type = "NACKFRAG" /\ NackFrag(w, c).writer = w
        BY DEF NackFrag
    <2>3. sent' \subseteq sent \cup {NackFrag(w, c) : c \in PartlyReceived(w)} \cup {AckNack(w)}
        BY DEF perform_heartbeat_response
    <2> QED
        BY <2>1, <2>2, <2>3 DEF IInv, TypeOK
<1>12. TypeOK'
    BY <1>7, <1>9, <1>11 DEF IInv, TypeOK
<1> QED
    BY <1>8, <1>10, <1>12 DEF IInv

\* matched_writer_add starts a proxy from the history record and preserves the
\* inductive invariant.
LEMMA MatchStep ==
    ASSUME IInv, NEW w \in Writers, matched_writer_add(w)
    PROVE  IInv' /\ InOrder
<1> DEFINE wq == start(reader.history_record[w])
<1>1. reader \in ReaderState /\ reader.history_record[w] \in Nat
    BY DEF IInv, ReaderOK, ReaderState
<1>2. Consistent(wq) /\ wq.last_notified = reader.history_record[w]
    BY <1>1, StartConsistent
<1>3. reader' = [reader EXCEPT !.matched_writers[w] = wq]
    BY DEF matched_writer_add
<1> HIDE DEF wq
<1>4. /\ reader' \in ReaderState /\ reader'.history = reader.history
      /\ reader'.history_record = reader.history_record
      /\ reader'.matched_writers = [reader.matched_writers EXCEPT ![w] = wq]
      /\ reader.matched_writers \in [Writers -> WriterProxyState]
    BY <1>1, <1>2, <1>3 DEF ReaderState, Consistent
<1>5. /\ reader'.matched_writers[w] = wq
      /\ \A v \in Writers : v # w => reader'.matched_writers[v] = reader.matched_writers[v]
    BY <1>4
<1>6. \A v \in Writers : Consistent(reader'.matched_writers[v])
    BY <1>2, <1>5 DEF IInv, ReaderOK
<1>7. wq.is_alive
    BY <1>1, StartConsistent DEF wq
<1>8. ReaderOK(reader')
    BY <1>4, <1>6 DEF IInv, ReaderOK
<1>9. UNCHANGED <<sent, notified, telling, early>>
    BY DEF matched_writer_add
<1>10. NotifiedIsRecorded' /\ Told' /\ InOrder
    <2>1. notified \subseteq Writers \X Nat /\ telling \in SUBSET Writers
        BY DEF IInv, TypeOK
    <2>2. NotifiedIsRecorded' /\ InOrder
        BY <1>4, <1>9 DEF IInv, NotifiedIsRecorded, InOrder
    <2>3. ASSUME NEW p \in notified, reader'.matched_writers[p[1]].is_alive
          PROVE  p[2] <= reader'.matched_writers[p[1]].last_notified
        <3>1. p[1] \in Writers
            BY <2>1
        <3>2. CASE p[1] = w
            BY <1>2, <1>5, <3>2 DEF IInv, NotifiedIsRecorded
        <3>3. CASE p[1] # w
            BY <1>5, <2>3, <3>1, <3>3 DEF IInv, Told
        <3> QED
            BY <3>2, <3>3
    <2>4. \A v \in telling : reader'.matched_writers[v].is_alive
        BY <1>5, <1>7, <2>1 DEF IInv, Told
    <2> QED
        BY Zenon, <1>9, <2>2, <2>3, <2>4 DEF Told
<1>11. arrived' \in [Writers -> SUBSET Nat] /\ excused' \in [Writers -> SUBSET Nat]
    BY <1>1 DEF matched_writer_add, IInv, TypeOK
<1>12. TypeOK'
    BY <1>4, <1>9, <1>11 DEF IInv, TypeOK
<1> QED
    BY <1>8, <1>10, <1>12 DEF IInv

\* matched_writer_remove keeps the record of the writer, so what was notified
\* stays covered by it.
LEMMA UnmatchStep ==
    ASSUME IInv, telling = {}, NEW w \in Writers, NEW lease \in BOOLEAN,
           matched_writer_remove(w, lease)
    PROVE  IInv' /\ InOrder
<1> DEFINE r1  == remove_changes_with_guid(reader, w)
           forget == ~lease /\ ~Persistent
           rec == IF forget THEN 0 ELSE r1.history_record[w]
<1>1. ReaderOK(r1) /\ Untouched(reader, r1)
    BY RemoveChangesWithGuidOK DEF IInv
<1>2. reader' = [r1 EXCEPT !.matched_writers[w] = stop, !.history_record[w] = rec]
    BY DEF matched_writer_remove
<1>3. Consistent(stop) /\ ~stop.is_alive /\ stop \in WriterProxyState
    BY StopConsistent DEF Consistent
<1> HIDE DEF r1
<1>4. r1 \in ReaderState /\ IsFiniteSet(r1.history) /\ r1.history_record \in [Writers -> Nat]
    BY <1>1 DEF ReaderOK, ReaderState
<1>5. rec \in Nat
    BY <1>4
<1>6. /\ reader' \in ReaderState /\ reader'.history = r1.history
      /\ reader'.history_record = [r1.history_record EXCEPT ![w] = rec]
      /\ reader'.matched_writers = [r1.matched_writers EXCEPT ![w] = stop]
      /\ r1.matched_writers \in [Writers -> WriterProxyState]
    <2> HIDE DEF rec
    <2> QED
        BY Zenon, <1>2, <1>3, <1>4, <1>5 DEF ReaderState
<1>7. /\ reader'.matched_writers[w] = stop
      /\ \A v \in Writers : v # w => reader'.matched_writers[v] = r1.matched_writers[v]
      /\ \A v \in Writers : v # w => reader'.history_record[v] = reader.history_record[v]
      /\ ~forget => reader'.history_record[w] = reader.history_record[w]
    BY <1>1, <1>4, <1>6 DEF Untouched
<1>8. \A v \in Writers : Consistent(reader'.matched_writers[v])
    BY <1>1, <1>3, <1>7 DEF ReaderOK
<1>10. ReaderOK(reader')
    BY <1>4, <1>6, <1>8 DEF ReaderOK
<1>11. UNCHANGED <<sent, arrived, excused, telling, early>>
    BY DEF matched_writer_remove
<1>12. /\ notified' \subseteq notified
       /\ forget => \A p \in notified' : p[1] # w
    BY DEF matched_writer_remove
<1>13. notified \subseteq Writers \X Nat
    BY DEF IInv, TypeOK
<1>14. NotifiedIsRecorded'
    <2>1. SUFFICES ASSUME NEW p \in notified' PROVE p[2] <= reader'.history_record[p[1]]
        BY DEF NotifiedIsRecorded
    <2>2. p[1] \in Writers /\ p[2] <= reader.history_record[p[1]]
        BY <1>12, <1>13 DEF IInv, NotifiedIsRecorded
    <2>3. reader'.history_record[p[1]] = reader.history_record[p[1]]
        BY <1>7, <1>12, <2>2
    <2> QED
        BY <2>2, <2>3
<1>15. Told'
    <2>1. ASSUME NEW p \in notified', reader'.matched_writers[p[1]].is_alive
          PROVE  p[2] <= reader'.matched_writers[p[1]].last_notified
        <3>1. p[1] \in Writers /\ p \in notified
            BY <1>12, <1>13
        <3>2. p[1] # w
            BY <1>3, <1>7, <2>1
        <3> QED
            BY <1>1, <1>7, <2>1, <3>1, <3>2 DEF IInv, Told, Untouched
    <2> QED
        BY <1>11, <2>1 DEF Told
<1>16. TypeOK'
    BY <1>6, <1>11, <1>12, <1>13 DEF IInv, TypeOK
<1> QED
    BY <1>10, <1>12, <1>14, <1>15, <1>16 DEF IInv, InOrder

\* The user's calls change the history and nothing else, also when the listener
\* makes them.
LEMMA UserStep ==
    ASSUME IInv, User
    PROVE  IInv' /\ InOrder
<1>1. /\ reader \in ReaderState /\ reader.history \in SUBSET Change
      /\ IsFiniteSet(reader.history) /\ reader.total_unread \in Nat /\ ReaderOK(reader)
    BY DEF IInv, ReaderOK, ReaderState
<1>2. UNCHANGED <<sent, arrived, excused, notified, telling>> /\ early' \in BOOLEAN
    BY Zenon DEF User, readNextData, takeNextData
<1>3. ASSUME NEW c \in reader.history, NEW unread \in Nat
      PROVE  LET read == [c EXCEPT !.isRead = TRUE]
                 rd   == [reader EXCEPT !.history = (reader.history \ {c}) \cup {read},
                                        !.total_unread = unread]
             IN  read \in Change /\ ReaderOK(rd) /\ Untouched(reader, rd)
    <2> DEFINE read == [c EXCEPT !.isRead = TRUE]
               H    == (reader.history \ {c}) \cup {read}
               rd   == [reader EXCEPT !.history = H, !.total_unread = unread]
    <2>1. c \in Change
        BY <1>1
    <2>2. read \in Change
        BY Zenon, <2>1 DEF Change
    <2>3. H \in SUBSET Change
        BY Zenon, <1>1, <2>2
    <2>4. IsFiniteSet(H)
        <3>1. IsFiniteSet(reader.history \ {c})
            BY <1>1, SubsetFinite
        <3> QED
            BY Zenon, <3>1, FS_AddElement
    <2> HIDE DEF H
    <2>5. /\ rd \in ReaderState /\ rd.history = H
          /\ rd.matched_writers = reader.matched_writers
          /\ rd.history_record = reader.history_record
        BY Zenon, <1>1, <2>3 DEF ReaderState
    <2> HIDE DEF rd
    <2>6. ReaderOK(rd) /\ Untouched(reader, rd)
        BY <1>1, <2>4, <2>5, HistoryStep DEF Untouched
    <2> QED
        BY <2>2, <2>6 DEF rd, H
<1>4. ReaderOK(reader') /\ Untouched(reader, reader')
    <2>1. CASE \E c \in reader.history : readNextData(c)
        <3>1. PICK c \in reader.history : readNextData(c)
            BY <2>1
        <3> DEFINE unread == IF 0 < reader.total_unread
                             THEN reader.total_unread - 1 ELSE reader.total_unread
        <3>2. unread \in Nat
            BY <1>1
        <3>3. reader' = [reader EXCEPT !.history = (reader.history \ {c}) \cup {[c EXCEPT !.isRead = TRUE]},
                                       !.total_unread = unread]
            BY <3>1 DEF readNextData
        <3> HIDE DEF unread
        <3> QED
            BY Zenon, <1>3, <3>2, <3>3
    <2>2. CASE \E c \in reader.history : takeNextData(c)
        <3>1. PICK c \in reader.history : takeNextData(c)
            BY <2>2
        <3> DEFINE unread == IF ~c.isRead /\ 0 < reader.total_unread
                             THEN reader.total_unread - 1 ELSE reader.total_unread
                   read   == [c EXCEPT !.isRead = TRUE]
                   rd     == [reader EXCEPT !.history = (reader.history \ {c}) \cup {read},
                                            !.total_unread = unread]
        <3>2. unread \in Nat
            BY <1>1
        <3>3. reader' = remove_change(rd, read)
            BY <3>1 DEF takeNextData
        <3> HIDE DEF unread
        <3>4. read \in Change /\ ReaderOK(rd) /\ Untouched(reader, rd)
            BY Zenon, <1>3, <3>2
        <3> HIDE DEF rd, read
        <3> QED
            BY <3>3, <3>4, RemoveChangeOK DEF Untouched
    <2> QED
        BY <2>1, <2>2 DEF User
<1>5. NotifiedIsRecorded' /\ Told' /\ InOrder /\ reader' \in ReaderState
    BY <1>2, <1>4, UntouchedIsSteady, QuietStep
<1>6. TypeOK'
    BY <1>2, <1>5 DEF IInv, TypeOK
<1> QED
    BY <1>4, <1>5, <1>6 DEF IInv

\* So does the lifespan timer.
LEMMA ExpiryStep ==
    ASSUME IInv, Expiry
    PROVE  IInv' /\ InOrder
<1>1. PICK c \in reader.history : lifespan_expired(c)
    BY DEF Expiry
<1>2. c \in Change /\ ReaderOK(reader)
    BY DEF IInv, ReaderOK, ReaderState
<1>3. ReaderOK(reader') /\ Untouched(reader, reader')
    BY <1>1, <1>2, RemoveChangeOK DEF lifespan_expired
<1>4. UNCHANGED <<sent, arrived, excused, notified, telling, early>>
    BY Zenon, <1>1 DEF lifespan_expired
<1>5. NotifiedIsRecorded' /\ Told' /\ InOrder /\ reader' \in ReaderState
    BY <1>3, <1>4, UntouchedIsSteady, QuietStep
<1>6. TypeOK'
    BY <1>4, <1>5 DEF IInv, TypeOK
<1> QED
    BY <1>3, <1>5, <1>6 DEF IInv

\* The loop of NotifyChanges goes on after the listener has returned.
LEMMA ListenerStep ==
    ASSUME IInv, NEW w \in telling, listener_returns(w)
    PROVE  IInv' /\ InOrder
<1>1. w \in Writers /\ reader.matched_writers[w].is_alive
    BY DEF IInv, TypeOK, Told
<1>2. ReaderOK(reader) /\ Steady(reader, reader) /\ Notify(reader, w)
    BY DEF IInv, Steady, listener_returns
<1>3. /\ ReaderOK(reader') /\ NotifiedIsRecorded' /\ Told'
      /\ notified' \subseteq Writers \X Nat /\ telling' \in SUBSET Writers /\ InOrder
    BY Zenon, <1>1, <1>2, NotifyStep DEF IInv, TypeOK, InOrder
<1>4. UNCHANGED <<sent, arrived, excused, early>>
    BY DEF listener_returns
<1>5. TypeOK'
    BY <1>3, <1>4 DEF IInv, TypeOK, ReaderOK
<1> QED
    BY <1>3, <1>5 DEF IInv

\* A persistent reader that starts again from its stored record satisfies the
\* inductive invariant.
LEMMA RestartStep ==
    ASSUME IInv, Restart
    PROVE  IInv' /\ InOrder
<1>1. reader.history_record \in [Writers -> Nat] /\ reader.history_kind \in HistoryKinds
    BY DEF IInv, ReaderOK, ReaderState
<1>2. Consistent(stop) /\ ~stop.is_alive /\ stop \in WriterProxyState
    BY StopConsistent DEF Consistent
<1>3. reader' = [matched_writers |-> [w \in Writers |-> stop],
                 history |-> {}, isHistoryFull |-> FALSE, total_unread |-> 0,
                 history_record |-> reader.history_record, acknack_count |-> 0,
                 nackfrag_count |-> 0, history_kind |-> reader.history_kind]
    BY Zenon DEF Restart, created
<1>4. reader' \in ReaderState
    BY <1>1, <1>2, <1>3 DEF ReaderState
<1>5. /\ reader'.history = {} /\ reader'.history_record = reader.history_record
      /\ \A w \in Writers : reader'.matched_writers[w] = stop
    BY <1>3
<1>6. ReaderOK(reader')
    BY <1>2, <1>4, <1>5, FS_EmptySet DEF ReaderOK
<1>7. sent' = {} /\ telling' = {} /\ early' = FALSE /\ UNCHANGED <<arrived, excused, notified>>
    BY DEF Restart
<1>8. NotifiedIsRecorded' /\ Told' /\ InOrder
    <2>1. notified \subseteq Writers \X Nat
        BY DEF IInv, TypeOK
    <2>2. NotifiedIsRecorded' /\ InOrder
        BY <1>5, <1>7 DEF IInv, NotifiedIsRecorded, InOrder
    <2>3. \A p \in notified' : ~reader'.matched_writers[p[1]].is_alive
        BY <1>2, <1>5, <1>7, <2>1
    <2> QED
        BY <1>7, <2>2, <2>3 DEF Told
<1>9. TypeOK'
    BY <1>4, <1>7, Zenon DEF IInv, TypeOK
<1> QED
    BY <1>6, <1>8, <1>9 DEF IInv

\* Every step of the reader preserves the inductive invariant and notifies only
\* above the record of the writer.
LEMMA NextOK ==
    ASSUME IInv, [Next]_vars
    PROVE  IInv' /\ InOrder
<1>1. CASE Next
    <2>1. ASSUME NEW w \in Writers, Reception(w)
          PROVE  IInv' /\ InOrder
        BY Zenon, <2>1, DataStep, FragmentStep, HeartbeatStep, GapStep DEF Reception
    <2>2. ASSUME NEW w \in Writers, Timers(w)
          PROVE  IInv' /\ InOrder
        BY <2>2, InitialAcknackStep, HeartbeatResponseStep DEF Timers
    <2>3. ASSUME telling = {}, NEW w \in Writers, Matching(w)
          PROVE  IInv' /\ InOrder
        BY <2>3, MatchStep, UnmatchStep DEF Matching
    <2> QED
        BY Zenon, <1>1, <2>1, <2>2, <2>3, ExpiryStep, ListenerStep, UserStep, RestartStep DEF Next
<1>2. CASE UNCHANGED vars
    BY <1>2 DEF vars, IInv, TypeOK, ReaderOK, NotifiedIsRecorded, Told, InOrder
<1> QED
    BY <1>1, <1>2

----------------------------------------------------------------------------
\* The inductive invariant holds in every reachable state.
THEOREM Invariance == Spec => []IInv
<1>1. Init => IInv
    BY InitOK
<1>2. IInv /\ [Next]_vars => IInv'
    BY NextOK
<1> QED
    BY <1>1, <1>2, PTL DEF Spec

\* Type correctness of the reader, for any writers, history and messages.
THEOREM TypeCorrect == Spec => []TypeOK
<1>1. IInv => TypeOK
    BY DEF IInv
<1> QED
    BY <1>1, Invariance, PTL

\* No message, in any order or number, makes the counters of a WriterProxy
\* contradict each other: cleanup, lost_changes_update, received_change_set
\* and missing_changes_update keep them consistent.
THEOREM ProxiesStayConsistent == Spec => []ProxyConsistent
<1>1. IInv => ProxyConsistent
    BY DEF IInv, ReaderOK, Consistent, ProxyConsistent
<1> QED
    BY <1>1, Invariance, PTL

\* Whatever has been notified is covered by the history record, so a writer
\* that is matched again starts after it.
THEOREM NotifiedStaysRecorded == Spec => []NotifiedIsRecorded
<1>1. IInv => NotifiedIsRecorded
    BY DEF IInv
<1> QED
    BY <1>1, Invariance, PTL

\* NotifyChanges never tells the user twice about a sample nor about the
\* samples of a writer out of order, whatever arrives and however often the
\* writer loses its lease or the persistent reader restarts.
THEOREM NotificationsAreUnique == Spec => NotifiedOnceInOrder
<1>1. IInv /\ [Next]_vars =>
        [\A p \in notified' \ notified : \A q \in notified : p[1] = q[1] => q[2] < p[2]]_vars
    BY NextOK DEF InOrder
<1> QED
    BY <1>1, Invariance, PTL DEF Spec, NotifiedOnceInOrder
=============================================================================
