-------------------------- MODULE LivelinessProofs --------------------------
(***************************************************************************)
(* As long as a writer is alive the timer of the LivelinessManager watches *)
(* it, for every set of writers, readers and threads.                      *)
(***************************************************************************)
EXTENDS LivelinessManager, TLAPS

Owner == [slot : Nat, data : Data \cup {None}]

Managers == [writers : Seq(Data), capacity : Nat, owner : Owner]

\* The owner is unset only when nobody is alive; what it points to is an element,
\* present or past.
ManagerOK(m) ==
    /\ m \in Managers
    /\ m.owner = NullOwner => Alive(m) = {}
    /\ m.owner # NullOwner => (m.owner.slot \in DOMAIN m.writers \/ m.owner.data \in Data)

ThreadStates ==
    [pc : {"idle", "waiting", "inside", "arming", "done"},
     op : {"none", "add", "remove", "assert", "write", "assert_kind"},
     link : scenario.links \cup {None}]

Typed ==
    /\ scenario \in Scenarios
    /\ DOMAIN timer = {"state", "interval", "next"}
    /\ timer.state \in {"INACTIVE", "READY", "WAITING"}
    /\ DOMAIN event = {"pc", "elapsed", "restart"}
    /\ event.pc \in {"idle", "expired", "inside", "returned"}
    /\ event.restart \in BOOLEAN
    /\ thread \in [Threads -> ThreadStates]
    /\ \A t \in Threads : thread[t].pc # "idle" => thread[t].link \in scenario.links

\* Who is past the lock is the holder of mutex_.
OneHolder ==
    /\ mutex_ \in Threads \cup {None, "event"}
    /\ \A t \in Threads : mutex_ = t <=> thread[t].pc \in {"inside", "arming", "done"}
    /\ mutex_ = "event" <=> event.pc = "inside"

Watched ==
    \/ timer.state \in {"READY", "WAITING"}
    \/ event.pc = "expired"
    \/ event.pc = "returned" /\ event.restart

\* The holder will not look at the timer again before it gives up mutex_.
Settled ==
    \/ mutex_ = None
    \/ \E t \in Threads : /\ mutex_ = t
                          /\ \/ thread[t].pc = "done"
                             \/ thread[t].pc = "inside" /\ thread[t].op = "remove"

IInv ==
    /\ Typed /\ OneHolder /\ ManagerOK(manager)
    /\ (Settled /\ Alive(manager) # {}) => Watched
----------------------------------------------------------------------------
(* What the operations do to the vector and to the owner.                   *)

\* The larger of 0 and an integer is a natural number.
LEMMA MaxZero ==
    ASSUME NEW n \in Int
    PROVE  Max({0, n}) \in Nat
<1>1. \E x \in {0, n} : \A y \in {0, n} : x >= y
    BY SMT
<1>2. Max({0, n}) \in {0, n} /\ \A y \in {0, n} : Max({0, n}) >= y
    BY <1>1, Zenon DEF Max
<1> QED
    BY <1>2, SMT

\* The next owner is unset just when nobody is alive.
LEMMA NextOwner ==
    ASSUME NEW m \in Managers, NEW o \in calculate_next(m)
    PROVE  /\ ManagerOK([m EXCEPT !.owner = o])
           /\ Alive([m EXCEPT !.owner = o]) = Alive(m)
           /\ o = NullOwner <=> Alive(m) = {}
           /\ o # NullOwner => m.writers[o.slot].time \in Nat
<1> DEFINE n == [m EXCEPT !.owner = o]
<1>1. n.writers = m.writers /\ n.owner = o /\ n.capacity = m.capacity
    BY DEF Managers
<1>2. Alive(n) = Alive(m)
    BY <1>1 DEF Alive
<1>3. CASE Alive(m) = {}
    <2>1. o = NullOwner
        BY <1>3 DEF calculate_next
    <2>2. o \in Owner
        BY <2>1 DEF Owner, NullOwner
    <2> QED
        BY <1>1, <1>2, <1>3, <2>1, <2>2 DEF ManagerOK, Managers
<1>4. CASE Alive(m) # {}
    <2>1. PICK i \in Alive(m) : o = [slot |-> i, data |-> None]
        BY <1>4 DEF calculate_next
    <2>2. i \in DOMAIN m.writers /\ i \in Nat \ {0} /\ m.writers[i] \in Data
        BY <2>1 DEF Alive, Managers
    <2>3. o \in Owner /\ o # NullOwner /\ o.slot = i
        BY <2>1, <2>2 DEF Owner, NullOwner
    <2>4. m.writers[i].time \in Nat
        BY <2>2 DEF Data
    <2> QED
        BY <1>1, <1>2, <1>4, <2>2, <2>3, <2>4 DEF ManagerOK, Managers
<1> QED
    BY <1>3, <1>4

\* Changes to elements that keep their places and make nobody alive.
LEMMA SamePlaces ==
    ASSUME NEW m, ManagerOK(m), NEW ws \in Seq(Data), Len(ws) = Len(m.writers),
           \A i \in 1 .. Len(ws) : ws[i].status = "ALIVE" => m.writers[i].status = "ALIVE"
    PROVE  /\ ManagerOK([m EXCEPT !.writers = ws])
           /\ Alive([m EXCEPT !.writers = ws]) \subseteq Alive(m)
<1> DEFINE n == [m EXCEPT !.writers = ws]
<1>0. m \in Managers
    BY DEF ManagerOK
<1>1. n.writers = ws /\ n.owner = m.owner /\ n \in Managers
    BY <1>0 DEF Managers
<1>2. DOMAIN ws = DOMAIN m.writers /\ DOMAIN ws = 1 .. Len(ws)
    BY <1>0 DEF Managers
<1>3. Alive(n) \subseteq Alive(m)
    BY <1>1, <1>2 DEF Alive
<1> QED
    BY <1>1, <1>2, <1>3 DEF ManagerOK

\* What the owner points to can be read.
LEMMA ContentIsData ==
    ASSUME NEW m, ManagerOK(m), m.owner # NullOwner
    PROVE  Content(m) \in Data /\ Content(m) # None
<1>1. m.writers \in Seq(Data)
    BY DEF ManagerOK, Managers
<1>2. Content(m) \in Data
    BY <1>1 DEF ManagerOK, Content
<1> QED
    BY <1>2, LivelinessAssumption

\* A new writer is not alive yet, and an owner that moves away is not unset.
LEMMA Emplaced ==
    ASSUME NEW m, ManagerOK(m), NEW d \in Data, d.status = "NOT_ASSERTED"
    PROVE  ManagerOK(emplace_back(m, d)) /\ Alive(emplace_back(m, d)) \subseteq Alive(m)
<1> DEFINE n    == emplace_back(m, d)
           last == Len(m.writers) + 1
           full == Len(m.writers) = m.capacity
<1>0. m \in Managers /\ m.writers \in Seq(Data) /\ m.owner \in Owner /\ m.owner.slot \in Nat
    BY DEF ManagerOK, Managers, Owner
<1>1. n.writers = Append(m.writers, d) /\ n.writers \in Seq(Data) /\ Len(n.writers) = last
    BY <1>0 DEF emplace_back
<1>2. DOMAIN n.writers = 1 .. last /\ DOMAIN m.writers = 1 .. Len(m.writers) /\ last \in Nat \ {0}
    BY <1>0, <1>1
<1>3. \A i \in 1 .. Len(m.writers) : n.writers[i] = m.writers[i]
    BY <1>0, <1>1
<1>4. n.writers[last].status # "ALIVE"
    BY <1>0, <1>1
<1>5. Alive(n) \subseteq Alive(m)
    <2> SUFFICES ASSUME NEW i \in Alive(n) PROVE i \in Alive(m)
        OBVIOUS
    <2>1. i \in 1 .. last /\ n.writers[i].status = "ALIVE"
        BY <1>2 DEF Alive
    <2>2. i # last
        BY <2>1, <1>4
    <2>3. i \in 1 .. Len(m.writers)
        BY <2>1, <2>2, <1>0
    <2> QED
        BY <2>1, <2>3, <1>2, <1>3 DEF Alive
<1>6. /\ n.owner \in Owner
      /\ m.owner # NullOwner => n.owner # NullOwner
      /\ m.owner = NullOwner => n.owner = NullOwner
      /\ n.owner # NullOwner => (n.owner.slot \in DOMAIN n.writers \/ n.owner.data \in Data)
    <2>1. CASE m.owner = NullOwner
        <3>0. m.owner.slot # last
            BY <2>1, <1>2 DEF NullOwner
        <3>1. n.owner = NullOwner
            BY <2>1, <3>0 DEF emplace_back
        <3> QED
            BY <2>1, <3>1 DEF Owner, NullOwner
    <2>2. CASE m.owner # NullOwner /\ full
        <3>1. n.owner = [slot |-> 0, data |-> Content(m)]
            BY <2>2 DEF emplace_back
        <3> QED
            BY <2>2, <3>1, ContentIsData DEF Owner, NullOwner
    <2>3. CASE m.owner # NullOwner /\ ~full /\ m.owner.slot = last
        <3>1. n.owner = [slot |-> last, data |-> None]
            BY <2>3 DEF emplace_back
        <3> QED
            BY <2>3, <3>1, <1>2 DEF Owner, NullOwner
    <2>4. CASE m.owner # NullOwner /\ ~full /\ m.owner.slot # last
        <3>1. n.owner = m.owner
            BY <2>4 DEF emplace_back
        <3>2. m.owner.slot \in DOMAIN m.writers => m.owner.slot \in DOMAIN n.writers
            BY <1>0, <1>2
        <3> QED
            BY <2>4, <3>1, <3>2, <1>0 DEF ManagerOK
    <2> QED
        BY <2>1, <2>2, <2>3, <2>4
<1>7. n.capacity \in Nat /\ n \in Managers
    <2>1. n = [writers |-> n.writers, capacity |-> n.capacity, owner |-> n.owner]
        BY DEF emplace_back
    <2>2. n.capacity \in Nat
        BY <1>0, <1>2 DEF emplace_back, Managers
    <2> QED
        BY <2>1, <2>2, <1>1, <1>6, Zenon DEF Managers
<1> QED
    BY <1>5, <1>6, <1>7 DEF ManagerOK

\* Removing an element makes nobody alive, and an owner that is left behind the
\* end keeps what it pointed to.
LEMMA Removed ==
    ASSUME NEW m, ManagerOK(m), NEW i \in DOMAIN m.writers
    PROVE  ManagerOK(remove(m, i)) /\ (Alive(remove(m, i)) # {} => Alive(m) # {})
<1> DEFINE n    == remove(m, i)
           last == Len(m.writers)
           ws   == [m.writers EXCEPT ![i] = m.writers[last]]
<1>0. m \in Managers /\ m.writers \in Seq(Data) /\ m.owner \in Owner /\ m.owner.slot \in Nat
    BY DEF ManagerOK, Managers, Owner
<1>1. DOMAIN m.writers = 1 .. last /\ last \in Nat /\ i \in 1 .. last /\ last >= 1
    BY <1>0
<1>2. m.writers[last] \in Data
    BY <1>0, <1>1
<1>3. ws \in Seq(Data) /\ Len(ws) = last
    BY <1>0, <1>1, <1>2
<1>4. /\ n.writers = SubSeq(ws, 1, last - 1)
      /\ n.capacity = m.capacity
      /\ n.owner = IF m.owner.slot = last THEN [slot |-> last, data |-> m.writers[last]] ELSE m.owner
      /\ n = [writers |-> n.writers, capacity |-> n.capacity, owner |-> n.owner]
    <2> DEFINE sub == SubSeq(ws, 1, last - 1)
               own == IF m.owner.slot = last THEN [slot |-> last, data |-> m.writers[last]] ELSE m.owner
    <2>1. n = [m EXCEPT !.writers = sub, !.owner = own]
        BY DEF remove
    <2> HIDE DEF sub, own, n
    <2>2. n.writers = sub /\ n.capacity = m.capacity /\ n.owner = own
        BY <2>1, <1>0 DEF Managers
    <2>3. n = [writers |-> n.writers, capacity |-> n.capacity, owner |-> n.owner]
        BY <2>1, <1>0, Zenon DEF Managers
    <2> QED
        BY <2>2, <2>3 DEF sub, own
<1>5. n.writers \in Seq(Data) /\ Len(n.writers) = last - 1 /\ DOMAIN n.writers = 1 .. (last - 1)
    BY <1>1, <1>3, <1>4
<1>6. \A k \in 1 .. (last - 1) : n.writers[k] = IF k = i THEN m.writers[last] ELSE m.writers[k]
    <2> TAKE k \in 1 .. (last - 1)
    <2>1. ws[k] = IF k = i THEN m.writers[last] ELSE m.writers[k]
        BY <1>0, <1>1
    <2> HIDE DEF ws
    <2>2. SubSeq(ws, 1, last - 1)[k] = ws[k]
        BY <1>1, <1>3
    <2> QED
        BY <2>1, <2>2, <1>4
<1>7. Alive(n) # {} => Alive(m) # {}
    <2> SUFFICES ASSUME NEW k \in Alive(n) PROVE Alive(m) # {}
        OBVIOUS
    <2>1. k \in 1 .. (last - 1) /\ n.writers[k].status = "ALIVE"
        BY <1>5 DEF Alive
    <2>2. k \in DOMAIN m.writers /\ last \in DOMAIN m.writers
        BY <2>1, <1>1
    <2>3. m.writers[last].status = "ALIVE" \/ m.writers[k].status = "ALIVE"
        BY <2>1, <1>6
    <2> QED
        BY <2>2, <2>3 DEF Alive
<1>8. n.owner \in Owner /\ (n.owner = NullOwner => m.owner = NullOwner)
    <2>1. CASE m.owner.slot = last
        BY <2>1, <1>0, <1>1, <1>2, <1>4 DEF Owner, NullOwner
    <2>2. CASE m.owner.slot # last
        BY <2>2, <1>0, <1>4
    <2> QED
        BY <2>1, <2>2
<1>9. n.owner # NullOwner => (n.owner.slot \in DOMAIN n.writers \/ n.owner.data \in Data)
    <2>1. CASE m.owner.slot = last
        BY <2>1, <1>2, <1>4
    <2>2. CASE m.owner.slot # last
        <3>1. n.owner = m.owner
            BY <2>2, <1>4
        <3>2. m.owner.slot \in DOMAIN m.writers => m.owner.slot \in DOMAIN n.writers
            BY <2>2, <1>0, <1>1, <1>5
        <3> QED
            BY <3>1, <3>2 DEF ManagerOK
    <2> QED
        BY <2>1, <2>2
<1>10. n \in Managers
    BY <1>0, <1>4, <1>5, <1>8, Zenon DEF Managers
<1> QED
    BY <1>7, <1>8, <1>9, <1>10 DEF ManagerOK

\* Asserting writers keeps the vector a vector.
LEMMA AssertedWriters ==
    ASSUME NEW m \in Managers, NEW S
    PROVE  assert_writer_liveliness(m, S) \in Managers
<1> DEFINE ws == [i \in DOMAIN m.writers |->
                    IF i \notin S THEN m.writers[i]
                    ELSE [m.writers[i] EXCEPT !.status = "ALIVE", !.time = m.writers[i].lease]]
<1>1. m.writers \in Seq(Data) /\ DOMAIN m.writers = 1 .. Len(m.writers) /\ Len(m.writers) \in Nat
    BY DEF Managers
<1>2. ASSUME NEW i \in DOMAIN m.writers PROVE ws[i] \in Data
    <2>1. m.writers[i] \in Data
        BY <1>1
    <2> QED
        BY <2>1, Zenon DEF Data
<1>3. ws \in Seq(Data)
    <2>1. ws \in [1 .. Len(m.writers) -> Data]
        BY <1>1, <1>2, Zenon
    <2> HIDE DEF ws
    <2> QED
        BY <2>1, <1>1
<1>4. assert_writer_liveliness(m, S) = [m EXCEPT !.writers = ws]
    BY DEF assert_writer_liveliness, Managers
<1> QED
    BY <1>3, <1>4, Zenon DEF Managers
----------------------------------------------------------------------------
(* Every step keeps the invariant.  One lemma per action.                   *)

\* Who may hold mutex_.
LEMMA Holders == None \notin Threads /\ "event" \notin Threads /\ None # "event"
    BY LivelinessAssumption

\* What a link brings in becomes an element of the vector.
LEMMA LinkFacts ==
    ASSUME Typed, NEW t \in Threads, thread[t].pc # "idle"
    PROVE  LivelinessData(thread[t].link[2], QosOf(thread[t].link)) \in Data
<1>1. thread[t].link \in scenario.links /\ scenario \in Scenario
    BY LivelinessAssumption DEF Typed
<1>2. thread[t].link \in Endpoints \X Writers
    BY <1>1 DEF Scenario
<1>3. thread[t].link[1] \in Endpoints /\ thread[t].link[2] \in Writers
    BY <1>2
<1>4. scenario.qos[thread[t].link[1]] \in [kind : Kinds, lease : Nat \ {0}]
    BY <1>1, <1>3 DEF Scenario
<1> QED
    BY <1>3, <1>4 DEF LivelinessData, QosOf, Data

\* A call that returns from a state that is settled or about to be.
LEMMA ReturnStep ==
    ASSUME IInv, NEW t \in Threads, Return(t), thread[t].pc # "idle", mutex_ \in {None, t},
           DOMAIN timer' = DOMAIN timer, timer'.state \in {"INACTIVE", "READY", "WAITING"}
    PROVE  Typed' /\ OneHolder'
<1> USE Holders
<1>0. Typed /\ OneHolder
    BY DEF IInv
<1>1. /\ mutex_' = None /\ scenario' = scenario /\ event' = event
      /\ thread' = [thread EXCEPT ![t] = [pc |-> "idle", op |-> "none", link |-> None]]
    BY DEF Return
<1>2. thread \in [Threads -> ThreadStates]
    BY <1>0 DEF Typed
<1>3. /\ thread'[t] = [pc |-> "idle", op |-> "none", link |-> None]
      /\ \A u \in Threads \ {t} : thread'[u] = thread[u]
    BY <1>1, <1>2
<1>4. thread' \in [Threads -> ThreadStates']
    BY <1>1, <1>2 DEF ThreadStates
<1>5. Typed'
    BY <1>0, <1>1, <1>3, <1>4 DEF Typed
<1>6. OneHolder'
    BY <1>0, <1>1, <1>3 DEF OneHolder
<1> QED
    BY <1>5, <1>6

\* A call begins.
LEMMA BeginStep ==
    ASSUME IInv, NEW t \in Threads, Begin(t)
    PROVE  IInv'
<1> USE Holders
<1>0. Typed /\ OneHolder /\ ManagerOK(manager) /\ ((Settled /\ Alive(manager) # {}) => Watched)
    BY DEF IInv
<1>1. PICK op \in {"add", "remove", "assert", "write", "assert_kind"}, link \in scenario.links :
            thread' = [thread EXCEPT ![t] = [pc |-> "waiting", op |-> op, link |-> link]]
    BY Zenon DEF Begin
<1>2. /\ thread[t].pc = "idle"
      /\ UNCHANGED <<scenario, manager, timer, event, mutex_>>
    BY DEF Begin
<1>3. thread \in [Threads -> ThreadStates]
    BY <1>0 DEF Typed
<1>4. /\ thread'[t] = [pc |-> "waiting", op |-> op, link |-> link]
      /\ \A u \in Threads \ {t} : thread'[u] = thread[u]
    BY <1>1, <1>3
<1>5. thread' \in [Threads -> ThreadStates']
    BY <1>1, <1>2, <1>3 DEF ThreadStates
<1>6. Typed'
    BY <1>0, <1>2, <1>4, <1>5 DEF Typed
<1>7. OneHolder'
    BY <1>0, <1>2, <1>4 DEF OneHolder
<1>8. Settled' => Settled
    BY <1>2, <1>4 DEF Settled
<1>9. ManagerOK(manager)' /\ Alive(manager)' = Alive(manager) /\ (Watched' <=> Watched)
    BY <1>0, <1>2 DEF ManagerOK, Alive, Watched
<1> QED
    BY <1>0, <1>6, <1>7, <1>8, <1>9 DEF IInv

\* add_writer: nobody becomes alive.
LEMMA AddStep ==
    ASSUME IInv, NEW t \in Threads, add_writer(t)
    PROVE  IInv'
<1> USE Holders
<1>0. Typed /\ OneHolder /\ ManagerOK(manager) /\ ((Settled /\ Alive(manager) # {}) => Watched)
    BY DEF IInv
<1> DEFINE q     == QosOf(thread[t].link)
           g     == thread[t].link[2]
           found == find_writer(manager, g, q)
           ws    == [i \in DOMAIN manager.writers |->
                        IF i \notin found THEN manager.writers[i]
                        ELSE [manager.writers[i] EXCEPT !.count = manager.writers[i].count + 1]]
<1>1. /\ thread[t].pc = "waiting" /\ mutex_ = None /\ Return(t) /\ timer' = timer /\ event' = event
      /\ mutex_' = None
    BY DEF add_writer, Return
<1>2. Typed' /\ OneHolder'
    <2>1. DOMAIN timer' = DOMAIN timer /\ timer'.state \in {"INACTIVE", "READY", "WAITING"}
        BY <1>0, <1>1 DEF Typed
    <2> QED
        BY <1>1, <2>1, ReturnStep
<1>3. ManagerOK(manager') /\ Alive(manager') \subseteq Alive(manager)
    <2>1. CASE found = {}
        <3>1. manager' = emplace_back(manager, LivelinessData(g, q))
            BY <2>1 DEF add_writer
        <3>2. LivelinessData(g, q) \in Data
            BY <1>0, <1>1, LinkFacts
        <3>3. LivelinessData(g, q).status = "NOT_ASSERTED"
            BY DEF LivelinessData
        <3> QED
            BY <1>0, <3>1, <3>2, <3>3, Emplaced
    <2>2. CASE found # {}
        <3>1. manager' = [manager EXCEPT !.writers = ws]
            BY <2>2 DEF add_writer
        <3>2. /\ manager.writers \in Seq(Data) /\ Len(manager.writers) \in Nat
              /\ DOMAIN manager.writers = 1 .. Len(manager.writers)
            BY <1>0 DEF ManagerOK, Managers
        <3>3. ASSUME NEW i \in DOMAIN manager.writers
              PROVE  ws[i] \in Data /\ ws[i].status = manager.writers[i].status
            <4>1. manager.writers[i] \in Data
                BY <3>2
            <4> QED
                BY <4>1 DEF Data
        <3>4. ws \in [1 .. Len(manager.writers) -> Data]
            BY <3>2, <3>3, Zenon
        <3>5. \A i \in 1 .. Len(manager.writers) : ws[i].status = manager.writers[i].status
            BY <3>2, <3>3
        <3> HIDE DEF ws
        <3>6. ws \in Seq(Data) /\ Len(ws) = Len(manager.writers)
            BY <3>2, <3>4
        <3> QED
            BY <1>0, <3>1, <3>5, <3>6, SamePlaces
    <2> QED
        BY <2>1, <2>2
<1>4. Settled /\ (Watched' <=> Watched)
    BY <1>1 DEF Settled, Watched
<1> QED
    BY <1>0, <1>2, <1>3, <1>4 DEF IInv, ManagerOK, Alive

\* assert_liveliness without a writer changes nothing.
LEMMA NothingStep ==
    ASSUME IInv, NEW t \in Threads, assert_nothing(t)
    PROVE  IInv'
<1>0. Typed /\ OneHolder /\ ManagerOK(manager) /\ ((Settled /\ Alive(manager) # {}) => Watched)
    BY DEF IInv
<1>1. /\ thread[t].pc = "waiting" /\ mutex_ = None /\ Return(t)
      /\ timer' = timer /\ event' = event /\ manager' = manager
    BY DEF assert_nothing, Return
<1>2. Typed' /\ OneHolder'
    <2>1. DOMAIN timer' = DOMAIN timer /\ timer'.state \in {"INACTIVE", "READY", "WAITING"}
        BY <1>0, <1>1 DEF Typed
    <2> QED
        BY <1>1, <2>1, ReturnStep
<1>3. ManagerOK(manager)' /\ Alive(manager)' = Alive(manager)
    BY <1>0, <1>1 DEF ManagerOK, Alive
<1>4. Settled /\ (Watched' <=> Watched)
    BY <1>1 DEF Settled, Watched
<1> QED
    BY <1>0, <1>2, <1>3, <1>4 DEF IInv

\* A call takes mutex_ or goes on with it.
LEMMA HolderStep ==
    ASSUME IInv, NEW t \in Threads, thread[t].pc # "idle", mutex_ \in {None, t}, mutex_' = t,
           NEW pc \in {"inside", "arming", "done"}, thread' = [thread EXCEPT ![t].pc = pc],
           scenario' = scenario, event' = event,
           DOMAIN timer' = DOMAIN timer, timer'.state \in {"INACTIVE", "READY", "WAITING"}
    PROVE  /\ Typed' /\ OneHolder'
           /\ thread'[t].pc = pc /\ thread'[t].op = thread[t].op
           /\ Settled' <=> (pc = "done" \/ (pc = "inside" /\ thread[t].op = "remove"))
<1> USE Holders
<1>0. Typed /\ OneHolder
    BY DEF IInv
<1>1. thread \in [Threads -> ThreadStates]
    BY <1>0 DEF Typed
<1>2. /\ thread'[t] = [thread[t] EXCEPT !.pc = pc]
      /\ \A u \in Threads \ {t} : thread'[u] = thread[u]
    BY <1>1
<1>3. /\ thread[t] \in ThreadStates /\ thread'[t].pc = pc /\ thread'[t].op = thread[t].op
      /\ thread'[t].link = thread[t].link /\ thread'[t] \in ThreadStates
    BY <1>1, <1>2 DEF ThreadStates
<1>4. thread' \in [Threads -> ThreadStates]
    BY <1>1, <1>2, <1>3
<1>5. ThreadStates' = ThreadStates
    BY DEF ThreadStates
<1>6. \A u \in Threads : thread'[u].pc # "idle" => thread'[u].link \in scenario.links
    <2> TAKE u \in Threads
    <2>1. CASE u = t
        BY <1>0, <1>3, <2>1 DEF Typed
    <2>2. CASE u # t
        BY <1>0, <1>2, <2>2 DEF Typed
    <2> QED
        BY <2>1, <2>2
<1>7. Typed'
    BY <1>0, <1>4, <1>5, <1>6 DEF Typed
<1>8. OneHolder'
    <2>1. \A u \in Threads \ {t} : thread[u].pc \notin {"inside", "arming", "done"}
        BY <1>0 DEF OneHolder
    <2> QED
        BY <1>0, <1>2, <1>3, <2>1 DEF OneHolder
<1>9. Settled' <=> (pc = "done" \/ (pc = "inside" /\ thread[t].op = "remove"))
    BY <1>3 DEF Settled
<1> QED
    BY <1>3, <1>7, <1>8, <1>9

\* Only a removal takes mutex_ and leaves the timer alone.
LEMMA EnterStep ==
    ASSUME IInv, NEW t \in Threads, enter(t)
    PROVE  IInv'
<1>0. Typed /\ OneHolder /\ ManagerOK(manager) /\ ((Settled /\ Alive(manager) # {}) => Watched)
    BY DEF IInv
<1>1. /\ thread[t].pc = "waiting" /\ mutex_ = None /\ mutex_' = t
      /\ thread' = [thread EXCEPT ![t].pc = "inside"]
      /\ UNCHANGED <<scenario, manager, event>>
    BY DEF enter
<1>2. /\ thread[t].op = "remove" => timer' = timer
      /\ timer' = timer \/ timer' = cancel_timer
    BY DEF enter, Calls
<1>3. DOMAIN timer' = DOMAIN timer /\ timer'.state \in {"INACTIVE", "READY", "WAITING"}
    BY <1>0, <1>2 DEF Typed, cancel_timer
<1>4. Typed' /\ OneHolder' /\ (Settled' <=> thread[t].op = "remove")
    BY <1>1, <1>3, HolderStep, Zenon
<1>5. ManagerOK(manager)' /\ Alive(manager)' = Alive(manager)
    BY <1>0, <1>1 DEF ManagerOK, Alive
<1>6. Settled /\ (timer' = timer => (Watched' <=> Watched))
    BY <1>1 DEF Settled, Watched
<1> QED
    BY <1>0, <1>2, <1>4, <1>5, <1>6 DEF IInv

\* Rearm leaves the timer to be restarted, or nobody alive.
LEMMA RearmStep ==
    ASSUME IInv, NEW t \in Threads, thread[t].pc = "inside", NEW m \in Managers,
           NEW otherwise \in {timer, cancel_timer}, Rearm(t, m, otherwise),
           UNCHANGED <<scenario, event, mutex_>>
    PROVE  IInv'
<1>0. Typed /\ OneHolder
    BY DEF IInv
<1>1. PICK o \in calculate_next(m) :
            /\ manager' = [m EXCEPT !.owner = o]
            /\ timer' = IF o = NullOwner THEN otherwise ELSE update_interval(manager')
            /\ thread' = [thread EXCEPT ![t].pc = IF o = NullOwner THEN "done" ELSE "arming"]
    BY Zenon DEF Rearm
<1>2. ManagerOK(manager') /\ Alive(manager') = Alive(m) /\ (o = NullOwner <=> Alive(m) = {})
    BY <1>1, NextOwner
<1>3. DOMAIN timer' = DOMAIN timer /\ timer'.state \in {"INACTIVE", "READY", "WAITING"}
    BY <1>0, <1>1 DEF Typed, cancel_timer, update_interval
<1>4. mutex_ = t
    BY <1>0 DEF OneHolder
<1> DEFINE pc == IF o = NullOwner THEN "done" ELSE "arming"
<1>5. pc \in {"inside", "arming", "done"} /\ thread' = [thread EXCEPT ![t].pc = pc]
    BY <1>1
<1> HIDE DEF pc
<1>6. Typed' /\ OneHolder' /\ (Settled' => (pc = "done" \/ pc = "inside"))
    BY <1>3, <1>4, <1>5, HolderStep, Zenon
<1>7. Settled' => Alive(manager') = {}
    BY <1>2, <1>6 DEF pc
<1> QED
    BY <1>2, <1>6, <1>7 DEF IInv, ManagerOK, Alive

\* assert_liveliness, with its callbacks.
LEMMA AssertStep ==
    ASSUME IInv, NEW t \in Threads, assert_liveliness(t)
    PROVE  IInv'
<1> DEFINE m == assert_writer_liveliness(manager, Asserted(t))
<1>1. manager \in Managers
    BY DEF IInv, ManagerOK
<1>2. m \in Managers
    BY <1>1, AssertedWriters
<1>3. thread[t].pc = "inside" /\ Rearm(t, m, timer) /\ UNCHANGED <<scenario, event, mutex_>>
    BY DEF assert_liveliness
<1> HIDE DEF m
<1> QED
    BY <1>2, <1>3, RearmStep

\* remove_writer: there is no writer, or it is kept, goes and leaves the timer
\* as it is, or goes and passes the timer on.
LEMMA RemoveStep ==
    ASSUME IInv, NEW t \in Threads, remove_writer(t)
    PROVE  IInv'
<1>0. Typed /\ OneHolder /\ ManagerOK(manager) /\ ((Settled /\ Alive(manager) # {}) => Watched)
    BY DEF IInv
<1>1. thread[t].pc = "inside" /\ thread[t].op = "remove" /\ UNCHANGED <<scenario, event, mutex_>>
    BY DEF remove_writer, Calls
<1>2. mutex_ = t /\ Settled
    BY <1>0, <1>1 DEF OneHolder, Settled
<1>3. \/ manager' = manager /\ thread' = [thread EXCEPT ![t].pc = "done"] /\ timer' = timer
      \/ \E i \in find_writer(manager, thread[t].link[2], QosOf(thread[t].link)) :
            LET d == manager.writers[i]
                m == remove(manager, i)
            IN  \/ /\ d.count > 1
                   /\ manager' = [manager EXCEPT !.writers[i].count = @ - 1]
                   /\ thread' = [thread EXCEPT ![t].pc = "done"]
                   /\ timer' = timer
                \/ /\ manager' = m
                   /\ thread' = [thread EXCEPT ![t].pc = "done"]
                   /\ timer' = timer
                \/ Rearm(t, m, cancel_timer)
    BY DEF remove_writer
<1>4. ASSUME thread' = [thread EXCEPT ![t].pc = "done"], timer' = timer, ManagerOK(manager'),
             Alive(manager') # {} => Alive(manager) # {}
      PROVE  IInv'
    <2>1. DOMAIN timer' = DOMAIN timer /\ timer'.state \in {"INACTIVE", "READY", "WAITING"}
        BY <1>0, <1>4 DEF Typed
    <2>2. Typed' /\ OneHolder'
        BY <1>1, <1>2, <1>4, <2>1, HolderStep, Zenon
    <2>3. Watched' <=> Watched
        BY <1>1, <1>4 DEF Watched
    <2> QED
        BY <1>0, <1>2, <1>4, <2>2, <2>3 DEF IInv, ManagerOK, Alive
<1>5. CASE manager' = manager /\ thread' = [thread EXCEPT ![t].pc = "done"] /\ timer' = timer
    <2>1. ManagerOK(manager') /\ (Alive(manager') # {} => Alive(manager) # {})
        BY <1>0, <1>5, Zenon
    <2> QED
        BY <1>4, <1>5, <2>1, Zenon
<1> SUFFICES ASSUME ~(manager' = manager /\ thread' = [thread EXCEPT ![t].pc = "done"] /\ timer' = timer)
             PROVE  IInv'
    BY <1>5, Zenon
<1>6. PICK i \in find_writer(manager, thread[t].link[2], QosOf(thread[t].link)) :
        LET d == manager.writers[i]
            m == remove(manager, i)
        IN  \/ /\ d.count > 1
               /\ manager' = [manager EXCEPT !.writers[i].count = @ - 1]
               /\ thread' = [thread EXCEPT ![t].pc = "done"]
               /\ timer' = timer
            \/ /\ manager' = m
               /\ thread' = [thread EXCEPT ![t].pc = "done"]
               /\ timer' = timer
            \/ Rearm(t, m, cancel_timer)
    BY <1>3, Zenon
<1> DEFINE d == manager.writers[i]
           m == remove(manager, i)
<1>7. /\ i \in DOMAIN manager.writers /\ manager.writers \in Seq(Data) /\ manager \in Managers
      /\ d \in Data
    BY <1>0, <1>6 DEF find_writer, ManagerOK, Managers
<1>8. ManagerOK(m) /\ (Alive(m) # {} => Alive(manager) # {})
    BY <1>0, <1>7, Removed
<1>9. CASE /\ d.count > 1
           /\ manager' = [manager EXCEPT !.writers[i].count = @ - 1]
           /\ thread' = [thread EXCEPT ![t].pc = "done"]
           /\ timer' = timer
    <2> DEFINE e  == [d EXCEPT !.count = d.count - 1]
               ws == [manager.writers EXCEPT ![i] = e]
    <2>1. manager' = [manager EXCEPT !.writers = ws]
        BY <1>7, <1>9 DEF Managers
    <2>2. e \in Data /\ e.status = d.status
        <3>1. d \in Data /\ d.count > 1
            BY <1>7, <1>9
        <3> HIDE DEF d
        <3>2. d.count \in Nat
            BY <3>1 DEF Data
        <3>3. d.count - 1 \in Nat
            BY <3>1, <3>2
        <3> QED
            BY <3>1, <3>3 DEF Data
    <2> HIDE DEF e
    <2>3. ws \in Seq(Data) /\ Len(ws) = Len(manager.writers)
        BY <1>7, <2>2
    <2>4. \A k \in 1 .. Len(ws) : ws[k].status = "ALIVE" => manager.writers[k].status = "ALIVE"
        BY <1>7, <2>2, <2>3
    <2> HIDE DEF ws
    <2>5. ManagerOK(manager') /\ Alive(manager') \subseteq Alive(manager)
        BY <1>0, <2>1, <2>3, <2>4, SamePlaces
    <2> QED
        BY <1>4, <1>9, <2>5
<1>10. CASE manager' = m /\ thread' = [thread EXCEPT ![t].pc = "done"] /\ timer' = timer
    BY <1>8, <1>4, <1>10
<1>11. CASE Rearm(t, m, cancel_timer)
    <2>1. m \in Managers
        BY <1>8 DEF ManagerOK
    <2> HIDE DEF m
    <2> QED
        BY <1>1, <1>11, <2>1, RearmStep
<1> QED
    BY <1>6, <1>9, <1>10, <1>11

\* The call restarts the timer if it has a new owner, and gives up mutex_.
LEMMA LeaveStep ==
    ASSUME IInv, NEW t \in Threads, leave(t)
    PROVE  IInv'
<1>0. Typed /\ OneHolder /\ ManagerOK(manager) /\ ((Settled /\ Alive(manager) # {}) => Watched)
    BY DEF IInv
<1>1. /\ thread[t].pc \in {"arming", "done"} /\ Return(t) /\ manager' = manager /\ event' = event
      /\ timer' = IF thread[t].pc = "arming" THEN restart_timer ELSE timer
    BY DEF leave, Return
<1>2. /\ DOMAIN timer' = DOMAIN timer /\ timer'.state \in {"INACTIVE", "READY", "WAITING"}
      /\ thread[t].pc = "arming" => timer'.state \in {"READY", "WAITING"}
    BY <1>0, <1>1 DEF Typed, restart_timer
<1>3. mutex_ = t
    BY <1>0, <1>1 DEF OneHolder
<1>4. Typed' /\ OneHolder'
    BY <1>1, <1>2, <1>3, ReturnStep
<1>5. ManagerOK(manager)' /\ Alive(manager)' = Alive(manager)
    BY <1>0, <1>1 DEF ManagerOK, Alive
<1>6. CASE thread[t].pc = "arming"
    BY <1>2, <1>4, <1>5, <1>6 DEF IInv, Watched
<1>7. CASE thread[t].pc = "done"
    <2>1. Settled /\ (Watched' <=> Watched)
        BY <1>1, <1>3, <1>7 DEF Settled, Watched
    <2> QED
        BY <1>0, <1>4, <1>5, <2>1 DEF IInv
<1> QED
    BY <1>1, <1>6, <1>7

\* A step of the event thread or of time that leaves mutex_ alone and keeps the
\* timer watched.
LEMMA QuietStep ==
    ASSUME IInv, UNCHANGED <<scenario, thread, mutex_>>, ManagerOK(manager'),
           Alive(manager') \subseteq Alive(manager), Watched => Watched',
           DOMAIN timer' = DOMAIN timer, timer'.state \in {"INACTIVE", "READY", "WAITING"},
           DOMAIN event' = DOMAIN event, event'.pc \in {"idle", "expired", "returned", event.pc},
           event'.restart \in BOOLEAN, event.pc = "inside" <=> event'.pc = "inside"
    PROVE  IInv'
<1>0. Typed /\ OneHolder /\ ((Settled /\ Alive(manager) # {}) => Watched)
    BY DEF IInv
<1>1. ThreadStates' = ThreadStates
    BY DEF ThreadStates
<1>2. Typed'
    BY <1>0, <1>1 DEF Typed
<1>3. OneHolder'
    BY <1>0 DEF OneHolder
<1>4. Settled' <=> Settled
    BY DEF Settled
<1>5. ManagerOK(manager)' /\ (Alive(manager)' # {} => Alive(manager) # {})
    BY DEF ManagerOK, Alive
<1> QED
    BY <1>0, <1>2, <1>3, <1>4, <1>5 DEF IInv

\* A ready timer waits, a waiting one goes off, one that has gone off goes on.
LEMMA TimerStep ==
    ASSUME IInv, update \/ trigger \/ returned
    PROVE  IInv'
<1>0. Typed /\ ManagerOK(manager)
    BY DEF IInv
<1>1. UNCHANGED <<scenario, thread, mutex_>> /\ manager' = manager
    BY DEF update, trigger, returned
<1>2. ManagerOK(manager') /\ Alive(manager') \subseteq Alive(manager)
    BY <1>0, <1>1
<1>3. CASE update
    <2>1. event' = event /\ timer' = [timer EXCEPT !.state = "WAITING", !.next = timer.interval]
        BY <1>3 DEF update
    <2>2. DOMAIN timer' = DOMAIN timer /\ timer'.state = "WAITING"
        BY <1>0, <2>1 DEF Typed
    <2>3. Watched'
        BY <2>2 DEF Watched
    <2> QED
        BY <1>0, <1>1, <1>2, <2>1, <2>2, <2>3, QuietStep DEF Typed
<1>4. CASE trigger
    <2>1. /\ event.pc = "idle" /\ event' = [pc |-> "expired", elapsed |-> 0, restart |-> FALSE]
          /\ timer' = [timer EXCEPT !.state = "INACTIVE"]
        BY <1>4 DEF trigger
    <2>2. DOMAIN timer' = DOMAIN timer /\ timer'.state = "INACTIVE"
        BY <1>0, <2>1 DEF Typed
    <2>3. /\ DOMAIN event' = DOMAIN event /\ event'.pc = "expired" /\ event'.restart \in BOOLEAN
          /\ Watched'
        BY <1>0, <2>1 DEF Typed, Watched
    <2> QED
        BY <1>1, <1>2, <2>1, <2>2, <2>3, QuietStep
<1>5. CASE returned
    <2> DEFINE on == event.restart /\ timer.state = "INACTIVE"
    <2>1. /\ event.pc = "returned" /\ event' = [pc |-> "idle", elapsed |-> 0, restart |-> FALSE]
          /\ on => timer' = [timer EXCEPT !.state = "WAITING",
                                          !.next = Max({0, timer.interval - event.elapsed})]
          /\ ~on => timer' = timer
        BY <1>5 DEF returned
    <2>2. /\ DOMAIN timer' = DOMAIN timer /\ timer'.state \in {"INACTIVE", "READY", "WAITING"}
          /\ event.restart => timer'.state \in {"READY", "WAITING"}
          /\ ~event.restart => timer' = timer
        BY <1>0, <2>1, Zenon DEF Typed
    <2>3. Watched => Watched'
        BY <2>1, <2>2 DEF Watched
    <2>4. DOMAIN event' = DOMAIN event /\ event'.pc = "idle" /\ event'.restart \in BOOLEAN
        BY <1>0, <2>1 DEF Typed
    <2> QED
        BY <1>1, <1>2, <2>1, <2>2, <2>3, <2>4, QuietStep
<1> QED
    BY <1>3, <1>4, <1>5

\* Time goes on.
LEMMA TickStep ==
    ASSUME IInv, Tick
    PROVE  IInv'
<1>0. Typed /\ ManagerOK(manager)
    BY DEF IInv
<1> DEFINE ws == [i \in DOMAIN manager.writers |->
                    [manager.writers[i] EXCEPT !.time = Max({0, manager.writers[i].time - 1})]]
           next == Max({0, timer.next - 1})
           elapsed == IF event.pc = "idle" THEN 0 ELSE Min({event.elapsed + 1, MaxLease})
<1>1. /\ manager' = [manager EXCEPT !.writers = ws]
      /\ timer' = [timer EXCEPT !.next = next]
      /\ event' = [event EXCEPT !.elapsed = elapsed]
      /\ UNCHANGED <<scenario, thread, mutex_>>
    BY DEF Tick
<1>2. /\ manager.writers \in Seq(Data) /\ Len(manager.writers) \in Nat
      /\ DOMAIN manager.writers = 1 .. Len(manager.writers)
    BY <1>0 DEF ManagerOK, Managers
<1>3. ASSUME NEW i \in DOMAIN manager.writers
      PROVE  ws[i] \in Data /\ ws[i].status = manager.writers[i].status
    <2>0. manager.writers[i] \in Data
        BY <1>2
    <2>1. manager.writers[i] \in Data /\ manager.writers[i].time - 1 \in Int
        BY <2>0 DEF Data
    <2> DEFINE k == Max({0, manager.writers[i].time - 1})
    <2>2. k \in Nat
        BY <2>1, MaxZero
    <2>3. ws[i] = [manager.writers[i] EXCEPT !.time = k]
        OBVIOUS
    <2> HIDE DEF k, ws
    <2> QED
        BY <2>1, <2>2, <2>3 DEF Data
<1>4. ws \in [1 .. Len(manager.writers) -> Data]
    BY <1>2, <1>3, Zenon
<1>5. \A i \in 1 .. Len(manager.writers) : ws[i].status = manager.writers[i].status
    BY <1>2, <1>3
<1> HIDE DEF ws, next, elapsed
<1>6. ws \in Seq(Data) /\ Len(ws) = Len(manager.writers)
    BY <1>2, <1>4
<1>7. ManagerOK(manager') /\ Alive(manager') \subseteq Alive(manager)
    BY <1>0, <1>1, <1>5, <1>6, SamePlaces, Zenon
<1>8. /\ DOMAIN timer' = DOMAIN timer /\ timer'.state = timer.state
      /\ DOMAIN event' = DOMAIN event /\ event'.pc = event.pc /\ event'.restart = event.restart
    BY <1>0, <1>1 DEF Typed
<1>9. Watched => Watched'
    BY <1>8 DEF Watched
<1> QED
    BY <1>0, <1>1, <1>7, <1>8, <1>9, QuietStep DEF Typed

\* The callback gets mutex_.
LEMMA LockStep ==
    ASSUME IInv, lock
    PROVE  IInv'
<1> USE Holders
<1>0. Typed /\ OneHolder /\ ManagerOK(manager)
    BY DEF IInv
<1>1. /\ event.pc = "expired" /\ mutex_ = None /\ mutex_' = "event"
      /\ event' = [event EXCEPT !.pc = "inside"]
      /\ UNCHANGED <<scenario, manager, timer, thread>>
    BY DEF lock
<1>2. DOMAIN event' = DOMAIN event /\ event'.pc = "inside" /\ event'.restart = event.restart
    BY <1>0, <1>1 DEF Typed
<1>3. Typed'
    BY <1>0, <1>1, <1>2 DEF Typed, ThreadStates
<1>4. OneHolder'
    BY <1>0, <1>1, <1>2 DEF OneHolder
<1>5. ~Settled'
    BY <1>1 DEF Settled
<1>6. ManagerOK(manager)'
    BY <1>0, <1>1 DEF ManagerOK, Alive
<1> QED
    BY <1>3, <1>4, <1>5, <1>6 DEF IInv

\* timer_expired asks to be called again unless nobody is alive.
LEMMA ExpiredStep ==
    ASSUME IInv, timer_expired
    PROVE  IInv'
<1> USE Holders
<1>0. Typed /\ OneHolder /\ ManagerOK(manager) /\ manager \in Managers
    BY DEF IInv, ManagerOK
<1>1. event.pc = "inside" /\ mutex_' = None /\ UNCHANGED <<scenario, thread>>
    BY Zenon DEF timer_expired
<1>2. mutex_ = "event"
    BY <1>0, <1>1 DEF OneHolder
<1>3. ASSUME DOMAIN event' = DOMAIN event, event'.pc = "returned", event'.restart \in BOOLEAN,
             DOMAIN timer' = DOMAIN timer, timer'.state = timer.state, ManagerOK(manager'),
             Alive(manager') # {} => event'.restart
      PROVE  IInv'
    <2>1. Typed'
        BY <1>0, <1>1, <1>3 DEF Typed, ThreadStates
    <2>2. OneHolder'
        BY <1>0, <1>1, <1>2, <1>3 DEF OneHolder
    <2> QED
        BY <1>3, <2>1, <2>2 DEF IInv, ManagerOK, Alive, Watched
<1>4. CASE manager.owner = NullOwner
    <2>1. event' = [event EXCEPT !.pc = "returned"] /\ manager' = manager /\ timer' = timer
        BY <1>4 DEF timer_expired
    <2>2. Alive(manager) = {}
        BY <1>0, <1>4 DEF ManagerOK
    <2>3. DOMAIN event' = DOMAIN event /\ event'.pc = "returned" /\ event'.restart \in BOOLEAN
        BY <1>0, <2>1 DEF Typed
    <2> QED
        BY <1>0, <1>3, <2>1, <2>2, <2>3
<1>5. CASE manager.owner # NullOwner
    <2> DEFINE m == Lost(manager)
    <2>1. PICK o \in calculate_next(m) :
                /\ manager' = [m EXCEPT !.owner = o]
                /\ timer' = IF o = NullOwner THEN timer ELSE update_interval(manager')
                /\ event' = [event EXCEPT !.pc = "returned", !.restart = o # NullOwner]
        BY <1>5, Zenon DEF timer_expired
    <2>2. m \in Managers
        <3> DEFINE ws == [i \in DOMAIN manager.writers |->
                            IF i = manager.owner.slot
                            THEN [manager.writers[i] EXCEPT !.status = "NOT_ALIVE", !.time = 0]
                            ELSE manager.writers[i]]
        <3>1. m = [manager EXCEPT !.writers = ws]
            BY Zenon DEF Lost
        <3>2. /\ manager.writers \in Seq(Data) /\ Len(manager.writers) \in Nat
              /\ DOMAIN manager.writers = 1 .. Len(manager.writers)
            BY <1>0 DEF Managers
        <3>3. ASSUME NEW i \in DOMAIN manager.writers PROVE ws[i] \in Data
            <4>1. manager.writers[i] \in Data
                BY <3>2
            <4> QED
                BY <4>1, Zenon DEF Data
        <3>4. ws \in [1 .. Len(manager.writers) -> Data]
            BY <3>2, <3>3, Zenon
        <3> HIDE DEF ws
        <3>5. ws \in Seq(Data)
            BY <3>2, <3>4
        <3> QED
            BY <1>0, <3>1, <3>5 DEF Managers
    <2> HIDE DEF m
    <2>3. ManagerOK(manager') /\ Alive(manager') = Alive(m) /\ (o = NullOwner <=> Alive(m) = {})
        BY <2>1, <2>2, NextOwner
    <2>4. DOMAIN timer' = DOMAIN timer /\ timer'.state = timer.state
        BY <1>0, <2>1 DEF Typed, update_interval
    <2>5. /\ DOMAIN event' = DOMAIN event /\ event'.pc = "returned" /\ event'.restart \in BOOLEAN
          /\ o # NullOwner => event'.restart
        BY <1>0, <2>1, Zenon DEF Typed
    <2> QED
        BY <1>3, <2>3, <2>4, <2>5
<1> QED
    BY <1>4, <1>5
----------------------------------------------------------------------------
(* The theorem.                                                             *)

\* Nobody is known and nobody holds mutex_ in the beginning.
LEMMA InitIInv == Init => IInv
<1> SUFFICES ASSUME Init PROVE IInv
    OBVIOUS
<1> USE Holders DEF Init
<1>1. \A t \in Threads : thread[t] = [pc |-> "idle", op |-> "none", link |-> None]
    OBVIOUS
<1>2. thread \in [Threads -> ThreadStates]
    BY DEF ThreadStates
<1>3. Typed
    BY <1>1, <1>2 DEF Typed
<1>4. OneHolder
    BY <1>1 DEF OneHolder
<1>5. Alive(manager) = {}
    BY DEF Alive
<1>6. manager \in Managers
    BY DEF Managers, Owner, NullOwner
<1>7. ManagerOK(manager)
    BY <1>5, <1>6 DEF ManagerOK
<1> QED
    BY <1>3, <1>4, <1>5, <1>7 DEF IInv

\* No step, of a thread, of the event thread or of time, breaks it.
LEMMA NextIInv == IInv /\ [Next]_vars => IInv'
<1> SUFFICES ASSUME IInv, [Next]_vars PROVE IInv'
    OBVIOUS
<1>1. ASSUME NEW t \in Threads,
             \/ add_writer(t) \/ assert_nothing(t) \/ enter(t) \/ assert_liveliness(t)
             \/ remove_writer(t) \/ leave(t) \/ Begin(t)
      PROVE  IInv'
    BY <1>1, AddStep, NothingStep, EnterStep, AssertStep, RemoveStep, LeaveStep, BeginStep
<1>2. CASE update \/ trigger \/ returned
    BY <1>2, TimerStep
<1>3. CASE lock
    BY <1>3, LockStep
<1>4. CASE timer_expired
    BY <1>4, ExpiredStep
<1>5. CASE Tick
    BY <1>5, TickStep
<1>6. CASE UNCHANGED vars
    BY <1>6 DEF vars, IInv, Typed, ThreadStates, OneHolder, ManagerOK, Alive, Settled, Watched
<1> QED
    BY <1>1, <1>2, <1>3, <1>4, <1>5, <1>6 DEF Next, Step

\* As long as a writer is alive, the one timer of the manager is armed, or its
\* callback is on its way or about to arm it again, for any number of writers,
\* readers, threads and calls (assert_liveliness, remove_writer, timer_expired).
THEOREM AliveStaysWatched == Spec => []AliveIsWatched
<1>1. IInv => AliveIsWatched
    BY DEF IInv, Settled, Watched, AliveIsWatched
<1> QED
    BY <1>1, InitIInv, NextIInv, PTL DEF Spec
=============================================================================
