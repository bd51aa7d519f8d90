------------------------- MODULE LivelinessManager --------------------------
(***************************************************************************)
(* One of the two LivelinessManagers of the writer liveliness protocol     *)
(* (WLP): the one of the local writers ("pub") or the one of the writers   *)
(* that local readers are matched with ("sub").  All the writers share one *)
(* timer, armed for the one that is next due, timer_owner_.                *)
(*                                                                         *)
(* Threads that match, receive and write call the manager, some of them    *)
(* with the mutex of an endpoint; the event thread calls it when the timer *)
(* goes off.  The callbacks take the mutexes of endpoints while the        *)
(* manager's own mutex_ is held.                                           *)
(*                                                                         *)
(* timer_owner_ points into a vector that add_writer may move to other     *)
(* memory and that remove_writer fills up from its end.  What a pointer    *)
(* behind the end or to freed memory finds there is kept in owner.data;    *)
(* freed memory may also have been overwritten.                            *)
(*                                                                         *)
(* Times are in ticks from now; what is overdue is due in 0.               *)
(***************************************************************************)
EXTENDS Integers, Sequences, FiniteSetsExt

CONSTANTS
    Writers,
    Readers,
    Threads,             \* threads other than the event thread
    Scenarios,
    None,
    MaxCalls             \* bound on the calls to the manager

Endpoints == Writers \cup Readers

Kinds == {"AUTOMATIC", "MANUAL_BY_PARTICIPANT", "MANUAL_BY_TOPIC"}

\* links are the pairs of an endpoint and the writer it brings in: a reader and
\* a writer it may match, or a local writer and itself.
Scenario ==
    [side : {"pub", "sub"}, links : SUBSET (Endpoints \X Writers),
     qos : [Endpoints -> [kind : Kinds, lease : Nat \ {0}]]]

\* An element of writers_.  time is when the lease runs out.
Data ==
    [guid : Writers, kind : Kinds, lease : Nat \ {0}, count : Nat,
     status : {"NOT_ASSERTED", "ALIVE", "NOT_ALIVE"}, time : Nat]

ASSUME LivelinessAssumption ==
    /\ Scenarios \subseteq Scenario
    /\ \A s \in Scenarios : \A k \in s.links :
            IF s.side = "sub" THEN k[1] \in Readers
            ELSE k[1] = k[2] /\ s.qos[k[1]].kind # "AUTOMATIC"      \* see add_local_writer
    /\ None \notin Endpoints \cup Threads \cup Data
    /\ "event" \notin Threads \cup {None}
    /\ MaxCalls \in Nat

VARIABLES
    scenario,
    manager,             \* writers_ and its capacity, and timer_owner_
    timer,
    event,               \* the event thread
    thread,
    mutex_,              \* who holds the manager's mutex
    locked,              \* who holds the mutex of each endpoint
    matched,             \* the links there are
    counts,              \* what each endpoint has been told
    misled,              \* timer_expired has used an owner that is not a writer alive
    calls

vars == <<scenario, manager, timer, event, thread, mutex_, locked, matched, counts, misled, calls>>

NullOwner == [slot |-> 0, data |-> None]

Init ==
    /\ scenario \in Scenarios
    /\ manager = [writers |-> <<>>, capacity |-> 0, owner |-> NullOwner]
    /\ timer = [state |-> "INACTIVE", interval |-> 0, next |-> 0]
    /\ event = [pc |-> "idle", elapsed |-> 0, restart |-> FALSE]
    /\ thread = [t \in Threads |-> [pc |-> "idle", op |-> "none", link |-> None]]
    /\ mutex_ = None
    /\ locked = [e \in Endpoints |-> None]
    /\ matched = {}
    /\ counts = [e \in Endpoints |-> [alive |-> 0, not_alive |-> 0]]
    /\ misled = FALSE
    /\ calls = 0

----------------------------------------------------------------------------
(* The vector of writers and the owner of the timer.                       *)

LivelinessData(g, q) ==
    [guid |-> g, kind |-> q.kind, lease |-> q.lease, count |-> 1, status |-> "NOT_ASSERTED", time |-> 0]

\* Where the writer is in the vector, if it is.
find_writer(m, g, q) ==
    {i \in DOMAIN m.writers : m.writers[i].guid = g /\ m.writers[i].kind = q.kind
                                /\ m.writers[i].lease = q.lease}

Alive(m) == {i \in DOMAIN m.writers : m.writers[i].status = "ALIVE"}

\* What there is where the owner points to.
Content(m) == IF m.owner.slot \in DOMAIN m.writers THEN m.writers[m.owner.slot] ELSE m.owner.data

\* What can be read there.
Contents(m) ==
    CASE m.owner = NullOwner -> {}
      [] m.owner.slot # 0 -> {Content(m)}
      [] OTHER -> {Content(m), [Content(m) EXCEPT !.guid = None]}

\* A full vector moves; the free places of one that is not keep what was there.
emplace_back(m, d) ==
    LET full == Len(m.writers) = m.capacity
        last == Len(m.writers) + 1
    IN  [writers |-> Append(m.writers, d), capacity |-> IF full THEN last ELSE m.capacity,
         owner |-> CASE m.owner = NullOwner -> NullOwner
                     [] full /\ m.owner # NullOwner -> [slot |-> 0, data |-> Content(m)]
                     [] ~full /\ m.owner.slot = last -> [slot |-> last, data |-> None]
                     [] OTHER -> m.owner]

\* The last element takes the place of the removed one.
remove(m, i) ==
    LET last == Len(m.writers)
    IN  [m EXCEPT !.writers = SubSeq([@ EXCEPT ![i] = m.writers[last]], 1, last - 1),
                  !.owner = IF @.slot = last THEN [slot |-> last, data |-> m.writers[last]] ELSE @]

\* Writers are asserted one after the other: which of two that are due in the
\* same tick is due first is not told apart.
calculate_next(m) ==
    IF Alive(m) = {} THEN {NullOwner}
    ELSE {[slot |-> i, data |-> None] : i \in {j \in Alive(m) :
            \A k \in Alive(m) : m.writers[j].time <= m.writers[k].time}}

----------------------------------------------------------------------------
(* The timer.                                                              *)

cancel_timer == [timer EXCEPT !.state = "INACTIVE"]

update_interval(m) == [timer EXCEPT !.interval = m.writers[m.owner.slot].time]

\* Faulty: a timer that has gone off or has been cancelled stays inactive.
restart_timer_Waiting == [timer EXCEPT !.state = IF @ = "WAITING" THEN "READY" ELSE @]

\* Only an inactive timer is made ready.
restart_timer == [timer EXCEPT !.state = IF @ = "INACTIVE" THEN "READY" ELSE @]

----------------------------------------------------------------------------
(* The callbacks.                                                          *)

Change(d, alive, not_alive) ==
    [guid |-> d.guid, qos |-> [kind |-> d.kind, lease |-> d.lease], alive |-> alive, not_alive |-> not_alive]

\* The endpoints whose mutexes a callback takes.
Asked(c) ==
    IF scenario.side = "sub" THEN {r \in Readers : scenario.qos[r] = c.qos}
    ELSE {w \in Writers : c.not_alive = 1 /\ c.guid = w /\ <<w, w>> \in matched}

\* Those it then informs: sub_liveliness_changed, pub_liveliness_changed.
Informed(c) == {e \in Asked(c) : <<e, c.guid>> \in matched}

MayInform(who, changes) == \A c \in changes : \A e \in Asked(c) : locked[e] \in {None, who}

\* A writer's total_count only grows, by what it has lost.
update_liveliness_changed_status(changes) ==
    [e \in Endpoints |->
        LET mine == {c \in changes : e \in Informed(c)}
        IN  [alive |-> counts[e].alive + (IF scenario.side = "sub" THEN MapThenSumSet(LAMBDA c : c.alive, mine)
                                          ELSE 0),
             not_alive |-> counts[e].not_alive + MapThenSumSet(LAMBDA c : c.not_alive, mine)]]

\* Faulty: a writer that recovers stays in not_alive_count.
Recovered_Counted(m, S) ==
    {Change(m.writers[i], 1, 0) : i \in S \ Alive(m)}

\* The callbacks of an assertion of the writers in places S.
Recovered(m, S) ==
    {Change(m.writers[i], 1, IF m.writers[i].status = "NOT_ALIVE" THEN -1 ELSE 0) : i \in S \ Alive(m)}

\* The callback for a writer that is removed.
Forgotten(d) ==
    CASE d.status = "ALIVE" -> {Change(d, -1, 0)}
      [] d.status = "NOT_ALIVE" -> {Change(d, 0, -1)}
      [] OTHER -> {}

assert_writer_liveliness(m, S) ==
    [m EXCEPT !.writers = [i \in DOMAIN @ |->
        IF i \notin S THEN m.writers[i]
        ELSE [m.writers[i] EXCEPT !.status = "ALIVE", !.time = m.writers[i].lease]]]
----------------------------------------------------------------------------
(* The threads that call the manager.                                      *)

QosOf(link) == scenario.qos[link[1]]

\* Discovery calls the sub manager with the reader's mutex (matched_writer_add,
\* matched_writer_remove), a write the pub manager with the writer's
\* (unsent_change_added_to_history).  The reader gives it up before it asserts:
\* "Avoid deadlock with LivelinessManager".
HoldsEndpoint(op) == op \in (IF scenario.side = "sub" THEN {"add", "remove"} ELSE {"write"})

\* A local writer is not removed while it is being used.  unpairWriterProxy
\* makes every reader forget a remote writer, matched with it or not.
MayCall(op, link) ==
    LET others == {thread[t].op : t \in {u \in Threads : thread[u].pc # "idle" /\ thread[u].link = link}}
    IN  CASE op = "add" -> link \notin matched /\ others = {}
          [] op = "remove" -> scenario.side = "pub" => (link \in matched /\ others = {})
          [] op = "assert" -> link \in matched /\ (scenario.side = "pub" => "remove" \notin others)
          [] op = "write" -> scenario.side = "pub" /\ link \in matched /\ "remove" \notin others
          [] op = "assert_kind" ->
                /\ link \in matched
                /\ QosOf(link).kind \in {"MANUAL_BY_PARTICIPANT"}
                        \cup (IF scenario.side = "sub" THEN {"AUTOMATIC"} ELSE {})

\* remove_local_writer takes the writer off the WLP's list first.
Begin(t) ==
    /\ thread[t].pc = "idle" /\ calls < MaxCalls
    /\ \E op \in {"add", "remove", "assert", "write", "assert_kind"}, link \in scenario.links :
            /\ MayCall(op, link)
            /\ HoldsEndpoint(op) => locked[link[1]] = None
            /\ thread' = [thread EXCEPT ![t] = [pc |-> "waiting", op |-> op, link |-> link]]
            /\ locked' = [locked EXCEPT ![link[1]] = IF HoldsEndpoint(op) THEN t ELSE @]
            /\ matched' = IF op = "remove" /\ scenario.side = "pub" THEN matched \ {link} ELSE matched
    /\ calls' = calls + 1
    /\ UNCHANGED <<scenario, manager, timer, event, mutex_, counts, misled>>

\* The call returns, and the caller gives up its mutexes.
Return(t) ==
    /\ mutex_' = None
    /\ locked' = [e \in Endpoints |-> IF locked[e] = t THEN None ELSE locked[e]]
    /\ thread' = [thread EXCEPT ![t] = [pc |-> "idle", op |-> "none", link |-> None]]
    /\ UNCHANGED <<scenario, event, misled, calls>>

Calls(t, ops) == thread[t].op \in ops

add_writer(t) ==
    /\ thread[t].pc = "waiting" /\ Calls(t, {"add"}) /\ mutex_ = None
    /\ LET q     == QosOf(thread[t].link)
           g     == thread[t].link[2]
           found == find_writer(manager, g, q)
       IN  manager' = IF found = {} THEN emplace_back(manager, LivelinessData(g, q))
                      ELSE [manager EXCEPT !.writers = [i \in DOMAIN @ |->
                                IF i \notin found THEN manager.writers[i]
                                ELSE [manager.writers[i] EXCEPT !.count = manager.writers[i].count + 1]]]
    /\ matched' = matched \cup {thread[t].link}
    /\ Return(t)
    /\ UNCHANGED <<timer, counts>>

\* The writers that a call asserts.
Asserted(t) ==
    LET q     == QosOf(thread[t].link)
        found == find_writer(manager, thread[t].link[2], q)
    IN  IF q.kind = "MANUAL_BY_TOPIC" \/ (found = {} /\ ~Calls(t, {"assert_kind"})) THEN found
        ELSE {i \in DOMAIN manager.writers : manager.writers[i].kind = q.kind}

\* assert_liveliness of a writer that is not known, or by kind without any writer.
assert_nothing(t) ==
    /\ thread[t].pc = "waiting" /\ Calls(t, {"assert", "write", "assert_kind"}) /\ mutex_ = None
    /\ IF Calls(t, {"assert_kind"}) THEN manager.writers = <<>> ELSE Asserted(t) = {}
    /\ Return(t)
    /\ UNCHANGED <<manager, timer, matched, counts>>

\* The call takes mutex_; an assertion cancels the timer first.
enter(t) ==
    /\ thread[t].pc = "waiting" /\ mutex_ = None
    /\ \/ Calls(t, {"remove"}) /\ timer' = timer
       \/ Calls(t, {"assert", "write"}) /\ Asserted(t) # {} /\ timer' = cancel_timer
       \/ Calls(t, {"assert_kind"}) /\ manager.writers # <<>> /\ timer' = cancel_timer
    /\ mutex_' = t
    /\ thread' = [thread EXCEPT ![t].pc = "inside"]
    /\ UNCHANGED <<scenario, manager, event, locked, matched, counts, misled, calls>>

\* The manager is m, with a new owner if there is one: the timer gets its time.
Rearm(t, m, otherwise) ==
    \E o \in calculate_next(m) :
        /\ manager' = [m EXCEPT !.owner = o]
        /\ timer' = IF o = NullOwner THEN otherwise ELSE update_interval(manager')
        /\ thread' = [thread EXCEPT ![t].pc = IF o = NullOwner THEN "done" ELSE "arming"]

assert_liveliness(t) ==
    /\ thread[t].pc = "inside" /\ Calls(t, {"assert", "write", "assert_kind"})
    /\ LET S == Asserted(t)
       IN  /\ MayInform(t, Recovered(manager, S))
           /\ counts' = update_liveliness_changed_status(Recovered(manager, S))
           /\ Rearm(t, assert_writer_liveliness(manager, S), timer)
    /\ UNCHANGED <<scenario, event, mutex_, locked, matched, misled, calls>>

\* There may be no such writer.  Another reader of the same kind and lease
\* duration keeps it.
remove_writer(t) ==
    LET found == find_writer(manager, thread[t].link[2], QosOf(thread[t].link))
    IN
    /\ thread[t].pc = "inside" /\ Calls(t, {"remove"})
    /\ \/ /\ found = {}
          /\ thread' = [thread EXCEPT ![t].pc = "done"]
          /\ UNCHANGED <<manager, timer, counts>>
       \/ \E i \in found :
            LET d == manager.writers[i]
                m == remove(manager, i)
            IN  \/ /\ d.count > 1
                   /\ manager' = [manager EXCEPT !.writers[i].count = @ - 1]
                   /\ thread' = [thread EXCEPT ![t].pc = "done"]
                   /\ UNCHANGED <<timer, counts>>
                \/ /\ d.count = 1
                   /\ MayInform(t, Forgotten(d))
                   /\ counts' = update_liveliness_changed_status(Forgotten(d))
                   /\ \/ /\ Contents(m) = {} \/ \E c \in Contents(m) : c.guid # d.guid
                         /\ manager' = m
                         /\ thread' = [thread EXCEPT ![t].pc = "done"]
                         /\ timer' = timer
                      \/ /\ \E c \in Contents(m) : c.guid = d.guid
                         /\ Rearm(t, m, cancel_timer)
    /\ UNCHANGED <<scenario, event, mutex_, locked, matched, misled, calls>>

\* matched_writer_remove takes the proxy off the reader's list last.
leave(t) ==
    /\ thread[t].pc \in {"arming", "done"}
    /\ timer' = IF thread[t].pc = "arming" THEN restart_timer ELSE timer
    /\ matched' = IF Calls(t, {"remove"}) THEN matched \ {thread[t].link} ELSE matched
    /\ Return(t)
    /\ UNCHANGED <<manager, counts>>

----------------------------------------------------------------------------
(* The event thread and time.                                              *)

\* A ready timer starts to wait.
update ==
    /\ event.pc = "idle" /\ timer.state = "READY"
    /\ timer' = [timer EXCEPT !.state = "WAITING", !.next = timer.interval]
    /\ UNCHANGED <<scenario, manager, event, thread, mutex_, locked, matched, counts, misled, calls>>

\* The timer goes off; its callback waits for mutex_.
trigger ==
    /\ event.pc = "idle" /\ timer.state = "WAITING" /\ timer.next = 0
    /\ timer' = [timer EXCEPT !.state = "INACTIVE"]
    /\ event' = [pc |-> "expired", elapsed |-> 0, restart |-> FALSE]
    /\ UNCHANGED <<scenario, manager, thread, mutex_, locked, matched, counts, misled, calls>>

lock ==
    /\ event.pc = "expired" /\ mutex_ = None
    /\ mutex_' = "event"
    /\ event' = [event EXCEPT !.pc = "inside"]
    /\ UNCHANGED <<scenario, manager, timer, thread, locked, matched, counts, misled, calls>>

\* The writer at the owner's place is not alive; elsewhere nobody sees it.
Lost(m) ==
    [m EXCEPT !.writers = [i \in DOMAIN @ |->
        IF i = m.owner.slot THEN [m.writers[i] EXCEPT !.status = "NOT_ALIVE", !.time = 0] ELSE m.writers[i]]]

timer_expired ==
    /\ event.pc = "inside"
    /\ \/ /\ manager.owner = NullOwner
          /\ event' = [event EXCEPT !.pc = "returned"]
          /\ UNCHANGED <<manager, timer, counts, misled>>
       \/ /\ manager.owner # NullOwner
          /\ \E d \in Contents(manager) :
                /\ MayInform("event", {Change(d, -1, 1)})
                /\ counts' = update_liveliness_changed_status({Change(d, -1, 1)})
          /\ \E o \in calculate_next(Lost(manager)) :
                /\ manager' = [Lost(manager) EXCEPT !.owner = o]
                /\ timer' = IF o = NullOwner THEN timer ELSE update_interval(manager')
                /\ event' = [event EXCEPT !.pc = "returned", !.restart = o # NullOwner]
          /\ misled' = (misled \/ manager.owner.slot \notin Alive(manager))
    /\ mutex_' = None
    /\ UNCHANGED <<scenario, thread, locked, matched, calls>>

\* Faulty: the timer goes off once.
returned_Once ==
    /\ event.pc = "returned"
    /\ event' = [pc |-> "idle", elapsed |-> 0, restart |-> FALSE]
    /\ UNCHANGED <<scenario, manager, timer, thread, mutex_, locked, matched, counts, misled, calls>>

\* The timer goes on from the time at which it went off, unless it has been
\* restarted.
returned ==
    /\ event.pc = "returned"
    /\ timer' = IF event.restart /\ timer.state = "INACTIVE"
                THEN [timer EXCEPT !.state = "WAITING", !.next = Max({0, timer.interval - event.elapsed})]
                ELSE timer
    /\ event' = [pc |-> "idle", elapsed |-> 0, restart |-> FALSE]
    /\ UNCHANGED <<scenario, manager, thread, mutex_, locked, matched, counts, misled, calls>>

MaxLease == Max({scenario.qos[e].lease : e \in Endpoints})

Tick ==
    /\ manager' = [manager EXCEPT !.writers = [i \in DOMAIN @ |->
            [manager.writers[i] EXCEPT !.time = Max({0, manager.writers[i].time - 1})]]]
    /\ timer' = [timer EXCEPT !.next = Max({0, @ - 1})]
    /\ event' = [event EXCEPT !.elapsed = IF event.pc = "idle" THEN 0 ELSE Min({@ + 1, MaxLease})]
    /\ UNCHANGED <<scenario, thread, mutex_, locked, matched, counts, misled, calls>>

Step ==
    \/ \E t \in Threads :
            add_writer(t) \/ assert_nothing(t) \/ enter(t) \/ assert_liveliness(t) \/ remove_writer(t) \/ leave(t)
    \/ update \/ trigger \/ lock \/ timer_expired \/ returned
    \/ Tick

Next == Step \/ \E t \in Threads : Begin(t)

Spec == Init /\ [][Next]_vars

\* Threads, timers and time go on; nobody need call the manager again.
FairSpec == Spec /\ WF_vars(Step)

----------------------------------------------------------------------------
(* Properties.                                                             *)

\* The callbacks that the holder of mutex_ is about to make.
Due ==
    IF mutex_ = None THEN {}
    ELSE IF mutex_ = "event" THEN {Change(d, -1, 1) : d \in Contents(manager)}
    ELSE IF thread[mutex_].pc # "inside" THEN {}
    ELSE LET k == thread[mutex_].link
         IN  IF Calls(mutex_, {"remove"})
             THEN UNION {Forgotten(manager.writers[i]) : i \in find_writer(manager, k[2], QosOf(k))}
             ELSE Recovered(manager, Asserted(mutex_))

\* The holder of mutex_ waits for an endpoint whose mutex is held by a thread
\* that waits for mutex_.
LockCycle == ~MayInform(mutex_, Due)

\* A reader's alive_count and not_alive_count are the numbers of its matched
\* writers that are and are not alive, across assertions, expiries, matching
\* and unmatching in any order (sub_liveliness_changed), as long as
\* timer_owner_ is followed only to a writer that is alive and no other reader
\* shares the writer's record: add_writer tells a second one nothing.
CountsAreExact ==
    (scenario.side = "sub" /\ ~misled) =>
        \A r \in Readers :
            (\A s \in Readers \ {r} : scenario.qos[s] # scenario.qos[r]) =>
                LET Mine(status) == {i \in DOMAIN manager.writers :
                                        /\ manager.writers[i].status = status
                                        /\ manager.writers[i].kind = scenario.qos[r].kind
                                        /\ manager.writers[i].lease = scenario.qos[r].lease
                                        /\ <<r, manager.writers[i].guid>> \in matched}
                IN  counts[r] = [alive |-> Cardinality(Mine("ALIVE")), not_alive |-> Cardinality(Mine("NOT_ALIVE"))]

\* As long as a writer is alive the only timer is armed, or its callback is on
\* its way or about to arm it again, whoever cancels, restarts and expires it
\* in between (assert_liveliness, remove_writer, timer_expired).
AliveIsWatched ==
    (Alive(manager) # {} /\ mutex_ = None) =>
        \/ timer.state \in {"READY", "WAITING"}
        \/ event.pc = "expired"
        \/ event.pc = "returned" /\ event.restart

\* A writer that is no longer asserted is declared not alive, even when
\* timer_owner_ has been misled, unless the locks of the manager and of an
\* endpoint are in a cycle.
SilentIsDetected == []<>(Alive(manager) = {} \/ LockCycle)

\* A reader's alive_count is never negative: it is "the total number of
\* currently active publishers that write the topic read by the subscriber",
\* which "increases when a newly matched publisher asserts its liveliness for
\* the first time" (LivelinessChangedStatus).
AliveCountIsNatural == \A r \in Readers : counts[r].alive >= 0

\* A writer is declared not alive only when its lease duration has passed since
\* it was last asserted (timer_expired).
LeaseIsHonoured ==
    [][\A w \in Writers, q \in {scenario.qos[e] : e \in Endpoints} :
        \A i \in find_writer(manager, w, q), j \in find_writer(manager', w, q) :
            (manager.writers[i].status = "ALIVE" /\ manager'.writers[j].status = "NOT_ALIVE") =>
                manager.writers[i].time = 0]_vars
=============================================================================
