---------------------------- MODULE ResourceEvent ----------------------------
(***************************************************************************)
(* rtps::ResourceEvent and its TimedEvents: one thread that waits for the  *)
(* first timer that is due and runs the callbacks, while other threads and *)
(* the callbacks themselves restart, cancel, create and destroy timers.    *)
(*                                                                         *)
(* The state of a timer is atomic and changed without a lock; the service  *)
(* is told afterwards, under its mutex.  Both halves are steps of their    *)
(* own.  active_timers_ belongs to the service thread, which lets others   *)
(* touch it only while it waits.                                           *)
(*                                                                         *)
(* Times are relative to current_time_, the time the service thread read   *)
(* last; lag is how long ago that is.  Only the times of active timers are *)
(* read, so only those change with the clock.                              *)
(***************************************************************************)
EXTENDS Integers, Sequences, FiniteSetsExt, Functions

CONSTANTS
    Timers,        \* TimedEvents
    Threads,       \* threads that use them
    Interval,      \* interval each timer is created with
    Intervals,     \* intervals it may be given
    CancelTime,    \* the 24 hours after which a timer counts as cancelled
    IdleTime,      \* how long the service waits when no timer is active
    MaxLag,        \* bound: the clock goes at most this far while the service runs
    MaxCalls       \* bound: calls by threads and callbacks

ASSUME EventAssumption ==
    /\ IsFiniteSet(Timers) /\ Timers # {}
    /\ Intervals \subseteq 1 .. (CancelTime - 1) /\ Interval \in [Timers -> Intervals]
    /\ "callback" \notin Threads
    /\ IdleTime \in 1 .. MaxLag /\ CancelTime \in Nat /\ MaxCalls \in Nat

VARIABLES
    timer,      \* the TimedEventImpl of each timer
    pending,    \* pending_timers_
    active,     \* active_timers_
    allow,      \* allow_vector_manipulation_
    service,    \* the service thread: where it is, what it goes through
    lag,        \* time since update_current_time
    call,       \* the call each thread is in
    calls,      \* calls made
    gave_up     \* timers whose restart ran out of time before it told the service

vars == <<timer, pending, active, allow, service, lag, call, calls, gave_up>>

\* A callback calls as well, in the service thread.
Callers == Threads \cup {"callback"}

NoCall == [op |-> "none", timer |-> CHOOSE t \in Timers : TRUE]

TimerState == [alive : BOOLEAN, state : {"INACTIVE", "READY", "WAITING"},
               interval : Intervals, next : -MaxLag .. CancelTime]

TypeOK ==
    /\ timer \in [Timers -> TimerState]
    /\ pending \in Seq(Timers) /\ active \in Seq(Timers)
    /\ allow \in BOOLEAN
    /\ service \in [pc : {"update", "pending", "place", "trigger", "callback", "sort", "lock", "wait",
                          "joined"},
                    at : Nat, did_something : BOOLEAN, notified : BOOLEAN, stop : BOOLEAN]
    /\ lag \in 0 .. MaxLag
    /\ call \in [Callers -> [op : {"none", "notify", "notify_until", "unregister"},
                             timer : Timers]]
    /\ calls \in 0 .. MaxCalls
    /\ gave_up \subseteq Timers

Created(t) == [alive |-> TRUE, state |-> "INACTIVE", interval |-> Interval[t], next |-> 0]

Init ==
    /\ timer = [t \in Timers |-> Created(t)]
    /\ pending = <<>> /\ active = <<>>
    /\ allow = FALSE
    /\ service = [pc |-> "update", at |-> 1, did_something |-> FALSE,
                  notified |-> FALSE, stop |-> FALSE]
    /\ lag = 0
    /\ call = [c \in Callers |-> NoCall]
    /\ calls = 0
    /\ gave_up = {}

\* cv_.notify_one(): only the service thread waits on cv_.
Notified == [service EXCEPT !.notified = service.pc = "wait"]

At(pc) == service.pc = pc

\* The service thread holds the mutex from one step to the next only while it
\* goes through the pending timers.
Locked == At("place")

\* std::find: the first place of t in s from the given place on.
find(s, from, t) == Min({i \in from .. Len(s) : s[i] = t} \cup {Len(s) + 1})

\* vector::erase, unless it is given the end, and vector::emplace
erase(s, i) == IF i > Len(s) THEN s ELSE SubSeq(s, 1, i - 1) \o SubSeq(s, i + 1, Len(s))

emplace(s, i, t) == SubSeq(s, 1, i - 1) \o <<t>> \o SubSeq(s, i, Len(s))

Contains(s, t) == \E i \in 1 .. Len(s) : s[i] = t

----------------------------------------------------------------------------
(* Calls.                                                                  *)

Destroying(t) == \E c \in Threads : call[c] = [op |-> "unregister", timer |-> t]

\* A callback calls while it runs, a thread at any time; one call at a time.
MayCall(c) ==
    /\ calls < MaxCalls /\ call[c].op = "none"
    /\ c = "callback" => service.pc = "callback"

\* No thread uses a timer that is being destroyed; a callback may.
MayUse(c, t) == MayCall(c) /\ timer[t].alive /\ (c \in Threads => ~Destroying(t))

\* The timer goes to the given state; the service is told in a step of its own.
Begin(c, t, state, op) ==
    /\ timer' = [timer EXCEPT ![t].state = state]
    /\ call' = [call EXCEPT ![c] = IF op = "none" THEN NoCall ELSE [op |-> op, timer |-> t]]
    /\ calls' = calls + 1
    /\ UNCHANGED <<pending, active, allow, service, lag, gave_up>>

\* go_ready; timed is the version with a timeout.
restart_timer(c, t) ==
    /\ MayUse(c, t)
    /\ IF timer[t].state = "INACTIVE"
       THEN \E op \in {"notify", "notify_until"} : Begin(c, t, "READY", op)
       ELSE Begin(c, t, timer[t].state, "none")

\* go_cancel
cancel_timer(c, t) ==
    /\ MayUse(c, t)
    /\ Begin(c, t, "INACTIVE", IF timer[t].state # "INACTIVE" THEN "notify" ELSE "none")

\* Faulty: a timer that is still active is not made pending.
register_timer_nts_NotActive(t) ==
    LET known == Contains(pending, t) \/ Contains(active, t)
    IN  /\ pending' = IF known THEN pending ELSE Append(pending, t)
        /\ service' = IF known THEN service ELSE Notified

register_timer_nts(t) ==
    /\ pending' = IF Contains(pending, t) THEN pending ELSE Append(pending, t)
    /\ service' = IF Contains(pending, t) THEN service ELSE Notified

\* The call tells the service, or gives up when it was given a timeout.
notify(c) ==
    LET t == call[c].timer
    IN  /\ call[c].op \in {"notify", "notify_until"}
        /\ \/ ~Locked /\ register_timer_nts(t) /\ gave_up' = gave_up \ {t}
           \/ /\ call[c].op = "notify_until"
              /\ gave_up' = gave_up \cup {t}
              /\ UNCHANGED <<pending, service>>
        /\ call' = [call EXCEPT ![c] = NoCall]
        /\ UNCHANGED <<timer, active, allow, lag, calls>>

update_interval(c, t) ==
    /\ MayUse(c, t)
    /\ \E interval \in Intervals \ {timer[t].interval} :
            timer' = [timer EXCEPT ![t].interval = interval]
    /\ calls' = calls + 1
    /\ UNCHANGED <<pending, active, allow, service, lag, call, gave_up>>

\* A new TimedEvent: register_timer only counts it and wakes the service.
create(c, t) ==
    /\ MayCall(c) /\ ~timer[t].alive /\ ~service.stop /\ ~Locked
    /\ timer' = [timer EXCEPT ![t] = Created(t)]
    /\ service' = Notified
    /\ calls' = calls + 1
    /\ UNCHANGED <<pending, active, allow, lag, call, gave_up>>

\* The destructor of a timer, which its owner calls in a thread when nobody
\* else uses the timer.
destroy(c, t) ==
    /\ c \in Threads /\ MayUse(c, t)
    /\ \A d \in Threads : call[d].op # "none" => call[d].timer # t
    /\ call' = [call EXCEPT ![c] = [op |-> "unregister", timer |-> t]]
    /\ calls' = calls + 1
    /\ UNCHANGED <<timer, pending, active, allow, service, lag, gave_up>>

\* Faulty: the pointer stays in pending_timers_.
erase_pending_Kept(t) == pending

erase_pending(t) == erase(pending, find(pending, 1, t))

unregister_timer(c) ==
    LET t == call[c].timer
    IN  /\ call[c].op = "unregister" /\ allow
        /\ pending' = erase_pending(t)
        /\ active' = erase(active, find(active, 1, t))
        /\ service' = IF Contains(pending, t) \/ Contains(active, t) THEN Notified ELSE service
        /\ timer' = [timer EXCEPT ![t] = [Created(t) EXCEPT !.alive = FALSE]]
        /\ gave_up' = gave_up \ {t}
        /\ call' = [call EXCEPT ![c] = NoCall]
        /\ UNCHANGED <<allow, lag, calls>>

\* ~ResourceEvent, when all timers are gone: it stops the thread and joins it.
stop ==
    /\ ~service.stop /\ ~Locked
    /\ \A t \in Timers : ~timer[t].alive
    /\ \A c \in Callers : call[c].op = "none"
    /\ service' = [Notified EXCEPT !.stop = TRUE]
    /\ UNCHANGED <<timer, pending, active, allow, lag, call, calls, gave_up>>

Calls ==
    \/ \E c \in Callers :
        \/ notify(c) \/ unregister_timer(c)
        \/ \E t \in Timers :
            \/ restart_timer(c, t) \/ cancel_timer(c, t) \/ update_interval(c, t)
            \/ create(c, t) \/ destroy(c, t)
    \/ stop

----------------------------------------------------------------------------
(* The service thread.                                                     *)

Goto(pc) == service' = [service EXCEPT !.pc = pc]

update_current_time ==
    /\ At("update") /\ Goto("pending")
    /\ timer' = [t \in Timers |-> [timer[t] EXCEPT !.next = IF Contains(active, t) THEN @ - lag ELSE @]]
    /\ lag' = 0
    /\ UNCHANGED <<pending, active, allow, call, calls, gave_up>>

\* std::lower_bound: the first place whose timer is not before t.
lower_bound(s, tm, t) ==
    Min({i \in 1 .. Len(s) : tm[s[i]].next >= tm[t].next} \cup {Len(s) + 1})

\* TimedEventImpl::update
update(tp) ==
    CASE tp.state = "READY"    -> [tp EXCEPT !.state = "WAITING", !.next = tp.interval]
      [] tp.state = "INACTIVE" -> [tp EXCEPT !.next = CancelTime]
      [] tp.state = "WAITING"  -> tp

\* do_timer_actions takes the mutex to go through the pending timers.
lock_pending ==
    /\ At("pending")
    /\ service' = [service EXCEPT !.pc = "place", !.at = 1]
    /\ UNCHANGED <<timer, pending, active, allow, lag, call, calls, gave_up>>

\* A pending timer is taken out of active_timers_ and updated, and put in its
\* place again unless it was cancelled.  After the last, the mutex is released.
place ==
    /\ At("place")
    /\ IF service.at <= Len(pending)
       THEN LET t       == pending[service.at]
                updated == [timer EXCEPT ![t] = update(@)]
                rest    == erase(active, find(active, lower_bound(active, timer, t), t))
            IN  /\ timer' = updated
                /\ active' = IF timer[t].state = "INACTIVE" THEN rest
                             ELSE emplace(rest, lower_bound(rest, updated, t), t)
                /\ service' = [service EXCEPT !.at = @ + 1]
                /\ UNCHANGED pending
       ELSE /\ pending' = <<>>
            /\ service' = [service EXCEPT !.pc = "trigger", !.at = 1, !.did_something = FALSE]
            /\ UNCHANGED <<timer, active>>
    /\ UNCHANGED <<allow, lag, call, calls, gave_up>>

\* The loop over the active timers that are due, up to the callback of one.  A
\* timer that is not waiting any more is taken for cancelled.
trigger ==
    LET t == active[service.at]
    IN  /\ At("trigger")
        /\ IF service.at <= Len(active) /\ timer[t].next <= 0
           THEN IF timer[t].state = "WAITING"
                THEN /\ timer' = [timer EXCEPT ![t].state = "INACTIVE"]
                     /\ service' = [service EXCEPT !.pc = "callback", !.did_something = TRUE]
                ELSE /\ timer' = [timer EXCEPT ![t].next = CancelTime]
                     /\ service' = [service EXCEPT !.at = @ + 1, !.did_something = TRUE]
           ELSE Goto(IF service.did_something THEN "sort" ELSE "lock") /\ UNCHANGED timer
        /\ UNCHANGED <<pending, active, allow, lag, call, calls, gave_up>>

\* Faulty: the time of a cancelled timer is set for a restarted one too.
rearm_Both(tp, restart) ==
    IF restart /\ tp.state = "INACTIVE"
    THEN [tp EXCEPT !.state = "WAITING", !.next = CancelTime]
    ELSE [tp EXCEPT !.next = CancelTime]

\* The rest of TimedEventImpl::trigger.
rearm(tp, restart) ==
    IF restart /\ tp.state = "INACTIVE"
    THEN [tp EXCEPT !.state = "WAITING", !.next = tp.interval]
    ELSE [tp EXCEPT !.next = CancelTime]

callback_returns ==
    /\ At("callback") /\ call["callback"].op = "none"
    /\ \E restart \in BOOLEAN :
            timer' = [timer EXCEPT ![active[service.at]] = rearm(@, restart)]
    /\ service' = [service EXCEPT !.pc = "trigger", !.at = @ + 1]
    /\ UNCHANGED <<pending, active, allow, lag, call, calls, gave_up>>

\* Faulty: active_timers_ stays in the order it had before the callbacks.
sort_timers_Never(s) == {s}

\* std::sort: any of the sorted orders of s.
sort_timers(s) ==
    {r \in {[i \in DOMAIN s |-> s[p[i]]] : p \in Bijection(DOMAIN s, DOMAIN s)} :
        \A i, j \in DOMAIN r : i < j => timer[r[i]].next <= timer[r[j]].next}

\* The end of do_timer_actions: the timers from the first cancelled one on leave
\* active_timers_.
sort_and_erase ==
    /\ At("sort") /\ service' = [service EXCEPT !.pc = "lock", !.at = 1]
    /\ \E sorted \in sort_timers(active) :
            active' = SubSeq(sorted, 1,
                Min({i \in 1 .. Len(sorted) : timer[sorted[i]].next >= CancelTime}
                        \cup {Len(sorted) + 1}) - 1)
    /\ UNCHANGED <<timer, pending, allow, lag, call, calls, gave_up>>

\* Faulty: the thread keeps active_timers_ to itself while it waits.
lets_others_in_Never == FALSE

lets_others_in == ~service.stop /\ pending = <<>>

\* Under the mutex: stop, go on with what is pending, or wait.
lock ==
    /\ At("lock")
    /\ service' = [service EXCEPT !.notified = FALSE,
                    !.pc = CASE service.stop -> "joined"
                             [] ~service.stop /\ pending # <<>> -> "update"
                             [] OTHER -> "wait"]
    /\ allow' = lets_others_in
    /\ UNCHANGED <<timer, pending, active, lag, call, calls, gave_up>>

\* The time wait_until was given has come.
Due == lag >= (IF active = <<>> THEN IdleTime ELSE timer[active[1]].next)

\* wait_until returns when it is notified, at its time, or for no reason.
wake ==
    /\ At("wait")
    /\ service' = [service EXCEPT !.pc = IF service.stop THEN "joined" ELSE "update",
                                  !.notified = FALSE]
    /\ allow' = FALSE
    /\ UNCHANGED <<timer, pending, active, lag, call, calls, gave_up>>

\* The clock.
Tick ==
    /\ lag < MaxLag /\ lag' = lag + 1 /\ ~At("joined")
    /\ UNCHANGED <<timer, pending, active, allow, service, call, calls, gave_up>>

event_service ==
    \/ update_current_time \/ lock_pending \/ place \/ trigger \/ callback_returns
    \/ sort_and_erase \/ lock

\* The service is gone.
Joined == At("joined") /\ UNCHANGED vars

Next == Calls \/ event_service \/ wake \/ Tick \/ Joined

Spec == Init /\ [][Next]_vars

\* The service thread runs, wait_until returns when it has to, time goes on, and
\* a call that waits for a mutex gets it.
FairSpec ==
    /\ Spec
    /\ WF_vars(event_service)
    /\ WF_vars(wake /\ (service.notified \/ Due))
    /\ WF_vars(Tick)
    /\ \A c \in Callers : []<>(call[c].op \notin {"notify", "notify_until"})
    /\ \A c \in Threads : []<>allow => []<>(call[c].op # "unregister")

----------------------------------------------------------------------------
(* Properties.                                                             *)

\* Timers that are about to be told to the service.
Announced(t) == \E c \in Callers : call[c].op \in {"notify", "notify_until"} /\ call[c].timer = t

\* The timer whose callback has run, or runs.
Running(t) == At("callback") /\ active[service.at] = t

\* No timer is lost between the threads that arm it and the service: one that is
\* READY is pending or about to be, unless its restart gave up, and one that is
\* WAITING is active, with a time that will come.
ArmedIsScheduled ==
    \A t \in Timers :
        /\ timer[t].state = "READY" => (Contains(pending, t) \/ Announced(t) \/ t \in gave_up)
        /\ timer[t].state = "WAITING" => (Contains(active, t) /\ timer[t].next < CancelTime)

\* Outside the loop over them, active timers are in the order of their times and
\* none is there twice: the searches of do_timer_actions rely on it.
ActiveIsSorted ==
    service.pc \in {"update", "pending", "place", "lock", "wait"} =>
        \A i, j \in DOMAIN active :
            i < j => (active[i] # active[j] /\ timer[active[i]].next <= timer[active[j]].next)

\* The service holds no pointer to a timer that was destroyed, whose callback it
\* may therefore never run again.
DestroyedIsForgotten ==
    \A t \in Timers :
        ~timer[t].alive => (~Contains(pending, t) /\ ~Contains(active, t) /\ ~Running(t))

\* A timer that is armed goes off, or is cancelled or destroyed first.
ArmedGoesOff ==
    \A t \in Timers :
        []<>(timer[t].state = "INACTIVE" \/ (timer[t].state = "READY" /\ t \in gave_up))

\* The destructor of a timer returns, and so does the one of the service.
DestructorsReturn ==
    /\ \A t \in Timers : []<>~Destroying(t)
    /\ []<>(service.stop => At("joined"))
=============================================================================
