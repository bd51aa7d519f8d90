-------------------------- MODULE AsyncWriterThread --------------------------
(***************************************************************************)
(* rtps::AsyncWriterThread: the participant's thread that sends for its    *)
(* writers, started by the first wake_up and stopped when a writer is      *)
(* destroyed and nothing is queued.                                        *)
(*                                                                         *)
(* caller[w] is what a thread that holds the mutex of writer w, or destroys *)
(* w, is doing; run is where the asynchronous thread is.  The thread holds *)
(* mMutexActive from "send" to "unlock", and the mutex of curr while it    *)
(* sends.  condition_variable_mutex_ is never held while waiting, so what  *)
(* runs under it is one step.                                              *)
(***************************************************************************)
EXTENDS AsyncInterestTree

CONSTANTS
    Destroyed,           \* writers that may be destroyed
    Timed                \* writers whose wake_ups may reach their max_blocking_time

ASSUME ThreadAssumption == Destroyed \cup Timed \subseteq Writers

VARIABLES
    tree,                \* interestTree_
    thread,              \* thread_ # nullptr
    running,             \* running_
    run_scheduled,       \* run_scheduled_
    run,                 \* program counter of AsyncWriterThread::run
    curr,                \* the writer it serves
    caller,
    owed                 \* writers for which a wake_up has succeeded since they were last served

vars == <<tree, thread, running, run_scheduled, run, curr, caller, owed>>

RunPC == {"none", "loop", "waiting", "swap", "lock", "next", "send", "sent", "requeued",
          "unlock", "ended"}

CallerPC == {"idle", "queued", "unregistered", "joining", "gone"}

\* Type correctness of the fields of AsyncWriterThread and of the links of the
\* writers, which always use one of the two positions of next_.
TypeOK ==
    /\ tree \in TreeState
    /\ {thread, running, run_scheduled} \subseteq BOOLEAN
    /\ run \in RunPC
    /\ curr \in Pointer
    /\ caller \in [Writers -> CallerPC]
    /\ owed \subseteq Writers

Init ==
    /\ tree = empty
    /\ thread = FALSE /\ running = FALSE /\ run_scheduled = FALSE
    /\ run = "none" /\ curr = NULL
    /\ caller = [w \in Writers |-> "idle"]
    /\ owed = {}

ActiveLocked == run \in {"next", "send", "sent", "requeued", "unlock"}

\* The mutex of w is held by the thread that sends for it.
WriterLocked(w) == run \in {"sent", "requeued"} /\ curr = w

----------------------------------------------------------------------------
(* wake_up, called with the mutex of the writer locked.                    *)

\* register_interest.  A writer that is queued already is not queued again,
\* and wake_up returns at once.
wake_up(w) ==
    /\ caller[w] = "idle" /\ ~WriterLocked(w)
    /\ tree' = register_interest(tree, w)
    /\ IF Listed(w, Hidden(tree))
       THEN caller' = caller /\ owed' = owed \cup {w}
       ELSE caller' = [caller EXCEPT ![w] = "queued"] /\ owed' = owed
    /\ UNCHANGED <<thread, running, run_scheduled, run, curr>>

\* The rest of wake_up, under condition_variable_mutex_.
Schedule ==
    /\ run_scheduled' = TRUE
    /\ thread' = TRUE
    /\ running' = (running \/ ~thread)

Notified(pc) == CASE ~thread -> "loop" [] thread /\ pc = "waiting" -> "loop" [] OTHER -> pc

scheduled(w) ==
    /\ caller[w] = "queued"
    /\ Schedule
    /\ run' = Notified(run)
    /\ caller' = [caller EXCEPT ![w] = "idle"]
    /\ owed' = owed \cup {w}
    /\ UNCHANGED <<tree, curr>>

\* max_blocking_time is over before condition_variable_mutex_ is free.
give_up(w) ==
    /\ w \in Timed /\ caller[w] = "queued"
    /\ caller' = [caller EXCEPT ![w] = "idle"]
    /\ UNCHANGED <<tree, thread, running, run_scheduled, run, curr, owed>>

----------------------------------------------------------------------------
(* unregister_writer, called by the destructor of the writer.  Two         *)
(* destructors that meet would both join the same std::thread, which is    *)
(* not defined; they are taken one after the other.                        *)

unregister_writer(w) ==
    /\ w \in Destroyed /\ caller[w] = "idle"
    /\ \A v \in Writers : caller[v] \notin {"unregistered", "joining"}
    /\ ~ActiveLocked
    /\ tree' = unregister_interest(tree, w)
    /\ caller' = [caller EXCEPT ![w] = IF IsEmpty(tree') THEN "unregistered" ELSE "gone"]
    /\ owed' = owed \ {w}
    /\ UNCHANGED <<thread, running, run_scheduled, run, curr>>

stop_thread(w) ==
    /\ caller[w] = "unregistered"
    /\ running' = FALSE /\ run_scheduled' = FALSE
    /\ run' = IF run = "waiting" THEN "loop" ELSE run
    /\ caller' = [caller EXCEPT ![w] = IF thread THEN "joining" ELSE "gone"]
    /\ UNCHANGED <<tree, thread, curr, owed>>

join_thread(w) ==
    /\ caller[w] = "joining" /\ run = "ended"
    /\ thread' = FALSE
    /\ run' = "none"
    /\ caller' = [caller EXCEPT ![w] = "gone"]
    /\ UNCHANGED <<tree, running, run_scheduled, curr, owed>>

----------------------------------------------------------------------------
(* AsyncWriterThread::run.                                                 *)

run_loop ==
    /\ run = "loop"
    /\ run' = CASE ~running -> "ended"
                [] running /\ run_scheduled -> "swap"
                [] running /\ ~run_scheduled -> "waiting"
    /\ run_scheduled' = (run_scheduled /\ ~running)
    /\ UNCHANGED <<tree, thread, running, curr, caller, owed>>

run_swap ==
    /\ run = "swap"
    /\ tree' = swap(tree)
    /\ run' = "lock"
    /\ UNCHANGED <<thread, running, run_scheduled, curr, caller, owed>>

run_lock ==
    /\ run = "lock"
    /\ run' = "next"
    /\ UNCHANGED <<tree, thread, running, run_scheduled, curr, caller, owed>>

\* Faulty: one writer is served in each round.
run_next_Once ==
    /\ run = "next"
    /\ curr' = IF curr = NULL THEN tree.active_front ELSE NULL
    /\ tree' = IF curr = NULL THEN next_active_nts(tree) ELSE tree
    /\ run' = IF curr' = NULL THEN "unlock" ELSE "send"
    /\ UNCHANGED <<thread, running, run_scheduled, caller, owed>>

run_next ==
    /\ run = "next"
    /\ curr' = tree.active_front
    /\ tree' = next_active_nts(tree)
    /\ run' = IF curr' = NULL THEN "unlock" ELSE "send"
    /\ UNCHANGED <<thread, running, run_scheduled, caller, owed>>

\* send_any_unsent_changes, which waits for the mutex of the writer.
run_send ==
    /\ run = "send" /\ caller[curr] # "queued"
    /\ run' = "sent"
    /\ owed' = owed \ {curr}
    /\ UNCHANGED <<tree, thread, running, run_scheduled, curr, caller>>

\* Before it returns, it may call wake_up for the changes it leaves unsent.
run_sent ==
    /\ run = "sent"
    /\ \/ run' = "next" /\ UNCHANGED <<tree, owed>>
       \/ /\ tree' = register_interest(tree, curr)
          /\ IF Listed(curr, Hidden(tree))
             THEN run' = "next" /\ owed' = owed \cup {curr}
             ELSE run' = "requeued" /\ owed' = owed
    /\ UNCHANGED <<thread, running, run_scheduled, curr, caller>>

run_requeued ==
    /\ run = "requeued"
    /\ Schedule
    /\ run' = "next"
    /\ owed' = owed \cup {curr}
    /\ UNCHANGED <<tree, curr, caller>>

\* Faulty: a wake_up during the round is forgotten.
run_unlock_Clears ==
    /\ run = "unlock"
    /\ run' = "loop"
    /\ run_scheduled' = FALSE
    /\ UNCHANGED <<tree, thread, running, curr, caller, owed>>

run_unlock ==
    /\ run = "unlock"
    /\ run' = "loop"
    /\ UNCHANGED <<tree, thread, running, run_scheduled, curr, caller, owed>>

RunThread ==
    run_loop \/ run_swap \/ run_lock \/ run_next \/ run_send \/ run_sent \/ run_requeued
    \/ run_unlock

----------------------------------------------------------------------------
Next ==
    \/ RunThread
    \/ \E w \in Writers :
        \/ wake_up(w) \/ scheduled(w) \/ give_up(w)
        \/ unregister_writer(w) \/ stop_thread(w) \/ join_thread(w)

\* The operating system schedules every thread: the asynchronous thread goes
\* on when it can, and a wake_up or a destructor that has begun comes to its end.
Fairness ==
    /\ WF_vars(RunThread)
    /\ \A w \in Writers :
        /\ WF_vars(scheduled(w) \/ give_up(w))
        /\ WF_vars(stop_thread(w) \/ join_thread(w))

Spec == Init /\ [][Next]_vars

FairSpec == Spec /\ Fairness

----------------------------------------------------------------------------
(* Properties.                                                             *)

\* The links of the writers implement two queues: no method of the tree loses,
\* repeats or reorders a writer although both lists go through the same
\* writers and change places at every swap.
Queues == INSTANCE InterestQueues WITH hidden <- Hidden(tree), active <- Active(tree)

ImplementsQueues == Queues!Spec

\* A writer is not forgotten between the queues: once wake_up has succeeded it
\* is in one of them, or the thread is about to send for it.
WokenIsQueued ==
    \A w \in owed :
        \/ Listed(w, Hidden(tree)) \/ Listed(w, Active(tree))
        \/ run = "send" /\ curr = w

\* As long as no writer is destroyed, a writer whose wake_ups have no deadline
\* is served once it has been woken, however calls and rounds interleave: it is
\* in the hidden queue before run_scheduled_ is set, and the queue is swapped
\* after run_scheduled_ is cleared.
ServedWhileNoneIsDestroyed ==
    \A w \in Writers \ Timed :
        w \in owed ~> \/ w \notin owed
                    \/ \E v \in Writers : caller[v] \in {"unregistered", "joining", "gone"}

\* "Wakes the thread up and starts processing async writers"
\* (AsyncWriterThread.h:60): a writer for which wake_up has succeeded is served.
WokenIsServed == \A w \in Writers : w \in owed ~> w \notin owed
=============================================================================
