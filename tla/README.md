# A TLA+ verification of the reliable protocol of Fast RTPS

Fast RTPS moves samples from *writers* to *readers* over transports that lose,
duplicate and reorder packets.  Each writer numbers its samples (*changes*);
a reliable reader tells the writer with ACKNACK and NACKFRAG messages which
numbers it is missing, the writer announces with HEARTBEAT which numbers it
holds, repeats what is asked for, and declares with GAP the numbers that will
never come.  This project models the classes that implement that protocol, the
services they run on (the asynchronous thread, the timers, the shared memory
transport, the supervision of liveliness) and their composition, and checks
with TLC and proves with TLAPS what a user of the library relies on.

`PROJECT.json` holds the complete lists: the components, the runs, the source
lines of every definition, the hazards, the findings and the theorems.

## The parts of the system

| Part | State | Operations | Who calls it |
|---|---|---|---|
| `WriterProxy` | low mark, received set, greatest number, last notified, timers | `received_change_set`, `lost_changes_update`, `process_heartbeat`, ... | the reader, under its mutex |
| `StatefulReader` | matched proxies, unread counter, history record, message counters | `process*Msg`, `matched_writer_add/remove`, `NotifyChanges`, the two timers | receiver threads, the event thread, discovery |
| `ReaderHistory`, `SubscriberHistory` | ordered changes, full flag | `received_change*`, `remove_*`, `readNextData`, `takeNextData` | the reader and the user's threads |
| `StatefulPersistentReader` | the stored history record | `init`, `set_last_notified` | the reader |
| `ReaderProxy` | low mark, status of every change, suppression timer | `add_change`, `acked_changes_set`, `requested_changes_set`, ... | the writer, under its mutex |
| `StatefulWriter`, `WriterHistory` | matched proxies, history, `next_all_acked_notify_sequence_`, `may_remove_change_`, `all_acked_` | add, remove, send, `process_acknack`, heartbeats, the three timers, the two waits | user threads, the asynchronous thread, receiver and event threads |
| `PublisherHistory` | the lists of the instances | `add_pub_change` | user threads |
| `AsyncWriterThread`, `AsyncInterestTree` | two intrusive lists through the writers, `running_`, `run_scheduled_`, `thread_` | `wake_up`, `unregister_writer`, `run`, `swap` | every thread that has something to send, and the destructors of the writers |
| `ResourceEvent`, `TimedEvent` | state and time of each timer, `pending_timers_`, `active_timers_`, `allow_vector_manipulation_` | restart, cancel, change of interval, creation, destruction; the loop of the event thread | every thread, and the callbacks themselves |
| Shared memory transport | segments of buffers with their counts, ports with a ring of cells and the status of their listeners | `send`, `try_push`, `wait_pop`, `pop`, `recover_buffers`, the watchdog, regeneration of ports, closing of channels | the sending thread, one listening thread per channel, the watchdog, of several processes |
| `LivelinessManager`, `WLP` | the writers with their status and lease, one timer and its owner, the counts of the readers | add, remove and assert writers, `timer_expired` | discovery, receiver and user threads, the event thread |

How they meet:

- A user thread calls `DataWriterImpl::write`.  `PublisherHistory` finds room,
  which may mean waiting in `try_remove_change` or `wait_for_acknowledgement`
  **with the writer's mutex released**; `StatefulWriter` then gives the change
  to every `ReaderProxy`, and sends it (synchronous writers) or wakes the
  asynchronous thread.
- ACKNACKs reach `process_acknack` on a receiver thread.  They move the low
  mark of a proxy, request changes, and through `check_acked_status` release
  the threads that wait.
- Timers on the event thread repeat heartbeats, answer requests after a delay,
  end the suppression of requests, acknowledge for readers that do not, and
  remove changes whose lifespan is over.
- On the other side DATA, DATA_FRAG, HEARTBEAT and GAP move a `WriterProxy`,
  fill the history and tell the user; timers send the ACKNACKs.
- All timers of a participant run on one event thread.  They are armed and
  cancelled without a lock, and destroyed by threads that wait for the event
  thread to let them in.
- Between processes of one host messages go through shared memory: the sender
  puts a descriptor of a buffer into the ring of each port, and the listeners
  count themselves in and out of it.  Any of them may die at any point.
- Matching a writer, hearing from it and writing tell a `LivelinessManager`,
  which calls the endpoints back when a writer is lost or recovers.

What makes this hard to get right: each handler is atomic under one mutex but
the waits are not; messages of one peer arrive in any order and repeatedly; a
peer may disappear and come back at any point; three flags (`isHistoryFull`,
`may_remove_change_`, `all_acked_`) cache what the proxies and the history say;
two lists share the links of the same writers; the ring and the counts of the
shared memory are changed in several atomic accesses; and the liveliness
manager calls out, and is called, with mutexes held.  The hazards in
`PROJECT.json` name the line where each of these bites.

## Modules

| Module | Models | Form |
|---|---|---|
| `WriterProxy` | `WriterProxy.cpp` | the proxy as a record, each method an operator from state to state |
| `StatefulReader` | `StatefulReader.cpp`, `ReaderHistory.cpp`, `SubscriberHistory.cpp` (no key), `StatefulPersistentReader.cpp` | operators for the history, one action per handler |
| `ReaderEnvironment` | a network that delivers any of the given messages in any order and any number of times, the user, discovery, restarts | `Next`, `Spec` and the properties |
| `ReaderProofs`, `ReaderHistoryProofs` | | lemmas and theorems, the second module extending the first |
| `ReaderProxy` | `ReaderProxy.cpp` | as `WriterProxy` |
| `StatefulWriter` | `StatefulWriter.cpp`, `WriterHistory.cpp` | operators on the writer with its history, timers and the messages it sends |
| `PublisherHistory` | `PublisherHistory.cpp` | the write, cut into pieces at its waits |
| `WriterEnvironment` | user threads, event thread, asynchronous thread, discovery, readers' messages | one action per piece of code run under the mutex, and the properties |
| `WriterLemmas`, `WriterHandlerLemmas`, `WriterProofs` | | lemmas and theorems, each module extending the one before |
| `InterestQueues` | what `AsyncInterestTree` promises: two queues | abstract specification |
| `AsyncInterestTree` | `AsyncInterestTree.cpp` | heads and the two `next_` links of each writer |
| `AsyncWriterThread` | `AsyncWriterThread.cpp` | `wake_up`, `unregister_writer` and `run`, cut at every lock they take |
| `ReliableDelivery` | what a reliable writer and reader promise together | abstract specification |
| `ReliableTopic` | the handlers of `StatefulWriter`, `PublisherHistory` and `StatefulReader` (by `INSTANCE`), `RTPSGapBuilder`, a network and discovery | composition of one writer and one reader |
| `ResourceEvent` | `ResourceEvent.cpp`, `TimedEvent.cpp`, `TimedEventImpl.cpp` | calls cut where they tell the service, and the loop of the event thread cut at its mutex and its callbacks |
| `ResourceEventProofs` | | lemmas and theorems |
| `ListenerQueues` | what a ring promises: a queue for each listener | abstract specification |
| `SharedMemPort` | `MultiProducerConsumerRingBuffer.hpp`, `SharedMemGlobal.hpp`, `SharedMemManager.hpp`, `SharedMemChannelResource.hpp` and `SharedMemTransport.cpp` as they use them | one action per atomic access |
| `LivelinessManager` | `LivelinessManager.cpp`, the callbacks of `WLP.cpp`, its timer, its vector | calls cut at `mutex_`, with the mutexes of the endpoints |
| `LivelinessProofs` | | lemmas and theorems |
| `MCReader`, `MCWriter`, `MCAsync`, `MCTopic`, `MCEvents`, `MCSharedMem`, `MCLiveliness` | | instances for TLC |

**State.**  `reader` and `writer` are records whose fields have the names of
the members they stand for.  A timer is a flag: armed or not.  A change of the
reader is its writer, its number, the set of its missing fragments and whether
it was read; a change of the writer is its number, and in a proxy its number
with its status.  A sequence number is a natural number, and 0 is the number
before the first.  The other variables are history variables: on the
reader's side what has arrived, was declared gone and was notified, and whether
a listener ever read or took a sample ahead of its notification (`early`); on the
writer's side what each reader can know (`heard`), the least base of its next
ACKNACK (`base`), and `owed`, the pairs of a reliable reader and a change
written while it was matched that it has not acknowledged.  In `ReliableTopic`
`owed` and `offered` are the samples the reader is entitled to and
`delivered` the last one its user was told about.

Times are relative.  In `ResourceEvent` they count from the time the event
thread last read (`lag` is how long ago that was); in `LivelinessManager` they
are the ticks left.  A pointer into the vector of the liveliness manager is an
index, with what is found behind the end or in freed memory kept beside it.  The
pointers of a ring are numbers below twice its cells, as their loop flag makes
them; the counts and the validity of a buffer wrap as their bit fields do.

**Atomicity.**  A handler that runs under the endpoint's mutex is one action.
The exception is the loop of `NotifyChanges`, which calls the user's listener with
the reader's recursive mutex held, where the listener may read and take samples,
those that are not counted yet included.  Each
iteration up to the listener is a step (`Notify`, then `listener_returns`), and
`telling` holds the writer whose listener runs: until it returns only the user's
calls go on.  `ReliableTopic`, whose user takes nothing inside a listener, runs the
loop in one step (`NotifyAllChanges`).
A write is cut where it waits on a condition variable; `matched_reader_remove`
where it releases the mutex before `check_acked_status`; the asynchronous
thread and `wake_up` where they take or release one of the four mutexes
involved.  `notify_one` is modelled as such: it wakes one sleeping thread, of
whichever wait.  The heartbeats that `send_all_unsent_changes` adds go to the
readers selected when they are added, which are those of the change at hand unless
a full history has just selected all.  `ResourceEvent` separates the change of a timer's atomic state
from the notice to the event thread.  In `SharedMemPort` every access to an
atomic is a step and the accesses are sequentially consistent; what runs under
`empty_cv_mutex` is one step, or holds `port.lock` from one to the next; a
`try_push` counts the buffer in, pushes, and counts it out again if the ring was
full, in three steps.  In
`LivelinessManager` a call is cut where it takes `mutex_` and where its
callbacks take the mutex of an endpoint, so that lock cycles show; every reader
that matched a writer removes it on its own.

**The network.**  The reader is given any message of a fixed set, at any time.
The writer's readers are modelled by what they can have learnt: an ACKNACK may
report any state that some part of the messages sent so far can lead to, and
never goes back, since older ones are dropped by their count.  The one message
that can really come late is the initial ACKNACK of base 0
(`LateInitialAcks`).  `ReliableTopic` does without these approximations: both
ends are there, and a message is lost, delivered, delivered again (DATA, GAP) or
overtaken.  At most one HEARTBEAT and one ACKNACK are on their way.

**Operators whose names end in a capitalised suffix** (`rearm_Both`,
`run_next_Once`, ...) are faulty variants of the definition that follows them.
No specification uses them; replacing the definition by the variant makes the
property paired with it in `PROJECT.json` fail, which shows that the property
depends on that piece of code.

## What is checked

Each passing run explores its instance completely.  Deadlock is checked except
in `end_to_end` and `shm_port`, where everything may be written, delivered and
closed.

| Run | Instance | What it shows |
|---|---|---|
| `reader_messages` | one writer, numbers 1..3, number 2 in two fragments, every heartbeat over them and every gap whose list spares number 2, room for all, persistent reader | settled numbers were stored or declared gone (`NoSilentLoss`); the proxy stays consistent; the user is told once and in order, across rematches and restarts; the user gets whole samples; ACKNACKs are honest |
| `reader_full_history` | two writers, numbers 1..3, number 1 fragmented, gaps that are ranges, heartbeats that drop nothing, room for three samples, finite lifespan, `KEEP_ALL` and `KEEP_LAST` | a `KEEP_ALL` history whose full flag is up can drain (`FullHistoryCanDrain`); the history, the proxies and the unread counter agree while samples push each other out and listeners run (`UnreadCountIsExact`) |
| `writer_delivery` | two readers, two writes; three configurations: synchronous `KEEP_ALL` with room for one change and a volatile reader, asynchronous `KEEP_LAST` with lifespan, fragments and a best-effort reader, pull mode with a best-effort reader | proxies follow the history; a change a reader still needs is held by its proxy (`OwedIsHeld`) and, with `KEEP_ALL`, by the history (`KeepAllIsReliable`); whatever is pending has a thread or timer on its way |
| `writer_waits` | one reader, three writes; a history of one change used by two threads, or by one with lifespan or with acknowledgement by timer; two instances of one sample, `KEEP_ALL` and `KEEP_LAST` | a blocked write is woken, goes on into room and is refused only without; `wait_for_all_acked` neither succeeds by mistake nor misses its moment; the instance lists match the history |
| `async_thread` | three writers, two of which may be destroyed, one with wake-ups that time out | the links implement `InterestQueues`; a woken writer is queued, and served as long as none is destroyed |
| `end_to_end` | a writer and a reader, two writes; room for one sample with the ends unmatched once, room for two, and a volatile reader with a writer that keeps one sample | the two ends implement `ReliableDelivery`; nothing is taken for acknowledged that the reader lacks; what is owed is delivered and a blocked write returns, whatever is lost |
| `timed_events` | two timers, two threads and the callbacks, four calls, times up to 3 | no armed timer is lost and each goes off; the active timers are sorted where they are searched; a destroyed timer is forgotten; destructors return |
| `shm_port` | two buffers, rings of two cells, two listeners; unicast ports, a multicast port that loses a listener, a port whose listener dies or is closed and that is created anew, a segment for one buffer | rings implement `ListenerQueues`; free cells are exact; the saved notifications are never missed; a buffer is kept until it is read; a channel can always be closed |
| `liveliness` | two writers, two readers, two threads, five calls, leases of 1 and 2 ticks; the manager of the readers with own and shared records and that of the local writers | the counts of a reader are exact; the timer is armed while somebody is alive; a silent writer is declared not alive |

**Why the bounds are enough.**  Three sequence numbers give a hole with a
settled number on each side of it; two fragments a sample that is complete,
incomplete or absent; two heartbeat counts a stale and a fresh one; three places
in a history for the six samples of two writers make it full with a hole below
the samples of one writer, of both or of none.
On the writer's side a change can be acknowledged, pending and not yet written
at the same time, and two readers can disagree about each.  Three writers are
the least number with a middle element in a list, which is where unlinking
differs.  End to end, two samples are a sample and a later one that overtakes
it, and a second match is the first that can meet messages of the one before.
Two timers can be in the wrong order, and four calls restart a timer, let it go
off, and cancel or destroy it while another call does the same.  A ring of two
cells goes round twice with the messages sent, and its loop flag with it.  Five
calls to the liveliness manager match and assert two writers and remove one.
`MaxAcknacks` (one message per life of the reader), `MaxWrites`, `MaxSeq`,
`MaxUnmatches`, `MaxCalls`, `MaxLag`, and in `SharedMemPort` the bounds of a
scenario on messages, deaths, closed channels and generations of a port, are
the only caps on counters.

`reader_full_history` takes the two writers for interchangeable, which the model
is (they are model values and nothing chooses between them), and compares
states by `reader`, `telling` and `early` alone (`ReaderView`): the variables it
leaves out are histories and messages sent, which none of its actions and none of
its invariants reads.

**Fairness.**

- `AsyncWriterThread!FairSpec`: weak fairness of the asynchronous thread, and of
  the rest of a `wake_up` or of a destructor that has begun.  Each of these is
  a running thread, which the operating system schedules.  The one mutex that
  others may take again while the asynchronous thread waits for it is that of
  the writer it serves, and weak fairness is enough there because a writer that
  is queued is not queued again.
- `ReliableTopic!FairSpec`: armed timers expire and threads that can run do
  (`Scheduled`); discovery finds an end that is there (`Discovered`); a sample,
  a HEARTBEAT or an ACKNACK that is sent again and again arrives (`Carried`),
  which is what a network that loses only some of its packets gives.  A GAP is
  not repeated without end, so nothing is assumed of it.  The fairness of a step
  that disables itself is, but for `matched_writer_add`, written as what it
  amounts to (the step is disabled again and again), which TLC checks without
  working out `ENABLED`.
- `ResourceEvent!FairSpec`: the event thread runs, its wait ends when it is
  notified or due, time goes on, and a thread that waits for a mutex gets it;
  a destructor gets in if the event thread lets others in again and again.
- `SharedMemPort!FairSpec`: the listening threads that have not died run, their
  callbacks return, a wait ends at the latest at its timeout, the sender fills the
  cell it reserved, and a channel that is being closed is notified and joined.
- `LivelinessManager!FairSpec`: weak fairness of everything but new calls.  Time is part
  of it, but stops having an effect once every lease has run out.

Nothing is assumed about calls that have not begun: nobody has to write, to
wake a writer, to arm a timer or to destroy anything.

### Disagreements with what the code says

Three runs end in a violation, each of a statement found in the repository:

| Run | Statement | What happens |
|---|---|---|
| `end_to_end_lost_gap` | "In steady-state [...] the middleware guarantees that all samples in the DataWriter history will eventually be delivered to all the DataReader objects." | the GAP for a volatile reader that joins late is sent when it is matched and in answer to its first ACKNACK; when both are lost the reader asks for ever for a number that its proxy does not hold and that is no hole of the history, so that nobody sends it or declares it gone, and is not told of the samples after them |
| `shm_multicast_reuse` | "[...] recovers the oldest buffers not being processed by any listener" | between the look at the counts of a buffer and its invalidation the second listener of a multicast port starts to process it |
| `liveliness_second_reader` | alive_count is "The total number of currently active publishers that write the topic read by the subscriber" | a second reader that matches a writer already alive is not told; when the writer is lost its count becomes -1 |

The same models, on other instances, show more places that deserve attention.
They are described here with the instance that shows them.  On the reader's
side it is `reader_full_history` with the changes that are named:

| Property | Instance | What happens |
|---|---|---|
| `NoSilentLoss` | `KEEP_ALL` | a history that is full with a sample that arrived early gives up, and acknowledges, those before it; the comment (`StatefulReader.cpp:842`) says "If KEEP_LAST and history full, make older changes as lost." |
| `FullHistoryCanDrain`, `FullFlagIsExact` | one writer, room for one sample, the heartbeats of `reader_messages` | a heartbeat that drops a sample received in part makes room (`remove_fragmented_changes_until`, `ReaderHistory.cpp:162`) and leaves the full flag up; when nothing else is stored no read, take or expiry takes it down again, and a `KEEP_ALL` reader refuses every further sample |
| `UnreadCountIsExact` | without the premise `~early` | a listener that reads or takes a sample the loop of `NotifyChanges` has not reached lowers `total_unread_` for it, and the loop then does not count it: the counter stays too small, and `wait_for_unread_cache` may sleep with a sample available |
| `AvailableIsAssembled` | one writer, number 3 fragmented instead of 1, gaps with a list | the lookup for the numbers of `gapList` uses the wrong number (`StatefulReader.cpp:691`), and an incomplete sample becomes available |

On the writer's side it is `writer_waits`, with one thread and the one
configuration that is named or a plain writer with room for two.  `OnlyAcked`, in the premise of
`BlockedWriteIsWoken` and `WaiterIsTold`, and the single thread in the premise
of `RoomIsKept` leave these cases out:

| Property | Instance | What happens |
|---|---|---|
| `RoomIsKept` | two threads, without the premise | another thread takes the room before the woken one goes on; the code has `assert(!m_isHistoryFull);` there (`PublisherHistory.cpp:142`) |
| `BlockedWriteIsWoken` | `disable_positive_acks`, without the premise | `ack_timer_expired` does not notify the write that waits for room |
| `WaiterIsTold` | `lifespan`, without the premise | the last pending change expires and `wait_for_all_acked` is not told |
| `RefusedOnlyWhenFull` | `volatile` writer | `check_acked_status` reads the first number of a history that its callbacks have emptied, and the blocked write is refused although there is room |
| `InstancesMatchHistory` | `keyed`, three instances, two threads | a write that loses its room leaves the change that is then freed in the list of its instance; `MeetsFreed` keeps the model from following the dangling pointer |
| `UnacknowledgedIsAnnounced` | `LateInitialAcks` | a late ACKNACK of base 0 brings acknowledged changes back, and no heartbeat is armed |
| `UnacknowledgedIsAnnounced` | `async`, pull mode, a reliable and a best-effort reader | `async_delivery` wakes the thread instead of arming the heartbeat |
| `KeepAllIsReliable` | `volatile`, `KEEP_ALL`, two threads | `check_acked_status` empties the history and announces a removal, since the first number of an empty history is taken for one to be removed; before the blocked thread takes that up another one writes, and its change, which nobody has acknowledged, is removed |
| `BestEffortIsNotWaitedFor` | a best-effort reader | one that joins late gets the history as unacknowledged |
| `AckedByAllIsTrue` | as it is | `is_acked_by_all` answers from a value computed before a reader joined |

In the services, where the entries that name no property were met while the
code was read for the model and no run is about them:

| Module | Where | What happens |
|---|---|---|
| `AsyncWriterThread` | `WokenIsServed` on `async_thread` | a destructor stops the thread while another writer is being queued, and that writer is never served again; and a `wake_up` that runs out of time between its two locks leaves the writer queued and unscheduled, so that the next one does nothing |
| `ResourceEvent` | `cancel_timer` while the callback runs | it finds the timer inactive and does nothing; when the callback asks for it the timer is armed again |
| `ResourceEvent` | `restart_timer` with a timeout | when it gives up, the timer stays READY and later restarts do nothing until it is cancelled (`gave_up`) |
| `ResourceEvent` | intervals of 24 hours or more | they are taken for cancelled; `EventAssumption` leaves them out |
| `SharedMemPort` | `unregister_listener` | frees cells without taking the buffers out of the enqueued ones, which are then recovered only when the segment is exhausted |
| `SharedMemPort` | a listener that dies between the slot and the count of a buffer | `recover_blocked_processing` takes a reference off that was not there, and the count wraps |
| `SharedMemPort` | a listener that dies between the last reference and the free cell | the cell is lost to the ring (`FreeCellsAreExact` counts it as being freed) |
| `SharedMemPort` | a listener that dies while it is not waiting | the watchdog does not notice, and its ring stays full |
| `SharedMemPort` | regeneration | the listener keeps the index of its slot in the old port |
| `LivelinessManager` | `LockCycle` | a write or a match holds the mutex of an endpoint and waits for `mutex_`, whose holder waits for that endpoint in a callback |
| `LivelinessManager` | `misled` | `timer_owner_` points to an element that was removed, replaced by the last one or left behind in freed memory, and the wrong writer is declared lost, or the same one twice |
| `LivelinessManager` | `LeaseIsHonoured` | a writer asserted while `timer_expired` waits for `mutex_` is declared lost at once; the same happens after `remove_writer`, whose `restart_timer` does nothing to a timer that is waiting |

## What is proved

`ReaderProofs` proves, for every set of writers, every set of messages the
network may deliver, every history size and kind, and every window size:

- `TypeCorrect`: `Spec => []TypeOK`;
- `ProxiesStayConsistent`: no order of messages makes the counters of a
  `WriterProxy` contradict each other;
- `NotifiedStaysRecorded`: whatever the user has been told is covered by the
  history record of its writer;
- `NotificationsAreUnique`: the user is told about each sample at most once and
  in order, across rematches and restarts (an action property).

The assumptions are the `ASSUME`s of `WriterProxy`, `StatefulReader` and
`ReaderEnvironment`: sets of the right kind, a window and a history of at
least one, and heartbeats with `first <= last + 1`, which the code checks.

**The argument.**  `NotifiedIsRecorded` is not inductive: a proxy whose last
notified number is behind the record could notify again.  The inductive
invariant `IInv` adds that the proxies are consistent and how far notification
has come (`Told`): what the user has been told of a matched writer is not above
`last_notified` of its proxy, also between two iterations of the loop, when the
record has been raised already and the loop has not caught up with it.  The first half of `ReaderProofs` shows for each
method of the proxy that it keeps the proxy consistent and only moves it
forward (`Advances`); the second half lifts this to the handlers, one lemma per
action, and `NextOK` collects them.  A handler leaves the record and
`last_notified` alone until it notifies (`Steady`).  `NotifyStep` is the centre:
the record is raised to the low mark before the first listener is called, and what
an iteration adds to `notified` is at most the low mark and above
`last_notified`, hence above everything told before.

`ReaderHistoryProofs` adds what holds between the proxies, the history and the
messages that have arrived, under hypotheses on the messages: a sample is
sent whole or in fragments and never both ways (`SentOneWay`, which the writer
decides when it creates the change), and the list of a GAP names no sample sent
in fragments (`ListsSpareFragmented`):

- `HistoryStaysInAgreement`: the assertion of `change_removed_from_history`;
- `AvailableStaysAssembled`: no sample is available with a fragment missing;
- `UnreadCountStaysExact`: between two handlers `total_unread_` is at most the
  number of unread samples the user can get, and equal to it unless a listener
  has read or taken a sample before it was counted.

If moreover no heartbeat drops a sample sent in fragments
(`HeartbeatsSpareFragmented`):

- `FullHistoryStaysDrainable`: a `KEEP_ALL` history whose `m_isHistoryFull` is up
  holds a sample the user can take or fragments can complete.

With room for every sample (`RoomForAll`) instead of the hypotheses on lists and
heartbeats:

- `NothingIsLostSilently`: what a proxy counts as received was stored or
  declared gone by its writer;
- `AcknacksStayHonest`: an ACKNACK acknowledges nothing else and asks for
  nothing that is settled or stored in part (an action property).

The hypotheses are needed.  Without `ListsSpareFragmented` `AvailableIsAssembled`
is false, without `HeartbeatsSpareFragmented` `FullHistoryCanDrain` is, and without
`RoomForAll` `NoSilentLoss` is, as the table of the reader's side above says.  Both
reader runs satisfy `SentOneWay` and `ListsSpareFragmented`, `reader_messages`
satisfies `RoomForAll` and `reader_full_history` `HeartbeatsSpareFragmented`.

**The argument.**  `HInv` extends `IInv`.  A number of a writer is stored at most
once and only for a matched writer (`Kept`), a complete sample is settled in its
proxy (`Stored`) and an incomplete one is not (`Pending`); notification has caught
up with the low mark of every writer but the one whose listener runs
(`CaughtUp`), so that the unread counter can be compared with the samples up to
`last_notified` (`Counted`, and `Exact` while no listener was early); and a
history whose flag is up holds a sample that can leave (`Drains`).  `Keeps` is what
a step inside a handler does to these three.  A low mark that rises passes complete samples
only, unless a GAP, a HEARTBEAT or a full history declares numbers gone, and
each of those handlers removes the incomplete samples it passes.  This is
where `ListsSpareFragmented` enters.  `Heard` and `Faithful` relate the proxies
to `arrived` and `excused`: what has arrived is settled, and while there is room
nothing else is.  There is one lemma per action again, and `NextHistory`
collects them.  The lemmas on the proxy these rest on say what each
method settles, and that the number after the low mark has not been received
(`LowMarkIsExact`).

`WriterProofs` proves, for every finite set of readers, every set of threads and
instances, every set of configurations, any number of writes, and with or
without the late initial ACKNACKs of `LateInitialAcks`:

- `WriterIsSound`: `Spec => []WriterInvariant`, which the others rest on;
- `ProxiesAreInOrder`: the proxies refer to changes of the history only, each
  once and above the low mark;
- `NothingIsOutOfReach`: what a reader is owed and the history holds is held by
  its proxy;
- `NothingIsForgotten`: what a proxy waits for has a thread or a timer on its
  way;
- `WaitsEndRightly`: `wait_for_all_acked` does not succeed by mistake;
- `RoomIsFound`: with one writing thread the assertion of `add_pub_change`
  holds;
- `KeepAllKeeps`: a `KEEP_ALL` history removes nothing that is owed, unless it
  expires.

The assumptions are `WriterAssumption` and `EnvironmentAssumption`: records and
sets of the right kind.  `KeepAllKeeps` has the hypothesis
`VolatileUsesOneThread`, which both writer runs satisfy and without which it is
false, as the table of the writer's side above says.

**The argument.**  `WriterInvariant` has two halves.  `Sound` says of each proxy
that its changes are in the history, above the low mark, distinct and, for a
reliable reader, not acknowledged, and that whatever waits has its timer
(`Timely`).  `Owes` says of each pair in `owed` that the reader is matched and
reliable and that its proxy holds the change while the history does; the part
that makes it inductive is `next_all_acked <= n`, since `check_acked_status`
removes below that number without looking at the proxies again.  `After` is what
a handler keeps of the two, and composes (`AfterAfter`); `WriterLemmas` and
`WriterHandlerLemmas` show it for each method of the proxy, for the pieces of a
write between two waits and for every handler.  `Told`, `Roomy` and `Ready` say
what a handler makes of the flags `all_acked_` and `may_remove_change_`; from
them come the theorems on the waits.  `KeepAllIsReliable` is not inductive:
between the announcement of a removal and the removal, the first change of the
history must be one that is owed to nobody (`Ready`), and this has to survive
the handlers that run in between.

`ResourceEventProofs` proves, for every finite set of timers, every set of
threads, every choice of intervals and every `MaxCalls`:

- `ArmedStaysScheduled`: no armed timer is lost;
- `ActiveStaysSorted`: the active timers are sorted and distinct where they are
  searched;
- `DestroyedStaysForgotten`: the service refers to no destroyed timer.

It assumes `EventAssumption`: a finite set of timers that is not empty, intervals
of at least one tick and shorter than the 24 hours that mark a cancelled timer,
and a wait of the idle thread within `MaxLag`.

**The argument.**  None of the three is inductive alone.  A search
that starts at the lower bound finds its timer only in a sorted list, what it
does not find would be entered twice, and `unregister_timer` takes out only one
of the two.  `IInv` joins them with
the position of the event thread in its loop (`InStep`), the order of the list
at each position (`InOrder`: from the first callback to the sort nothing is said
about it), that whoever destroys a timer is alone with it (`Forgotten`), and where READY and WAITING timers must be
(`ReadyIsSeen`, `WaitingIsActive`).  The lemmas on `find`, `lower_bound`,
`erase`, `emplace`, `sort_timers` and the final cut say what each does to a
distinct and sorted list; one lemma per action shows that it keeps `IInv`.

`LivelinessProofs` proves, for every set of writers, readers, threads and
leases:

- `AliveStaysWatched`: whenever nobody holds `mutex_` and a writer is alive, its
  lease will be looked at: the timer is armed, or its callback is on its way or
  about to arm it again.

**The argument.**  `IInv` says who may hold `mutex_` (`OneHolder`) and that
`timer_owner_` is unset only when nobody is alive (`ManagerOK`).  A call that
changes who is alive computes the owner again and arms the timer before it gives
`mutex_` back; once its holder will not look at the timer again (`Settled`), a
writer that is alive is watched, whatever the pointer into the vector has become
meanwhile.

**Only model-checked:**

- liveness and everything that speaks of `ENABLED`, which are out of the
  prover's reach;
- `UnacknowledgedIsAnnounced`, `InstancesMatchHistory` and `RefusedOnlyWhenFull`
  on the writer's side, each of which is false in some of the configurations the
  theorems quantify over;
- `BlockedWriteIsWoken` and `WaiterIsTold`, which would need an invariant that
  relates the flags of the waiting threads to the marks of the proxies;
- the asynchronous thread, whose lists are read with a `RECURSIVE` operator, the
  composition and shared memory, with the three refinements;
- `CountsAreExact` of the liveliness manager.

## What is not modelled

Local (intra-process) and data-sharing endpoints, flow controllers, separate
sending, content filters, dispose and unregister, deadlines, ownership,
failed sends, a limit on the readers of a writer, and changes to the locators or
the QoS of a reader that is matched already.  Of the shared memory transport: a process that dies with the
mutex of a port, the death or restart of a sender, how a port is created and
removed for the first and the last time, and the sizes of buffers.  Of the
liveliness protocol: the periodic messages that assert for automatic and manual
writers, and their timers.  Whole components without a module, with the reason
for each, are listed in `PROJECT.json`: discovery, the other transports, the
discovery server, pools, persistence, security, message encoding, dynamic types
and XML.  Counts of messages are naturals on the reader's side and are left out
on the writer's and end to end, where they only order messages.  Two destructors
of writers that meet in `join` are taken one after the other, since C++ leaves
the outcome open.  Memory orders weaker than sequential consistency are not
modelled, although the ring
and the counts of the buffers use them: each access takes place at once.

## Plan

1. **More components**: `StatelessWriter`, flow controllers with failed sends,
   the payload pools, the data-sharing ring, participant discovery and leases,
   the acknowledgement bookkeeping of the discovery server.
2. **Larger compositions**: two readers and fragments end to end; the timers of
   `ResourceEvent` in the place of the armed flags of the endpoints.
3. **More proofs**: the ring of the shared memory transport.
