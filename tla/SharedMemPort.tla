---------------------------- MODULE SharedMemPort ----------------------------
(* The shared memory transport: the segment of buffers of one sending        *)
(* participant (SharedMemManager::Segment), the ports with their ring of     *)
(* descriptors (SharedMemGlobal::Port, MultiProducerConsumerRingBuffer) and  *)
(* the listening thread of each channel (SharedMemManager::Listener,         *)
(* SharedMemChannelResource), which may die at any of its steps.             *)
(* The atomic accesses to shared memory are the steps; what runs under       *)
(* empty_cv_mutex is one step, or holds port.lock from one to the next.      *)
(* Every buffer takes one unit of the segment.                               *)
EXTENDS Integers, FiniteSets, SequencesExt

CONSTANTS
    Buffers,          \* the buffer nodes of the segment
    Cells,            \* the cells of a ring
    Listeners,        \* the listening channels, each in a process of its own
    Names,            \* the ports
    Scenarios,        \* ways to lay listeners on the ports, with their bounds
    ValidityIds,      \* the values of validity_id
    Counts,           \* the values of enqueued_count and of processing_count
    Generations       \* the ports created one after the other under a name

VARIABLES
    scenario,
    status,             \* BufferNode::status
    free_buffers,       \* the list of the segment with its free nodes
    allocated_buffers,  \* and the one with the nodes in use, oldest first
    port,               \* for each name, the PortNode of each generation
    current,            \* the generation that is registered under the name
    holder,             \* who locked the file that marks the port as read
    sender,             \* the thread that sends
    listener,           \* the listening threads
    dead,               \* those whose process has died
    sends

vars == <<scenario, status, free_buffers, allocated_buffers, port, current, holder, sender,
          listener, dead, sends>>
buffers == <<status, free_buffers, allocated_buffers>>

None == "none"

\* The port each listener reads, if it takes part, and the number of buffers
\* the segment has bytes for. Bounds: the messages sent,
\* the processes that die, the channels that are closed and the ports created
\* under one name.
layout == scenario.layout
SegmentSize == scenario.segment
MaxSends == scenario.sends
MaxCrashes == scenario.crashes
MaxCloses == scenario.closes
MaxGenerations == scenario.generations

Descriptors == [buffer : Buffers, validity_id : 0 .. (ValidityIds - 1)]
NoDescriptor == [buffer |-> CHOOSE b \in Buffers : TRUE, validity_id |-> 0]
Slots == 1 .. Cardinality(Listeners)

\* ListenerStatus: fresh says that counter differs from last_verified_counter.
FreeSlot == [is_in_use |-> FALSE, is_waiting |-> FALSE, is_processing |-> FALSE, fresh |-> FALSE,
             descriptor |-> NoDescriptor]

EmptyCell == [ref_counter |-> 0, data |-> NoDescriptor]

\* A port as init_port leaves it.
init_port(exclusive) ==
    [write_p |-> 0, free_cells |-> Cells,
     cells |-> [i \in 0 .. (Cells - 1) |-> EmptyCell],
     registered_listeners |-> 0, num_listeners |-> 0, waiting_count |-> 0, is_port_ok |-> TRUE,
     is_opened_read_exclusive |-> exclusive, lock |-> None,
     listeners_status |-> [i \in Slots |-> FreeSlot]]

On(p) == {l \in Listeners : layout[l] = p}
Exclusive(p) == Cardinality(On(p)) = 1

\* Unicast ports are opened ReadExclusive by their listener, multicast ones
\* ReadShared by the listeners; the one that created the port holds its lock.
Init ==
    /\ scenario \in Scenarios
    /\ status = [b \in Buffers |-> [validity_id |-> 0, enqueued_count |-> 0, processing_count |-> 0]]
    /\ free_buffers = SetToSeq(Buffers)
    /\ allocated_buffers = <<>>
    /\ port = [p \in Names |-> [g \in Generations |-> init_port(Exclusive(p))]]
    /\ current = [p \in Names |-> 1]
    /\ holder \in {h \in [Names -> Listeners \cup {None}] :
                      \A p \in Names : IF On(p) = {} THEN h[p] = None ELSE h[p] \in On(p)}
    /\ sender = [pc |-> "idle", buffer |-> NoDescriptor, todo |-> {}, it |-> 1,
                 name |-> CHOOSE p \in Names : TRUE, wakes |-> FALSE,
                 generation |-> [p \in Names |-> 1]]
    /\ listener = [l \in Listeners |->
                      [pc |-> "new", generation |-> 1, index |-> 1, read_p |-> 0,
                       descriptor |-> NoDescriptor, was_cell_freed |-> FALSE, is_closed |-> FALSE,
                       notified |-> FALSE, closing |-> "open"]]
    /\ dead = {}
    /\ sends = 0
-----------------------------------------------------------------------------
(* MultiProducerConsumerRingBuffer: a pointer is an index and a loop flag    *)
(* that changes whenever the index goes round, a number below 2 * Cells.     *)

inc_pointer(pointer) == (pointer + 1) % (2 * Cells)

get_pointer_value(pointer) == pointer % Cells

\* head() is not nullptr
HasHead(n, read_p) ==
    read_p # n.write_p /\ n.cells[get_pointer_value(read_p)].ref_counter # 0

is_buffer_empty(n) == n.free_cells = Cells

\* The two halves of push: a cell is reserved, then filled.
reserve(n) == [n EXCEPT !.write_p = inc_pointer(@), !.free_cells = @ - 1]

\* Faulty: only the listeners that wait count as readers of the cell.
fill_Waiting(n, d) ==
    [n EXCEPT !.cells[get_pointer_value(n.write_p + Cells - 1)] =
        [ref_counter |-> n.waiting_count, data |-> d]]

fill(n, d) ==
    [n EXCEPT !.cells[get_pointer_value(n.write_p + Cells - 1)] =
        [ref_counter |-> n.registered_listeners, data |-> d]]

\* Faulty: the counter is compared as it is after the decrement.
IsLastReference_Zero(n, read_p) == n.cells[get_pointer_value(read_p)].ref_counter = 0

\* The two halves of pop: the reference is dropped, then a cell without any is
\* free. Nobody looks at the data of such a cell: the model forgets it.
IsLastReference(n, read_p) == n.cells[get_pointer_value(read_p)].ref_counter = 1

drop_reference(n, read_p) ==
    [n EXCEPT !.cells[get_pointer_value(read_p)] =
        IF IsLastReference(n, read_p) THEN EmptyCell ELSE [@ EXCEPT !.ref_counter = @ - 1]]

free_cell(n) == [n EXCEPT !.free_cells = @ + 1]
-----------------------------------------------------------------------------
(* BufferNode: each of these is one compare-and-exchange of the status.      *)

is_valid(d) == status[d.buffer].validity_id = d.validity_id

\* The counts change only for a caller whose validity_id is the current one.
Counted(d, enqueued, processing) ==
    IF ~is_valid(d) THEN status
    ELSE [status EXCEPT ![d.buffer].enqueued_count = (@ + enqueued) % Counts,
                        ![d.buffer].processing_count = (@ + processing) % Counts]

invalidate_buffer(b) ==
    [status EXCEPT ![b] = [validity_id |-> (@.validity_id + 1) % ValidityIds,
                           enqueued_count |-> 0, processing_count |-> 0]]

\* Faulty: a buffer in no ring is taken for free.
is_not_referenced_Enqueued(b) == status[b].enqueued_count = 0

is_not_referenced(b) == status[b].enqueued_count = 0 /\ status[b].processing_count = 0
-----------------------------------------------------------------------------
(* The sender: SharedMemTransport::send allocates a buffer and pushes it to  *)
(* the destinations; RTPSParticipantImpl::sendSync lets one thread at a time *)
(* in, so alloc_mutex_ is never contended.                                   *)

free_bytes == SegmentSize - Len(allocated_buffers)

\* The buffer under the iterator goes back to the free ones.
Recover ==
    /\ status' = invalidate_buffer(allocated_buffers[sender.it])
    /\ free_buffers' = Append(free_buffers, allocated_buffers[sender.it])
    /\ allocated_buffers' = RemoveAt(allocated_buffers, sender.it)

Destinations == {p \in Names : On(p) # {}}

send ==
    /\ sender.pc = "idle" /\ sends < MaxSends
    /\ \E S \in SUBSET Destinations \ {{}} :
          sender' = [sender EXCEPT !.pc = "recover", !.it = 1, !.todo = S]
    /\ sends' = sends + 1
    /\ UNCHANGED <<scenario, buffers, port, current, holder, listener, dead>>

\* recover_buffers: with bytes to spare it looks for buffers nobody refers to,
\* and invalidates one in a second access.
recover_unreferenced ==
    /\ sender.pc = "recover" /\ sender.it <= Len(allocated_buffers) /\ free_bytes > 0
    /\ sender' = IF is_not_referenced(allocated_buffers[sender.it])
                 THEN [sender EXCEPT !.pc = "invalidate"]
                 ELSE [sender EXCEPT !.it = @ + 1]
    /\ UNCHANGED <<scenario, buffers, port, current, holder, listener, dead, sends>>

invalidate_unreferenced ==
    /\ sender.pc = "invalidate"
    /\ Recover
    /\ sender' = [sender EXCEPT !.pc = "recover"]
    /\ UNCHANGED <<scenario, port, current, holder, listener, dead, sends>>

\* Without bytes, and then without nodes, it takes the oldest buffers that
\* nobody is processing (invalidate_if_not_processing).
recover_by_force ==
    /\ \/ sender.pc = "recover" /\ free_bytes = 0
       \/ sender.pc = "again" /\ free_buffers = <<>>
    /\ sender.it <= Len(allocated_buffers)
    /\ IF status[allocated_buffers[sender.it]].processing_count = 0
       THEN Recover /\ UNCHANGED sender
       ELSE sender' = [sender EXCEPT !.it = @ + 1] /\ UNCHANGED buffers
    /\ UNCHANGED <<scenario, port, current, holder, listener, dead, sends>>

\* The end of the first loop.
recover_again ==
    /\ sender.pc = "recover" /\ sender.it > Len(allocated_buffers)
    /\ sender' = [sender EXCEPT !.pc = "again", !.it = 1]
    /\ UNCHANGED <<scenario, buffers, port, current, holder, listener, dead, sends>>

\* alloc_buffer, or an overflow, in which case the message is discarded.
alloc_buffer ==
    /\ sender.pc = "again"
    /\ free_buffers # <<>> \/ sender.it > Len(allocated_buffers)
    /\ IF free_bytes = 0 \/ free_buffers = <<>>
       THEN sender' = [sender EXCEPT !.pc = "idle", !.todo = {}, !.it = 1] /\ UNCHANGED buffers
       ELSE LET b == Last(free_buffers)
                d == [buffer |-> b, validity_id |-> status[b].validity_id]
            IN /\ status' = Counted(d, 0, 1)
               /\ free_buffers' = Front(free_buffers)
               /\ allocated_buffers' = Append(allocated_buffers, b)
               /\ sender' = [sender EXCEPT !.pc = "push", !.buffer = d, !.it = 1]
    /\ UNCHANGED <<scenario, port, current, holder, listener, dead, sends>>

\* Faulty: the rule for a port with one listener, on every port.
Wakes_WhenEmpty(n) == n.waiting_count > 0 /\ is_buffer_empty(n)

\* Whether a push has to notify: the only listener of a ReadExclusive port
\* cannot be waiting while there is something in the ring.
Wakes(n) == n.waiting_count > 0 /\ (n.is_opened_read_exclusive => is_buffer_empty(n))

\* The buffer counts as enqueued before the port is looked at.
inc_enqueued_count(p) ==
    /\ sender.pc = "push" /\ p \in sender.todo
    /\ status' = Counted(sender.buffer, 1, 0)
    /\ sender' = [sender EXCEPT !.pc = "try", !.todo = @ \ {p}, !.name = p]
    /\ UNCHANGED <<scenario, free_buffers, allocated_buffers, port, current, holder, listener, dead, sends>>

\* try_push under the lock: the buffer is dropped when nobody listens or the
\* ring is full, else a cell is reserved.
try_push ==
    LET p == sender.name
        n == port[p][sender.generation[p]]
    IN
    /\ sender.pc = "try"
    /\ n.lock = None
    /\ IF ~n.is_port_ok
       THEN sender' = [sender EXCEPT !.pc = "broken"] /\ UNCHANGED port
       ELSE IF n.registered_listeners = 0 \/ n.free_cells = 0
       THEN sender' = [sender EXCEPT !.pc = "refused"] /\ UNCHANGED port
       ELSE /\ port' = [port EXCEPT ![p][sender.generation[p]] = [reserve(n) EXCEPT !.lock = "sender"]]
            /\ sender' = [sender EXCEPT !.pc = "fill", !.wakes = Wakes(n)]
    /\ UNCHANGED <<scenario, buffers, current, holder, listener, dead, sends>>

\* A buffer that was not pushed is not enqueued.
dec_enqueued_count ==
    /\ sender.pc \in {"refused", "broken"}
    /\ status' = Counted(sender.buffer, -1, 0)
    /\ sender' = [sender EXCEPT !.pc = IF sender.pc = "broken" THEN "regenerate" ELSE "push"]
    /\ UNCHANGED <<scenario, free_buffers, allocated_buffers, port, current, holder, listener, dead, sends>>

\* The cell is filled and the lock released.
push_cell ==
    LET p == sender.name
        g == sender.generation[p]
    IN
    /\ sender.pc = "fill"
    /\ port' = [port EXCEPT ![p][g] = [fill(port[p][g], sender.buffer) EXCEPT !.lock = None]]
    /\ sender' = [sender EXCEPT !.pc = IF sender.wakes THEN "notify" ELSE "push"]
    /\ UNCHANGED <<scenario, buffers, current, holder, listener, dead, sends>>

\* The listeners that wait on a port, after a notification of all of them. A
\* port opened ReadExclusive has one listener, so notify_one does the same.
Notified(p, g) ==
    [l \in Listeners |->
        IF layout[l] = p /\ listener[l].generation = g /\ listener[l].pc = "asleep"
        THEN [listener[l] EXCEPT !.notified = TRUE] ELSE listener[l]]

notify ==
    /\ sender.pc = "notify"
    /\ listener' = Notified(sender.name, sender.generation[sender.name])
    /\ sender' = [sender EXCEPT !.pc = "push"]
    /\ UNCHANGED <<scenario, buffers, port, current, holder, dead, sends>>

\* The reference of the sender goes with its last destination.
release ==
    /\ sender.pc = "push" /\ sender.todo = {}
    /\ status' = Counted(sender.buffer, 0, -1)
    /\ sender' = [sender EXCEPT !.pc = "idle", !.buffer = NoDescriptor]
    /\ UNCHANGED <<scenario, free_buffers, allocated_buffers, port, current, holder, listener, dead, sends>>
-----------------------------------------------------------------------------
(* Ports that are found not ok are created anew under their name.            *)

InUse(n) == {i \in Slots : n.listeners_status[i].is_in_use}
Stale(n) == {i \in InUse(n) : n.listeners_status[i].is_waiting /\ ~n.listeners_status[i].fresh}

\* check_status_all_listeners, which healthy_check tries until its timeout.
Healthy(n) == n.is_port_ok /\ Stale(n) = {} /\ Cardinality(InUse(n)) = n.num_listeners

\* is_zombie: the file of the port is there and nobody holds its lock. Looking
\* removes it.
is_zombie(p) == holder[p] \in dead

\* open_port_internal by a process without the lock of p: the generation it
\* opens, and the ports when it has.
open_port(p, zombie, exclusive, ports) ==
    LET now == current[p]
    IN IF ~zombie /\ Healthy(ports[p][now])
       THEN {[generation |-> now,
              ports |-> [ports EXCEPT ![p][now].is_opened_read_exclusive = @ \/ exclusive]]}
       ELSE {[generation |-> g,
              ports |-> [ports EXCEPT ![p][now].is_port_ok = @ /\ zombie,
                                      ![p][g] = init_port(exclusive)]] :
                g \in {now + 1} \cap (1 .. MaxGenerations)}

\* recover_blocked_processing: the descriptors that the dead listeners of a
\* zombie port were processing lose a reference.
Blocked(n) == {i \in InUse(n) : n.listeners_status[i].is_processing}

Unblocked(n) ==
    [b \in Buffers |->
        [status[b] EXCEPT !.processing_count =
            (@ - Cardinality({i \in Blocked(n) : n.listeners_status[i].descriptor =
                                 [buffer |-> b, validity_id |-> status[b].validity_id]})) % Counts]]

\* Port::regenerate_port of the sender: what it recovers, then the new port.
sender_regenerate ==
    LET p == sender.name
        g == sender.generation[p]
        n == port[p][g]
        ports == IF is_zombie(p)
                 THEN [port EXCEPT ![p][g].listeners_status =
                          [i \in Slots |-> [@[i] EXCEPT !.is_processing = @ /\ i \notin InUse(n)]]]
                 ELSE port
    IN
    /\ sender.pc = "regenerate"
    /\ status' = IF is_zombie(p) THEN Unblocked(n) ELSE status
    /\ holder' = IF is_zombie(p) THEN [holder EXCEPT ![p] = None] ELSE holder
    /\ \E o \in open_port(p, FALSE, FALSE, ports) :
          /\ port' = o.ports
          /\ current' = [current EXCEPT ![p] = o.generation]
          /\ sender' = [sender EXCEPT !.pc = "push", !.generation[p] = o.generation]
    /\ UNCHANGED <<scenario, free_buffers, allocated_buffers, listener, dead, sends>>

\* WatchTask::run: a listener that waits and has not counted since the last
\* look makes the port not ok; the look stops there, or once it has seen
\* num_listeners of them.
Seen(n) ==
    {i \in InUse(n) : n.num_listeners = 0 \/ Cardinality({j \in InUse(n) : j <= i}) <= n.num_listeners}

update_status_all_listeners(n) ==
    LET stale == Stale(n) \cap Seen(n)
        verified == {i \in Seen(n) : \A j \in stale : i < j}
    IN [n EXCEPT
          !.listeners_status = [i \in Slots |-> [@[i] EXCEPT !.fresh = @ /\ i \notin verified]],
          !.is_port_ok = @ /\ stale = {} /\ Cardinality(Seen(n)) = n.num_listeners]

watch(p, g) ==
    /\ g <= current[p] /\ g < MaxGenerations
    /\ port[p][g].lock = None
    /\ port' = [port EXCEPT ![p][g] = update_status_all_listeners(@)]
    /\ UNCHANGED <<scenario, buffers, current, holder, sender, listener, dead, sends>>
-----------------------------------------------------------------------------
(* The listeners.                                                            *)

Node(l) == port[layout[l]][listener[l].generation]

At(l, pc) == l \notin dead /\ listener[l].pc = pc

\* The thread of l goes on at pc, and leaves its port as n.
Goto(l, pc) == listener' = [listener EXCEPT ![l].pc = pc]
Leaves(l, n) == port' = [port EXCEPT ![layout[l]][listener[l].generation] = n]

\* A port n with one more listener, in the first free slot.
FirstFree(n) == CHOOSE i \in Slots \ InUse(n) : \A j \in Slots \ InUse(n) : i <= j

register_listener(n) ==
    [n EXCEPT !.listeners_status[FirstFree(n)].is_in_use = TRUE,
              !.listeners_status[FirstFree(n)].is_processing = FALSE,
              !.num_listeners = @ + 1, !.registered_listeners = @ + 1]

create_listener(l) ==
    /\ At(l, "new") /\ layout[l] \in Names /\ Node(l).lock = None
    /\ Leaves(l, register_listener(Node(l)))
    /\ listener' = [listener EXCEPT ![l].pc = "alive", ![l].index = FirstFree(Node(l)),
                                    ![l].read_p = Node(l).write_p]
    /\ UNCHANGED <<scenario, buffers, current, holder, sender, dead, sends>>

\* Faulty: the thread goes on until the listener is closed.
alive_UntilClosed(l) == ~listener[l].is_closed

\* ChannelResource::alive
alive(l) == listener[l].closing = "open"

\* Listener::pop looks for a head and copies its descriptor;
\* perform_listen_operation calls it until the channel is disabled.
look(l) ==
    /\ l \notin dead
    /\ \/ listener[l].pc = "alive" /\ ~alive(l) /\ Goto(l, "ended")
       \/ /\ \/ listener[l].pc = "alive" /\ alive(l)
             \/ listener[l].pc = "head"
          /\ IF listener[l].is_closed THEN Goto(l, "alive")
             ELSE IF ~HasHead(Node(l), listener[l].read_p) THEN Goto(l, "wait")
             ELSE IF ~Node(l).is_port_ok THEN Goto(l, "regenerate")
             ELSE listener' = [listener EXCEPT ![l].pc = "pop", ![l].descriptor =
                                  Node(l).cells[get_pointer_value(listener[l].read_p)].data]
    /\ UNCHANGED <<scenario, buffers, port, current, holder, sender, dead, sends>>

\* wait_pop up to the condition variable, and the condition it waits for.
Awaited(l) == listener[l].is_closed \/ HasHead(Node(l), listener[l].read_p)

wait_pop(l) ==
    /\ At(l, "wait") /\ Node(l).lock = None
    /\ IF ~Node(l).is_port_ok THEN Goto(l, "regenerate") /\ UNCHANGED port
       ELSE IF Awaited(l)
       THEN Goto(l, "head") /\ UNCHANGED port
       ELSE /\ Leaves(l, [Node(l) EXCEPT
                  !.listeners_status[listener[l].index].is_waiting = TRUE,
                  !.listeners_status[listener[l].index].fresh = TRUE, !.waiting_count = @ + 1])
            /\ listener' = [listener EXCEPT ![l].pc = "asleep", ![l].notified = FALSE]
    /\ UNCHANGED <<scenario, buffers, current, holder, sender, dead, sends>>

\* It wakes up with what it waited for, or goes on waiting; a timeout also
\* looks at the port and counts.
wake_up(l) ==
    LET n == Node(l)
    IN
    /\ At(l, "asleep") /\ n.lock = None
    /\ \/ /\ Awaited(l)
          /\ Leaves(l, [n EXCEPT !.listeners_status[listener[l].index].is_waiting = FALSE,
                                 !.listeners_status[listener[l].index].fresh = FALSE,
                                 !.waiting_count = @ - 1])
          /\ listener' = [listener EXCEPT ![l].pc = "head", ![l].notified = FALSE]
       \/ /\ ~Awaited(l) /\ listener[l].notified
          /\ listener' = [listener EXCEPT ![l].notified = FALSE]
          /\ UNCHANGED port
       \/ /\ ~Awaited(l) /\ n.is_port_ok
          /\ Leaves(l, [n EXCEPT !.listeners_status[listener[l].index].fresh = TRUE])
          /\ UNCHANGED listener
       \/ /\ ~Awaited(l) /\ ~n.is_port_ok
          /\ Goto(l, "regenerate")
          /\ UNCHANGED port
    /\ UNCHANGED <<scenario, buffers, current, holder, sender, dead, sends>>

\* Listener::regenerate_port: the listener moves to the new port, with its old
\* index and with is_closed_ reset, and pop() returns nothing. What it leaves in
\* the old port, where nobody can push any more, makes no difference.
regenerate_port(l) ==
    LET p == layout[l]
        rest == IF holder[p] = l THEN None ELSE holder[p]
        zombie == rest \in dead
    IN
    /\ At(l, "regenerate")
    /\ \E o \in open_port(p, zombie, Exclusive(p), port) :
          LET n == o.ports[p][o.generation]
          IN /\ n.lock = None
             /\ port' = [o.ports EXCEPT ![p][o.generation] = register_listener(n)]
             /\ current' = [current EXCEPT ![p] = o.generation]
             /\ holder' = [holder EXCEPT ![p] =
                              IF Exclusive(p) \/ o.generation # current[p] THEN l ELSE rest]
             /\ listener' = [listener EXCEPT ![l].pc = "alive", ![l].generation = o.generation,
                                ![l].read_p = n.write_p, ![l].is_closed = FALSE]
    /\ UNCHANGED <<scenario, buffers, sender, dead, sends>>

\* The ring's pop in its two halves.
pop(l) ==
    /\ At(l, "pop")
    /\ Leaves(l, drop_reference(Node(l), listener[l].read_p))
    /\ LET freed == IsLastReference(Node(l), listener[l].read_p)
       IN listener' = [listener EXCEPT ![l].pc = IF freed THEN "free" ELSE "start",
                          ![l].was_cell_freed = freed, ![l].read_p = inc_pointer(@)]
    /\ UNCHANGED <<scenario, buffers, current, holder, sender, dead, sends>>

pop_frees(l) ==
    /\ At(l, "free")
    /\ Leaves(l, free_cell(Node(l)))
    /\ Goto(l, "start")
    /\ UNCHANGED <<scenario, buffers, current, holder, sender, dead, sends>>

listener_processing_start(l) ==
    /\ At(l, "start")
    /\ Leaves(l, [Node(l) EXCEPT !.listeners_status[listener[l].index].is_processing = TRUE,
                     !.listeners_status[listener[l].index].descriptor = listener[l].descriptor])
    /\ Goto(l, "count")
    /\ UNCHANGED <<scenario, buffers, current, holder, sender, dead, sends>>

\* Whoever freed the cell takes the buffer out of the enqueued ones; a buffer
\* that was invalidated is skipped.
count_processing(l) ==
    /\ At(l, "count")
    /\ status' = Counted(listener[l].descriptor, IF listener[l].was_cell_freed THEN -1 ELSE 0, 1)
    /\ listener' = [listener EXCEPT ![l] =
          IF is_valid(@.descriptor) THEN [@ EXCEPT !.pc = "use", !.was_cell_freed = FALSE]
          ELSE [@ EXCEPT !.pc = "head", !.was_cell_freed = FALSE, !.descriptor = NoDescriptor]]
    /\ UNCHANGED <<scenario, free_buffers, allocated_buffers, port, current, holder, sender, dead, sends>>

\* The message has been received: the buffer is released, then the slot.
message_reset(l) ==
    /\ At(l, "use")
    /\ status' = Counted(listener[l].descriptor, 0, -1)
    /\ listener' = [listener EXCEPT ![l].pc = "stop", ![l].descriptor = NoDescriptor]
    /\ UNCHANGED <<scenario, free_buffers, allocated_buffers, port, current, holder, sender, dead, sends>>

stop_processing_buffer(l) ==
    /\ At(l, "stop")
    /\ Leaves(l, [Node(l) EXCEPT !.listeners_status[listener[l].index].is_processing = FALSE,
                     !.listeners_status[listener[l].index].descriptor = NoDescriptor])
    /\ Goto(l, "alive")
    /\ UNCHANGED <<scenario, buffers, current, holder, sender, dead, sends>>

\* delete_input_channel: disable and close_listener, in two steps, and join.
close_listener(l) ==
    /\ l \notin dead /\ listener[l].closing = "open" /\ listener[l].pc # "new"
    /\ Cardinality({k \in Listeners : listener[k].closing # "open"}) < MaxCloses
    /\ Node(l).lock = None
    /\ listener' = [listener EXCEPT ![l].closing = "notify", ![l].is_closed = TRUE]
    /\ UNCHANGED <<scenario, buffers, port, current, holder, sender, dead, sends>>

close_notifies(l) ==
    /\ l \notin dead /\ listener[l].closing = "notify"
    /\ listener' = [Notified(layout[l], listener[l].generation) EXCEPT ![l].closing = "join"]
    /\ UNCHANGED <<scenario, buffers, port, current, holder, sender, dead, sends>>

\* The destructor, after the join: unregister_listener pops what is left under
\* the lock, and frees the slot.
unregister_listener(l) ==
    LET n == Node(l)
    IN
    /\ At(l, "ended") /\ listener[l].closing = "join"
    /\ n.lock \in {None, l}
    /\ IF HasHead(n, listener[l].read_p)
       THEN /\ Leaves(l, [drop_reference(n, listener[l].read_p) EXCEPT !.lock = l])
            /\ listener' = [listener EXCEPT ![l].read_p = inc_pointer(@),
                  ![l].pc = IF IsLastReference(n, listener[l].read_p) THEN "free_last" ELSE @]
            /\ UNCHANGED holder
       ELSE /\ Leaves(l, [n EXCEPT !.registered_listeners = @ - 1, !.num_listeners = @ - 1,
                  !.lock = None,
                  !.listeners_status[listener[l].index].is_in_use = FALSE,
                  !.listeners_status[listener[l].index].is_processing = FALSE])
            /\ Goto(l, "gone")
            /\ holder' = IF holder[layout[l]] = l THEN [holder EXCEPT ![layout[l]] = None] ELSE holder
    /\ UNCHANGED <<scenario, buffers, current, sender, dead, sends>>

unregister_frees(l) ==
    /\ At(l, "free_last")
    /\ Leaves(l, free_cell(Node(l)))
    /\ Goto(l, "ended")
    /\ UNCHANGED <<scenario, buffers, current, holder, sender, dead, sends>>

\* The process of l dies, at any point where it does not hold the lock.
crash(l) ==
    /\ l \notin dead /\ listener[l].pc \notin {"new", "gone"}
    /\ Node(l).lock # l
    /\ Cardinality(dead) < MaxCrashes
    /\ dead' = dead \cup {l}
    /\ UNCHANGED <<scenario, buffers, port, current, holder, sender, listener, sends>>
-----------------------------------------------------------------------------
Sender ==
    \/ send \/ recover_unreferenced \/ invalidate_unreferenced \/ recover_by_force
    \/ recover_again \/ alloc_buffer \/ push_cell \/ notify \/ release \/ sender_regenerate
    \/ \E p \in Names : inc_enqueued_count(p)
    \/ try_push
    \/ dec_enqueued_count

Listening(l) ==
    \/ create_listener(l) \/ look(l) \/ wait_pop(l) \/ wake_up(l)
    \/ regenerate_port(l) \/ pop(l) \/ pop_frees(l) \/ listener_processing_start(l)
    \/ count_processing(l) \/ message_reset(l) \/ stop_processing_buffer(l)

Closing(l) ==
    \/ close_listener(l) \/ close_notifies(l) \/ unregister_listener(l)
    \/ unregister_frees(l)

Next ==
    \/ Sender
    \/ \E l \in Listeners : Listening(l) \/ Closing(l) \/ crash(l)
    \/ \E p \in Names, g \in Generations : watch(p, g)

Spec == Init /\ [][Next]_vars
-----------------------------------------------------------------------------
(* Fairness: every listening thread goes on, callbacks return, a wait ends    *)
(* at the latest at its timeout, locks are released, and a channel that is    *)
(* being closed is notified and joined.                                       *)
Steps == {"alive", "head", "wait", "regenerate", "pop", "free", "start", "count", "use", "stop", "free_last"}

Scheduled(l) ==
    /\ \A pc \in Steps : []<>~At(l, pc)
    /\ []<>~(At(l, "asleep") /\ Awaited(l))
    /\ []<>~(l \notin dead /\ listener[l].closing = "notify")
    /\ []<>~(At(l, "ended") /\ listener[l].closing = "join")

FairSpec == Spec /\ (\A l \in Listeners : Scheduled(l)) /\ []<>(sender.pc # "fill")
-----------------------------------------------------------------------------
\* The ring as the listeners see it: the cells from the read pointer to the
\* write pointer, without the one that is only reserved.
IsOn(l, p, g) == layout[l] = p /\ listener[l].generation = g /\ listener[l].pc \notin {"new", "gone"}

Filling(p, g) == sender.pc = "fill" /\ sender.name = p /\ sender.generation[p] = g

Ahead(l) ==
    ((Node(l).write_p - listener[l].read_p) % (2 * Cells))
        - (IF Filling(layout[l], listener[l].generation) THEN 1 ELSE 0)

Place(l) == IF listener[l].pc \in {"new", "gone"} THEN <<>> ELSE <<layout[l], listener[l].generation>>

Unread(l) ==
    IF Place(l) = <<>> THEN <<>>
    ELSE [i \in 1 .. Ahead(l) |-> Node(l).cells[get_pointer_value(listener[l].read_p + i - 1)].data]

Q == INSTANCE ListenerQueues WITH
        Ports <- Names \X Generations,
        place <- [l \in Listeners |-> Place(l)],
        queue <- [l \in Listeners |-> Unread(l)]

\* MultiProducerConsumerRingBuffer, with its reference counts and its two-step
\* push and pop, gives every listener a queue of its own: each descriptor
\* pushed while it is registered, once and in order (ListenerQueues), although
\* listeners come, go, die and move to new ports.
RingsAreQueues == Q!Spec

\* free_cells_, by which push decides that the ring is full, is exact: every
\* cell is free, referenced, or in the hands of the one who is filling it in
\* push or freeing it in pop. None is lost and none is free twice.
FreeCellsAreExact ==
    \A p \in Names : \A g \in 1 .. current[p] :
        port[p][g].free_cells =
            Cells - Cardinality({i \in 0 .. (Cells - 1) : port[p][g].cells[i].ref_counter > 0})
                  - (IF Filling(p, g) THEN 1 ELSE 0)
                  - Cardinality({l \in Listeners : IsOn(l, p, g) /\ listener[l].pc \in {"free", "free_last"}})

\* A listener that sleeps in wait_pop although there is something for it has
\* been notified, or try_push or close_listener is about to notify its port:
\* the rules by which try_push saves notifications never leave a message to
\* the timeout of the wait.
WaiterIsNotified ==
    \A l \in Listeners :
        At(l, "asleep") /\ Awaited(l) /\ ~listener[l].notified =>
            \/ sender.pc = "notify" /\ Place(l) = <<sender.name, sender.generation[sender.name]>>
            \/ \E k \in Listeners : Place(k) = Place(l) /\ listener[k].closing = "notify"

\* The descriptors a listener has not read, or is about to count, or is using.
Holds(l) ==
    {Unread(l)[i] : i \in DOMAIN Unread(l)}
        \cup (IF listener[l].pc \in {"free", "start", "count", "use"} THEN {listener[l].descriptor} ELSE {})

\* A buffer that a listener processes is not taken back: recover_buffers
\* "recovers the oldest buffers not being processed by any listener"
\* (SharedMemManager.hpp:556).
InUseIsValid ==
    \A l \in Listeners : At(l, "use") => is_valid(listener[l].descriptor)

\* As long as no process dies, and with one listener per port, recover_buffers
\* takes back no buffer while it is in use, and one that somebody has still to
\* read only when the segment is exhausted: the move from enqueued_count to
\* processing_count leaves no gap that its two accesses could fall into.
KeptUntilRead ==
    dead = {} /\ (\A p \in Names : Cardinality(On(p)) <= 1) =>
        /\ InUseIsValid
        /\ sender.pc = "invalidate" =>
              \A l \in Listeners : \A d \in Holds(l) :
                  d.buffer = allocated_buffers[sender.it] => ~is_valid(d)

\* delete_input_channel, which joins the listening thread, gets it back even
\* when the listener moves to a new port meanwhile, which resets is_closed_.
ClosedEnds ==
    \A l \in Listeners : []<>(l \in dead \/ listener[l].closing = "open" \/ listener[l].pc = "gone")
=============================================================================
