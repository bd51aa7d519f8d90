--------------------------- MODULE ListenerQueues ---------------------------
(* What a ring buffer promises to its listeners: each one on a port gets      *)
(* everything pushed to the port while it is there, once and in order, as if  *)
(* it had a queue of its own with as many places as the ring has cells.       *)
EXTENDS Sequences, Naturals

CONSTANTS Listeners, Ports, Cells

VARIABLES
    place,   \* the port a listener is on, or a value outside Ports
    queue    \* what it has still to read

Init ==
    /\ \A l \in Listeners : place[l] \notin Ports
    /\ queue = [l \in Listeners |-> <<>>]

On(p) == {l \in Listeners : place[l] = p}

\* A listener comes to a port, leaves one, or goes from one to another.
Move ==
    \E l \in Listeners :
        /\ place'[l] # place[l]
        /\ place' = [place EXCEPT ![l] = place'[l]]
        /\ queue' = [queue EXCEPT ![l] = <<>>]

\* The same descriptor goes to every listener of the port.
Push ==
    \E k \in Listeners :
        /\ place[k] \in Ports
        /\ queue'[k] # <<>>
        /\ \A l \in On(place[k]) : Len(queue[l]) < Cells
        /\ queue' = [l \in Listeners |-> IF l \in On(place[k])
                                         THEN Append(queue[l], queue'[k][Len(queue'[k])])
                                         ELSE queue[l]]
        /\ UNCHANGED place

Pop ==
    \E l \in Listeners :
        /\ queue[l] # <<>>
        /\ queue' = [queue EXCEPT ![l] = Tail(@)]
        /\ UNCHANGED place

Next == Move \/ Push \/ Pop

Spec == Init /\ [][Next]_<<place, queue>>
=============================================================================
