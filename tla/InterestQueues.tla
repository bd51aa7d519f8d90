--------------------------- MODULE InterestQueues ---------------------------
(***************************************************************************)
(* What AsyncInterestTree promises (AsyncInterestTree.h): two queues of    *)
(* writers without repetitions.  Writers join the hidden queue, the thread *)
(* serves the active one, and the hidden queue becomes the active one when *)
(* that is empty.                                                          *)
(***************************************************************************)
EXTENDS Sequences

CONSTANTS Writers

VARIABLES hidden, active

queues == <<hidden, active>>

In(w, queue) == \E k \in DOMAIN queue : queue[k] = w

Init == hidden = <<>> /\ active = <<>>

Register(w) ==
    /\ ~In(w, hidden)
    /\ hidden' = Append(hidden, w)
    /\ UNCHANGED active

Unregister(w) ==
    LET Others(queue) == SelectSeq(queue, LAMBDA v : v # w)
    IN  hidden' = Others(hidden) /\ active' = Others(active)

Swap ==
    /\ active = <<>>
    /\ active' = hidden
    /\ hidden' = <<>>

Serve ==
    /\ active # <<>>
    /\ active' = Tail(active)
    /\ UNCHANGED hidden

Next == Swap \/ Serve \/ \E w \in Writers : Register(w) \/ Unregister(w)

Spec == Init /\ [][Next]_queues
=============================================================================
