---------------------------- MODULE MCSharedMem ----------------------------
(* Small instances of SharedMemPort for TLC.                                *)
EXTENDS SharedMemPort, TLC

CONSTANTS b1, b2, l1, l2, p1, p2

TwoBuffers == {b1, b2}
TwoListeners == {l1, l2}
TwoNames == {p1, p2}

\* A segment for b buffers, s messages, c crashes, o closed channels and g
\* generations of a port, with l1 listening on first and l2 on second.
Scenario(first, second, b, s, c, o, g) ==
    [layout |-> (l1 :> first) @@ (l2 :> second), segment |-> b, sends |-> s, crashes |-> c, closes |-> o,
     generations |-> g]

\* Two unicast ports; a multicast port that loses a listener; a unicast port
\* whose listener may die or be closed and whose port may be created anew; a
\* multicast port of which one listener dies; a segment for one buffer.
MixedPorts ==
    {Scenario(p1, p2, 2, 2, 0, 0, 1), Scenario(p1, p1, 2, 2, 0, 1, 1), Scenario(p1, None, 2, 3, 1, 1, 2),
     Scenario(p1, p1, 2, 1, 1, 0, 2), Scenario(p1, None, 1, 2, 0, 0, 1)}

\* A multicast port on which nothing goes wrong.
OneMulticast == {Scenario(p1, p1, 2, 2, 0, 0, 1)}
=============================================================================
