---------------------------- MODULE MCLiveliness ----------------------------
(* Small instances of LivelinessManager for TLC.                            *)
EXTENDS LivelinessManager, TLC

CONSTANTS w1, w2, r1, r2, t1, t2

TwoWriters == {w1, w2}
TwoReaders == {r1, r2}
TwoThreads == {t1, t2}

Qos(k, l) == [kind |-> k, lease |-> l]

Manager(side, links, k, l1, l2) ==
    [side |-> side, links |-> links,
     qos |-> (r1 :> Qos(k, l1)) @@ (r2 :> Qos(k, l2)) @@ (w1 :> Qos(k, l1)) @@ (w2 :> Qos(k, l2))]

\* Two readers of one writer.
SharedWriter == Manager("sub", {<<r1, w1>>, <<r2, w1>>}, "MANUAL_BY_TOPIC", 1, 1)

Shared == {SharedWriter}

\* One reader of two writers, which are asserted each by itself; two readers with
\* a writer each, asserted together; a shared writer; two local writers.
Managers ==
    {Manager("sub", {r1} \X {w1, w2}, "MANUAL_BY_TOPIC", 1, 2),
     Manager("sub", {<<r1, w1>>, <<r2, w2>>}, "AUTOMATIC", 1, 2),
     SharedWriter,
     Manager("pub", {<<w1, w1>>, <<w2, w2>>}, "MANUAL_BY_PARTICIPANT", 1, 2)}
=============================================================================
