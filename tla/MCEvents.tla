------------------------------ MODULE MCEvents ------------------------------
(* Small instances of ResourceEvent for TLC.                               *)
EXTENDS ResourceEvent, TLC

CONSTANTS t1, t2, u1, u2

TwoTimers == {t1, t2}
TwoThreads == {u1, u2}
IntervalOf == t1 :> 1 @@ t2 :> 2
OneAndTwo == {1, 2}
=============================================================================
