------------------------------ MODULE MCTopic -------------------------------
(* Small instances of ReliableTopic for TLC.                               *)
EXTENDS ReliableTopic

\* A synchronous KEEP_ALL writer with a reliable reader that wants the history.
Plain ==
    [async |-> FALSE, push_mode |-> TRUE, disable_positive_acks |-> FALSE, volatile |-> FALSE,
     lifespan |-> FALSE, fragmented |-> FALSE, keep_all |-> TRUE, keyed |-> FALSE,
     max_samples |-> 1, samples_per_instance |-> 1,
     best_effort |-> {}, volatile_readers |-> {}, no_positive_acks |-> {}]

\* A write that must wait for room, samples that overtake each other, and a
\* reader that joins late and does not want what was written before.
Delivery ==
    {Plain, [Plain EXCEPT !.max_samples = 2], [Plain EXCEPT !.volatile_readers = {"r"}]}

\* Only the first of them is matched anew.
UnmatchedOnce(qos) == IF qos = Plain THEN 1 ELSE 0

\* The reader that joins late, and a writer that keeps what was written before.
LateJoiner == {[Plain EXCEPT !.max_samples = 2, !.volatile_readers = {"r"}]}
=============================================================================
