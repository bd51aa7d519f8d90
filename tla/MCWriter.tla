------------------------------ MODULE MCWriter ------------------------------
(* Small instances of WriterEnvironment for TLC.                           *)
EXTENDS WriterEnvironment, TLC

CONSTANTS r1, r2, t1, t2, a, b

OneReader == {r1}
TwoReaders == {r1, r2}
TwoThreads == {t1, t2}
OneInstance == {a}
TwoInstances == {a, b}

\* A synchronous KEEP_ALL writer with reliable readers.
Plain ==
    [async |-> FALSE, push_mode |-> TRUE, disable_positive_acks |-> FALSE, volatile |-> FALSE,
     lifespan |-> FALSE, fragmented |-> FALSE, keep_all |-> TRUE, keyed |-> FALSE,
     max_samples |-> 2, samples_per_instance |-> 1,
     best_effort |-> {}, volatile_readers |-> {}, no_positive_acks |-> {}]

OneSlot == [Plain EXCEPT !.max_samples = 1]

\* The ways to deliver: room for one change only, with a volatile reader;
\* asynchronous, KEEP_LAST, with lifespan, fragments and a best-effort reader;
\* in pull mode with a best-effort reader.
Deliveries ==
    {[OneSlot EXCEPT !.volatile_readers = {r2}],
     [Plain EXCEPT !.async = TRUE, !.keep_all = FALSE, !.lifespan = TRUE, !.fragmented = TRUE,
                   !.best_effort = {r2}],
     [Plain EXCEPT !.push_mode = FALSE, !.best_effort = {r2}]}

\* Two threads share a plain writer, one uses each of the others.
Users(qos) == IF qos = OneSlot THEN {t1, t2} ELSE {t1}

\* The ways to wait, for acknowledgements or for room: a full history, also
\* with changes that expire, or with a reader that only sends negative
\* acknowledgements; a full instance of a KEEP_ALL and of a KEEP_LAST writer.
Waits ==
    {OneSlot,
     [OneSlot EXCEPT !.lifespan = TRUE],
     [OneSlot EXCEPT !.disable_positive_acks = TRUE, !.no_positive_acks = {r1}],
     [Plain EXCEPT !.keyed = TRUE],
     [Plain EXCEPT !.keyed = TRUE, !.keep_all = FALSE]}
=============================================================================
