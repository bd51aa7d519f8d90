-------------------------- MODULE ReliableDelivery --------------------------
(***************************************************************************)
(* What a reliable writer and a reliable reader promise together, without  *)
(* messages: the samples the reader is entitled to reach its user once, in *)
(* the order they were written, and none of them is passed over.           *)
(***************************************************************************)
EXTENDS Naturals

VARIABLES
    written,     \* number of the last sample written
    owed,        \* samples that must reach the user unless the reader leaves
    offered,     \* samples the writer may still drop
    delivered    \* number of the last sample the user was told about

vars == <<written, owed, offered, delivered>>

Init == written = 0 /\ owed = {} /\ offered = {} /\ delivered = 0

\* A sample may be due to the reader, be offered to it, or not concern it; to
\* make room for it the writer may drop what it only offered.
Write ==
    /\ written' = written + 1
    /\ owed' \in {owed, owed \cup {written'}}
    /\ offered' \in SUBSET (offered \cup ({written'} \ owed'))
    /\ UNCHANGED delivered

\* The reader joins, and is offered some of the samples written before.
Join ==
    /\ offered' \in {offered \cup S : S \in SUBSET (1 .. written)}
    /\ UNCHANGED <<written, owed, delivered>>

Drop ==
    /\ offered' \in SUBSET offered
    /\ UNCHANGED <<written, owed, delivered>>

Leave == owed' = {} /\ offered' = {} /\ UNCHANGED <<written, delivered>>

\* The samples of S are delivered: above the last one, and with them every
\* sample up to them that is due or offered.
Deliver(S) ==
    /\ S # {} /\ \A n \in S : n > delivered
    /\ delivered' \in S /\ \A n \in S : n <= delivered'
    /\ {n \in owed \cup offered : n <= delivered'} \subseteq S
    /\ owed' = owed \ S
    /\ offered' = offered \ S
    /\ UNCHANGED written

\* A reader that forgets the writer starts from the beginning.
Forget == delivered' = 0 /\ UNCHANGED <<written, owed, offered>>

Next ==
    \/ Write \/ Join \/ Drop \/ Leave \/ Forget
    \/ \E S \in SUBSET (1 .. written) : Deliver(S)

Spec == Init /\ [][Next]_vars
=============================================================================
