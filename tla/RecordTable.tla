------------------------------ MODULE RecordTable ------------------------------
(***************************************************************************)
(* What a node promises about the records it keeps, whatever its handlers, *)
(* locks, files and failures do: per dataset and record identifier it has  *)
(* at most one envelope; an envelope is only replaced by one that wins     *)
(* over it; and only tombstones are ever removed.                          *)
(***************************************************************************)
EXTENDS Records

CONSTANTS Envelopes, NoRecord

VARIABLE table

Init == table = [d \in Datasets |-> [i \in RecordIDs |-> NoRecord]]

\* Put one envelope in its place, as a file keeps it, if it wins over what is
\* there.
Merge(e) ==
    LET current == table[e.dataset][e.recordID]
    IN  /\ current # NoRecord => Supersedes(e, current)
        /\ table' = [table EXCEPT ![e.dataset][e.recordID] = Persisted(e)]

\* Remove some tombstones of one dataset at once.
Purge(d, ids) ==
    /\ \A i \in ids : table[d][i] # NoRecord /\ table[d][i].deleted
    /\ table' = [table EXCEPT ![d] = [i \in RecordIDs |->
                    IF i \in ids THEN NoRecord ELSE table[d][i]]]

Next ==
    \/ \E e \in Envelopes : Merge(e)
    \/ \E d \in Datasets, ids \in SUBSET RecordIDs : Purge(d, ids)

Spec == Init /\ [][Next]_table
=============================================================================
