------------------------------ MODULE RecordStore ------------------------------
(***************************************************************************)
(* What a data page promises its users (the executor and the rollback): a  *)
(* growing sequence of numbered records that can be read, marked deleted   *)
(* and brought back, with no trace of offsets, bytes or free space.        *)
(***************************************************************************)
EXTENDS Sequences, Naturals

CONSTANT Record      \* the records that may be stored, none of them empty

Gone == <<>>         \* what reading a deleted record returns: the empty string

VARIABLES
    reading,         \* what readRecord returns for each slot
    stored           \* the record each slot was created with

Init == reading = <<>> /\ stored = <<>>

Put(r) ==
    /\ reading' = Append(reading, r)
    /\ stored' = Append(stored, r)

Remove(i) ==
    /\ reading' = [reading EXCEPT ![i] = Gone]
    /\ UNCHANGED stored

Restore(i) ==
    /\ reading' = [reading EXCEPT ![i] = stored[i]]
    /\ UNCHANGED stored

Next ==
    \/ \E r \in Record : Put(r)
    \/ \E i \in 1..Len(reading) : Remove(i) \/ Restore(i)

Spec == Init /\ [][Next]_<<reading, stored>>
=============================================================================
