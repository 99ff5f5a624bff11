---------------------------- MODULE OrderedMultimap ----------------------------
(***************************************************************************)
(* What an index promises the executor: for every key the list of record   *)
(* ids entered under it, oldest first.  Entering adds one, deleting takes  *)
(* the first equal one away and is allowed to find nothing.                *)
(***************************************************************************)
EXTENDS Sequences, SequencesExt

CONSTANTS Index, Key, Rid

VARIABLE entries      \* index -> key -> the record ids

Init == entries = [ix \in Index |-> [k \in Key |-> <<>>]]

Enter(ix, k, rid) == entries' = [entries EXCEPT ![ix][k] = Append(@, rid)]

Delete(ix, k, rid) == entries' = [entries EXCEPT ![ix][k] = RemoveFirst(@, rid)]

Next == \E ix \in Index, k \in Key, rid \in Rid : Enter(ix, k, rid) \/ Delete(ix, k, rid)

Spec == Init /\ [][Next]_entries
=============================================================================
