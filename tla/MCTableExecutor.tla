---------------------------- MODULE MCTableExecutor ----------------------------
(* Small instances of TableExecutor for TLC: the ids 1, 2 and 10; the first  *)
(* begins the text of the third, which is not among the numbers (Number): it *)
(* stands for an id that stoi does not take, too long for an int.            *)
EXTENDS TableExecutor, TLC

MCId == {1, 2, 10}
MCPrefixOf == {<<1, 10>>}
Symmetry == Permutations(Val)
=============================================================================
