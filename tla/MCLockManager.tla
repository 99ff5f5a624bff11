---------------------------- MODULE MCLockManager ----------------------------
(* Small instances of LockManager for TLC.  The transactions are symmetric,  *)
(* and so are the objects.                                                   *)
EXTENDS LockManager, TLC

Symmetry == Permutations(Tx) \cup Permutations(Obj)
=============================================================================
