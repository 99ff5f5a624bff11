---------------------------- MODULE MCWriteAheadLog ----------------------------
(* Small instances of WriteAheadLog for TLC. *)
EXTENDS WriteAheadLog, TLC

Symmetry == Permutations(Client)
=============================================================================
