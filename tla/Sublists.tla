-------------------------------- MODULE Sublists --------------------------------
(***************************************************************************)
(* Parts of sequences.  The code walks a vector and takes what passes a    *)
(* test: the rows of a Filter, the live slots of a page, the columns of an *)
(* index that still exist.  SelectSeq, which has an operator for the test, *)
(* cannot be reasoned about; here the places that pass are a set.          *)
(***************************************************************************)
EXTENDS Integers, Sequences, FiniteSets

\* How many of a set of places there are up to one.
Rank(P, i) == Cardinality({j \in P : j <= i})

\* The elements of s at the places in P, in their order.
Kept(s, P) == [k \in 1..Cardinality(P) |-> s[CHOOSE i \in P : Rank(P, i) = k]]
=============================================================================
