------------------------------- MODULE MCCatalog -------------------------------
(* Two sessions on the catalog: two tables, two columns, two databases. *)
EXTENDS Catalog, TLC

CONSTANTS a, b

MCWidth == a :> 4 @@ b :> 8

Plain == [cols |-> <<b>>, primary |-> <<>>, notNull |-> <<>>, unique |-> <<b>>]
Keyed == [cols |-> <<a, b>>, primary |-> <<a>>, notNull |-> <<b, a>>, unique |-> <<>>]
MCDefinition == {Plain, Keyed}

Symmetry == Permutations(Client) \cup Permutations(TableName)
=============================================================================
