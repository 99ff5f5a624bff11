----------------------------- MODULE MCSlottedPage -----------------------------
(* A page with room for three short records, and one slot too few for four. *)
EXTENDS SlottedPage
=============================================================================
