--------------------------- MODULE MCStateDriver ---------------------------
(* StateDriver over the whole corpus; nothing is left to choose. *)
EXTENDS StateDriver
=============================================================================
