--------------------------- MODULE MCItemRemoval ---------------------------
(* ItemRemoval on small instances. *)
EXTENDS ItemRemoval
=============================================================================
