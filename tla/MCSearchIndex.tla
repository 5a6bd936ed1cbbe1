--------------------------- MODULE MCSearchIndex ---------------------------
(* SearchIndex on small instances. *)
EXTENDS SearchIndex
=============================================================================
