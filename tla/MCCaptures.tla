---------------------------- MODULE MCCaptures ----------------------------
(* Captures on small instances. *)
EXTENDS Captures, TLC

\* Capture loops are interchangeable.
Interchangeable == Permutations(Capturers)
=============================================================================
