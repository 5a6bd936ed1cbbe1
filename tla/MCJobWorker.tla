--------------------------- MODULE MCJobWorker ---------------------------
(* JobWorker on small instances. *)
EXTENDS JobWorker, TLC

\* Workers, and the names a PDF may get, are interchangeable.
Interchangeable == Permutations(Workers) \cup Permutations(FileNames)
=============================================================================
