---------------------------- MODULE MCJobStore ----------------------------
(* JobStore on a small instance, driven by any caller with any lease. *)
EXTENDS JobStore
=============================================================================
