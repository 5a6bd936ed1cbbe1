----------------------------- MODULE MCRecovery -----------------------------
(* RecoverySession on small instances. *)
EXTENDS RecoverySession
=============================================================================
