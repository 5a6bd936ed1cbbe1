---------------------------- MODULE JobLifecycle ----------------------------
(***************************************************************************)
(* What a job promises to the owner of the archive, without stages, leases *)
(* attempts or email: a job that was accepted waits until it is published  *)
(* with one PDF or has failed, stays what it became, and may be removed at *)
(* any time.  Identifiers are never used twice.                            *)
(***************************************************************************)
CONSTANTS Jobs, Pdfs, NoPdf

VARIABLES phase, pdf

lifecycleVars == <<phase, pdf>>

Init ==
    /\ phase = [j \in Jobs |-> "absent"]
    /\ pdf = [j \in Jobs |-> NoPdf]

Become(j, from, to) ==
    /\ phase[j] \in from
    /\ phase' = [phase EXCEPT ![j] = to]

Accept(j) == Become(j, {"absent"}, "waiting") /\ UNCHANGED pdf

Publish(j) ==
    /\ Become(j, {"waiting"}, "published")
    /\ \E p \in Pdfs : pdf' = [pdf EXCEPT ![j] = p]

GiveUp(j) == Become(j, {"waiting"}, "failed") /\ UNCHANGED pdf

Remove(j) ==
    /\ Become(j, {"waiting", "published", "failed"}, "removed")
    /\ pdf' = [pdf EXCEPT ![j] = NoPdf]

Next == \E j \in Jobs : Accept(j) \/ Publish(j) \/ GiveUp(j) \/ Remove(j)

Spec == Init /\ [][Next]_lifecycleVars

=============================================================================
