------------------------------ MODULE MCServer ------------------------------
(* The sign-in of the server and its start.  They share no state, so one run   *)
(* checks them side by side: part says which of them moves, the other stays at *)
(* rest.                                                                       *)
EXTENDS Subscription, Startup

VARIABLE part

serverVars == <<part, authVars, startupVars>>

InSubscription == part = "subscription" /\ UNCHANGED <<part, startupVars>>
InStartup == part = "startup" /\ UNCHANGED <<part, authVars>>

ServerInit ==
    /\ part \in {"subscription", "startup"}
    /\ SubscriptionInit /\ StartupInit

\* One line for each action, so that each is seen to be taken.
ServerNext ==
    \/ \E l \in LoginIds :
          \/ CommandLine(l) /\ InSubscription
          \/ Show(l) /\ InSubscription
          \/ Approved(l) /\ InSubscription
          \/ LockLogin(l) /\ InSubscription
          \/ StoreLogin(l) /\ InSubscription
          \/ GiveUpLogin(l) /\ InSubscription
          \/ EndLogin(l) /\ InSubscription
          \/ Interrupt(l) /\ InSubscription
          \/ \E r \in Requests : PressConnect(r, l) /\ InSubscription
    \/ \E r \in Requests :
          \/ \E then \in {"idle", "lock"} : PressCancel(r, then) /\ InSubscription
          \/ CancelDone(r) /\ InSubscription
          \/ LockRemoval(r) /\ InSubscription
          \/ Remove(r) /\ InSubscription
          \/ Abandon(r) /\ InSubscription
    \/ \E c \in Callers :
          \/ LockToken(c) /\ InSubscription
          \/ ReadToken(c) /\ InSubscription
          \/ Exchange(c) /\ InSubscription
          \/ ExchangeFails(c) /\ InSubscription
          \/ SaveToken(c) /\ InSubscription
          \/ Unlock(c) /\ InSubscription
    \/ AccessExpires /\ InSubscription
    \/ Restart /\ InSubscription
    \/ \E p \in Procs :
          \/ Start(p) /\ InStartup
          \/ EnsureTable(p) /\ InStartup
          \/ Take(p) /\ InStartup
          \/ Read(p) /\ InStartup
          \/ Exec(p) /\ InStartup
          \/ Fail(p) /\ InStartup
          \/ CheckReady(p) /\ InStartup
          \/ Stop(p) /\ InStartup
          \/ Exit(p) /\ InStartup
          \/ Die(p) /\ InStartup

\* At rest the subscription has nothing its fairness could ask for.
ServerSpec ==
    /\ ServerInit /\ [][ServerNext]_serverVars
    /\ SubscriptionFairness

-----------------------------------------------------------------------------
(* Constants *)

Migration(version, name) == [version |-> version, name |-> name]

\* A release, a later one with a migration between two of its own, and a fork
\* that has another migration of that version.
MCLocal ==
    [p \in Procs |->
        CASE p = "gap"  -> {Migration(1, "a"), Migration(3, "a")}
          [] p = "new"  -> {Migration(1, "a"), Migration(2, "b"), Migration(3, "a"),
                            Migration(4, "a")}
          [] p = "fork" -> {Migration(1, "a"), Migration(2, "a")}]

=============================================================================
