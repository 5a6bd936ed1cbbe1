------------------------------ MODULE Delivery ------------------------------
(***************************************************************************)
(* Email delivery: the owner's requests (Send and GeneratePDF of           *)
(* internal/library), the mail settings (internal/setup), the mail worker  *)
(* (internal/delivery) and the jobs table they share with processing.      *)
(*                                                                         *)
(* Processing is here only what it does to the row: Work takes the steps   *)
(* of a worker that keeps its lease.  JobWorker has the workers that lose  *)
(* theirs.                                                                 *)
(*                                                                         *)
(* Complete and prepare meet in two rows.  Complete locks the job, and the *)
(* trigger on its content then writes the item that shows the job; prepare *)
(* locks the item and, for a request that joins, then writes the job.  So  *)
(* either waits for the other, and a wait of both is a deadlock, of which  *)
(* PostgreSQL aborts one side.                                             *)
(***************************************************************************)
EXTENDS JobStore

CONSTANTS
    Items,          \* bookmarks
    ActionKeys,     \* idempotency keys of the owner's requests
    Mailers,        \* mail workers
    MaxOwner        \* bound: requests, calls of RetryJob and times the mail
                    \* settings are switched on, together

ASSUME DeliveryAssumption ==
    /\ IsFiniteSet(Mailers)
    /\ MaxOwner \in Nat

VARIABLES
    itemJob,        \* saved_items.job_id
    spent,          \* item_actions: keys already used
    prep,           \* the prepare transaction that holds each item's row
    complete,       \* the Complete transaction that holds each job's row
    mailOn,         \* the settings have a destination
    mailer,         \* what each mail worker is doing
    calls,          \* what the owner has asked so far
    asks,           \* history: delivery requests accepted for each job
    mails           \* history: messages the relay accepted for each job

deliveryVars == <<itemJob, spent, prep, complete, mailOn, mailer, calls,
                  asks, mails>>
vars == <<storeVars, deliveryVars>>

NoJob == 0
NoPrep == [pc |-> "idle", send |-> FALSE, key |-> "none", pdf |-> FALSE, active |-> FALSE]
NoMail == [pc |-> "idle", job |-> NoJob, token |-> NoToken, outcome |-> "none"]

DeliveryInit ==
    /\ StoreInit
    /\ itemJob = [i \in Items |-> NoJob]
    /\ spent = {}
    /\ prep = [i \in Items |-> NoPrep]
    /\ complete = [j \in JobIds |-> "idle"]
    /\ mailOn = TRUE
    /\ mailer = [m \in Mailers |-> NoMail]
    /\ calls = 0
    /\ asks = [j \in JobIds |-> 0]
    /\ mails = [j \in JobIds |-> 0]

Asked(j) == asks' = [asks EXCEPT ![j] = @ + 1]

OwnerAsks == calls < MaxOwner /\ calls' = calls + 1

\* Complete holds the job's row from its lock to its commit.
JobLocked(j) == complete[j] = "waiting"

\* A request that joins waits for the job's row, in a queue for that row.
Joining(i, j) == itemJob[i] = j /\ prep[i].active /\ prep[i].send

\* Complete waits for the item's row, and the item's prepare for the job's.
Deadlocked(i, j) == JobLocked(j) /\ Joining(i, j)

-----------------------------------------------------------------------------
(* prepare *)

\* The item's row is locked from here to the commit, so what the trigger of
\* Complete writes to it waits; the job's row is not locked.
\* Send is refused without a destination, and a key that was used is answered
\* without doing anything.
PrepareBegin(i, key, send) ==
    /\ OwnerAsks /\ prep[i].pc = "idle"
    /\ send => mailOn
    /\ key \notin spent
    /\ \A o \in Items : prep[o].key # key
    /\ prep' = [prep EXCEPT ![i] =
           [pc |-> "begun", send |-> send, key |-> key, active |-> FALSE,
            pdf |-> itemJob[i] # NoJob /\ jobs[itemJob[i]].artifact # NoArtifact]]
    /\ UNCHANGED <<storeVars, itemJob, spent, complete, mailOn, mailer, asks,
                   mails>>

PrepareLook(i) ==
    /\ prep[i].pc = "begun" /\ ~prep[i].pdf
    /\ prep' = [prep EXCEPT ![i].pc = "looked", ![i].active =
           itemJob[i] # NoJob /\ jobs[itemJob[i]].status \in {"queued", "processing"}]
    /\ UNCHANGED <<storeVars, itemJob, spent, complete, mailOn, mailer, calls,
                   asks, mails>>

PrepareDone(i) ==
    /\ spent' = spent \cup {prep[i].key}
    /\ prep' = [prep EXCEPT ![i] = NoPrep]
    /\ UNCHANGED <<complete, mailOn, mailer, calls, mails>>

\* The PDF exists: a request to send it is queued unless it is under way.
PrepareReuse(i) ==
    LET j == itemJob[i] IN
    /\ prep[i].pc = "begun" /\ prep[i].pdf
    /\ \/ prep[i].send /\ SendReady(j)
       \/ /\ prep[i].send => jobs[j].status \in {"processing", "delivering"}
          /\ UNCHANGED storeVars
    /\ IF prep[i].send THEN Asked(j) ELSE UNCHANGED asks
    /\ PrepareDone(i)
    /\ UNCHANGED itemJob

\* A Kindle request joins the generation that was seen in progress.
PrepareJoin(i) ==
    LET j == itemJob[i] IN
    /\ prep[i].pc \in {"looked", "granted"} /\ prep[i].active
    /\ IF prep[i].send THEN ~JobLocked(j) /\ JoinJob(j) /\ Asked(j)
       ELSE UNCHANGED <<storeVars, asks>>
    /\ PrepareDone(i)
    /\ UNCHANGED itemJob

PrepareNew(i) ==
    /\ prep[i].pc = "looked" /\ ~prep[i].active
    /\ CreateJob(prep[i].send)
    /\ itemJob' = [itemJob EXCEPT ![i] = lastJob + 1]
    /\ IF prep[i].send THEN Asked(lastJob + 1) ELSE UNCHANGED asks
    /\ PrepareDone(i)

\* This side of a deadlock is rolled back.  A request that fails for another
\* reason leaves nothing behind either, so it counts as not made.
PrepareAborted(i) ==
    /\ itemJob[i] # NoJob /\ Deadlocked(i, itemJob[i])
    /\ prep' = [prep EXCEPT ![i] = NoPrep]
    /\ UNCHANGED <<storeVars, itemJob, spent, complete, mailOn, mailer, calls,
                   asks, mails>>

Prepare(i) ==
    \/ \E key \in ActionKeys, send \in BOOLEAN : PrepareBegin(i, key, send)
    \/ PrepareLook(i)
    \/ PrepareReuse(i)
    \/ PrepareJoin(i)
    \/ PrepareNew(i)
    \/ PrepareAborted(i)

\* RetryJob on a delivery that failed.
RetryDelivery(j) ==
    /\ OwnerAsks
    /\ jobs[j].status = "delivery_failed"
    /\ CreateRetry(j)
    /\ Asked(j)
    /\ UNCHANGED <<itemJob, spent, prep, complete, mailOn, mailer, mails>>

-----------------------------------------------------------------------------
(* Processing, as the row sees it *)

ClaimJob ==
    /\ \E locked \in SUBSET JobIds : ClaimNext(locked) \/ ClaimNothing(locked)
    /\ UNCHANGED deliveryVars

CompleteGoesTo(j, pc) ==
    /\ complete' = [complete EXCEPT ![j] = pc]
    /\ UNCHANGED <<itemJob, spent, prep, mailOn, mailer, calls, asks, mails>>

\* Stages, and the end of a job that has no article.
Process(j) ==
    LET r == jobs[j] IN
    /\ complete[j] = "idle"
    /\ \/ \E stage \in Stages \ {r.stage, "fetching"} :
             SetStage(j, r.token, r.version, stage)
       \/ Fail(j, r.token, r.version)
    /\ UNCHANGED deliveryVars

\* SELECT ... FOR UPDATE of the job, up to the trigger on its content.
CompleteBegin(j) ==
    /\ complete[j] = "idle"
    /\ ProcessingHeld(j, jobs[j].token, jobs[j].version)
    /\ jobs[j].stage = "persisting"
    /\ CompleteGoesTo(j, "waiting")
    /\ UNCHANGED storeVars

\* Mutant of ItemFree: a Complete that has nothing to do with the item's row.
ItemFreeAlways(j) == TRUE

\* The trigger can write the item that shows the job: no prepare holds it.
ItemFree(j) == \A i \in Items : itemJob[i] = j => prep[i].pc = "idle"

CompleteEnd(j) ==
    /\ complete[j] = "waiting" /\ ItemFree(j)
    /\ \E name \in FileNames : Complete(j, jobs[j].token, jobs[j].version, name)
    /\ CompleteGoesTo(j, "idle")

\* The request that waited for the job's row has it.
CompleteAborted(j) ==
    /\ \E i \in Items : Deadlocked(i, j) /\ prep' = [prep EXCEPT ![i].pc = "granted"]
    /\ complete' = [complete EXCEPT ![j] = "aborted"]
    /\ UNCHANGED <<storeVars, itemJob, spent, mailOn, mailer, calls, asks, mails>>

\* handleProcessingError, after a Complete that was aborted.  It waits for the
\* request that was granted the row.
TryAgain(j) ==
    LET r == jobs[j] IN
    /\ complete[j] = "aborted"
    /\ \A i \in Items : itemJob[i] = j => prep[i].pc # "granted"
    /\ \/ \E wait \in 0..MaxWait : Requeue(j, r.token, r.version, wait)
       \/ Fail(j, r.token, r.version)
    /\ CompleteGoesTo(j, "idle")

Work(j) ==
    /\ jobs[j].status = "processing"
    /\ Process(j) \/ CompleteBegin(j) \/ CompleteEnd(j) \/ CompleteAborted(j) \/ TryAgain(j)

-----------------------------------------------------------------------------
(* Mail settings *)

Disable ==
    /\ mailOn
    /\ mailOn' = FALSE
    /\ UNCHANGED <<storeVars, itemJob, spent, prep, complete, mailer, calls,
                   asks, mails>>

\* One UPDATE, which waits for a row that Complete holds.
Pause ==
    /\ \A j \in JobIds : JobLocked(j) => ~jobs[j].dest
    /\ PausePendingDelivery

\* Update first pauses what is pending, then stores the settings.
Enable ==
    /\ ~mailOn /\ OwnerAsks
    /\ Pause
    /\ mailOn' = TRUE
    /\ UNCHANGED <<itemJob, spent, prep, complete, mailer, asks, mails>>

\* The settings cannot be stored: the pause stays.
EnableFails ==
    /\ ~mailOn /\ OwnerAsks
    /\ Pause
    /\ UNCHANGED <<itemJob, spent, prep, complete, mailOn, mailer, asks, mails>>

-----------------------------------------------------------------------------
(* The mail worker *)

SetMailer(m, record) == mailer' = [mailer EXCEPT ![m] = record]

\* RunOnce is only called while there is a destination.
MailClaim(m) ==
    /\ mailOn /\ mailer[m].pc = "idle"
    /\ \E j \in JobIds :
          /\ ClaimDelivery(j)
          /\ SetMailer(m, [pc |-> "claimed", job |-> j, token |-> lastToken + 1,
                           outcome |-> "none"])
    /\ UNCHANGED <<itemJob, spent, prep, complete, mailOn, calls, asks, mails>>

MailPollEmpty(m) ==
    /\ mailOn /\ mailer[m].pc = "idle"
    /\ \E locked \in SUBSET JobIds : ClaimNoDelivery(locked)
    /\ UNCHANGED deliveryVars

\* Outcomes as SMTP.Send classifies them.  Only a positive reply to DATA is
\* accepted; without a reply the relay may or may not have the message.
MayHaveSent(outcome) ==
    CASE outcome = "accepted"  -> {1}
      [] outcome = "uncertain" -> {0, 1}
      [] OTHER                 -> {0}

\* Settings switched off since the claim make Send reject.
MailSend(m) ==
    LET c == mailer[m] IN
    /\ c.pc = "claimed"
    /\ \E outcome \in Outcomes :
          /\ ~mailOn => outcome \in {"rejected", "transient_failure"}
          /\ SetMailer(m, [c EXCEPT !.pc = "sent", !.outcome = outcome])
          /\ \E n \in MayHaveSent(outcome) : mails' = [mails EXCEPT ![c.job] = @ + n]
    /\ UNCHANGED <<storeVars, itemJob, spent, prep, complete, mailOn, calls, asks>>

\* A claim that is no longer held is finished silently.
MailFinish(m) ==
    LET c == mailer[m] IN
    /\ c.pc = "sent"
    /\ \/ FinishDelivery(c.job, c.token, c.outcome)
       \/ ~DeliveryHeld(c.job, c.token) /\ UNCHANGED storeVars
    /\ SetMailer(m, NoMail)
    /\ UNCHANGED <<itemJob, spent, prep, complete, mailOn, calls, asks, mails>>

\* The process ends, or the result cannot be stored: the claim is left behind.
MailLost(m) ==
    /\ mailer[m].pc # "idle"
    /\ SetMailer(m, NoMail)
    /\ UNCHANGED <<storeVars, itemJob, spent, prep, complete, mailOn, calls,
                   asks, mails>>

\* Processing leases are kept alive here by their heartbeats.
Pass ==
    /\ \A j \in JobIds : jobs[j].status = "processing" => jobs[j].lease > 1
    /\ Tick
    /\ UNCHANGED deliveryVars

Next ==
    \/ \E i \in Items : Prepare(i)
    \/ \E j \in JobIds : RetryDelivery(j) \/ Work(j)
    \/ ClaimJob
    \/ Disable \/ Enable \/ EnableFails
    \/ \E m \in Mailers :
          MailClaim(m) \/ MailPollEmpty(m) \/ MailSend(m) \/ MailFinish(m) \/ MailLost(m)
    \/ Pass

Spec == DeliveryInit /\ [][Next]_vars

\* The mail loop runs every second, the worker's loop goes on, transactions
\* end, one side of a deadlock is aborted, and time passes.
Fairness ==
    /\ \A m \in Mailers :
          /\ WF_vars(MailClaim(m)) /\ WF_vars(MailPollEmpty(m))
          /\ WF_vars(MailSend(m) \/ MailFinish(m))
    /\ WF_vars(ClaimJob) /\ \A j \in JobIds : WF_vars(Work(j))
    /\ \A i \in Items :
          WF_vars(PrepareLook(i) \/ PrepareReuse(i) \/ PrepareJoin(i) \/ PrepareNew(i))
    /\ WF_vars(Pass)

FairSpec == Spec /\ Fairness

-----------------------------------------------------------------------------
(* Properties *)

\* The relay never gets more messages for a job than were asked for.  Temporary
\* failures are retried, claims expire, workers die after sending and late ones
\* still send, and none of it sends a message that may already have gone
\* ("uncertain and must never be automatically resent").
AtMostOneMailPerAsk == \A j \in JobIds : mails[j] <= asks[j]

\* An email that was asked for is sent or a failure is reported, through a
\* generation that is joined, deadlocks, tries that fail and workers that are
\* lost, as long as the settings are not switched off or the job paused.
WaitingMailSettles ==
    \A j \in JobIds :
        \/ jobs[j].status = "ready" /\ jobs[j].pending
        \/ jobs[j].status \in {"queued", "processing"} /\ jobs[j].dest
            ~> \/ jobs[j].status \in {"delivered", "delivery_failed", "failed"}
               \/ jobs[j].paused \/ ~mailOn

\* A finished PDF whose delivery was asked for is in the queue, also when the
\* request joined the generation just as it ended ("A Kindle request may join
\* PDF generation already in progress"): prepare reads the status of the job
\* without a lock and writes the job after it, and only the item's row, which
\* the trigger of Complete needs, keeps the generation from ending in between.
AskedMailIsQueued ==
    \A j \in JobIds : jobs[j].status = "ready" /\ jobs[j].dest => jobs[j].pending

=============================================================================
