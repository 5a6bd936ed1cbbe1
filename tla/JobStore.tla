------------------------------ MODULE JobStore ------------------------------
(***************************************************************************)
(* The jobs table of internal/postgres (store.go, delivery.go) and the     *)
(* statements of internal/library/library.go that write it.  Every action  *)
(* is one database transaction, so it is atomic here.                      *)
(*                                                                         *)
(* Instants are kept as the time left until them: lease is the time left   *)
(* to lease_expires_at and due the time left to next_attempt_at.  A value  *)
(* of 0 says that the instant has passed, and Tick moves every instant one *)
(* unit closer.  The process clock and the database clock are taken to     *)
(* agree.                                                                  *)
(*                                                                         *)
(* A lease is presented by naming its token and the version last observed  *)
(* under it.  StoreNext lets any caller present any token that was ever    *)
(* handed out, with the version that gets furthest, the row's own: the     *)
(* callers of this module are workers that may be late, stalled or         *)
(* replaced, and none of them is trusted here.  Only this is kept from the *)
(* callers: a processing lease comes from ClaimNext and a delivery claim   *)
(* from ClaimDelivery.                                                     *)
(***************************************************************************)
EXTENDS Naturals, FiniteSets

CONSTANTS
    MaxJobs,        \* bound: jobs ever created
    MaxTokens,      \* bound: leases ever handed out
    MaxVersion,     \* bound: row versions explored
    MaxLease,       \* bound: lease time that renewals may pile up
    LeaseTicks,     \* duration of a processing lease
    MailTicks,      \* duration of a delivery lease
    MaxWait,        \* bound: longest retry backoff
    MailBackoff,    \* backoff per delivery attempt (30 s)
    FileNames       \* file names a PDF can be given

JobIds == 1..MaxJobs
NoToken == 0
NoName == "no_name"

ASSUME StoreAssumption ==
    /\ MaxJobs \in Nat /\ MaxTokens \in Nat /\ MaxVersion \in Nat
    /\ MaxLease \in Nat /\ MaxWait \in Nat /\ MailBackoff \in Nat
    /\ LeaseTicks \in Nat \ {0} /\ MailTicks \in Nat \ {0}
    /\ NoName \notin FileNames

VARIABLES
    jobs,           \* the row of every job id
    lastJob,        \* the newest id; ids grow in creation order
    lastToken,      \* lease tokens handed out so far (randomToken)
    mailTokens,     \* those of them that ClaimDelivery handed out
    tasks           \* deletion_tasks still queued, as storage keys

storeVars == <<jobs, lastJob, lastToken, mailTokens, tasks>>

tokenVars == <<lastToken, mailTokens>>

-----------------------------------------------------------------------------
(* Rows *)

Statuses == {"queued", "processing", "delivering", "ready", "delivered",
             "delivery_failed", "failed"}
Stages == {"fetching", "extracting", "ai_analyzing", "formatting", "persisting"}
Failures == {"none", "processing_failed", "delivery_rejected", "delivery_timeout"}
Outcomes == {"accepted", "rejected", "transient_failure", "uncertain"}

\* What is stored of a PDF: its file name and, for the checksum, the lease
\* under which its bytes were produced.
Artifacts == [name : FileNames, sum : Nat]
NoArtifact == [name |-> NoName, sum |-> NoToken]

\* The storage key of an artifact is jobID/filename.
Keys == JobIds \X FileNames

Row == [status : Statuses \cup {"none"},
        stage : Stages \cup {"none"},
        attempts : Nat, token : Nat, lease : Nat, due : Nat, version : Nat,
        failure : Failures, done : BOOLEAN,
        artifact : Artifacts \cup {NoArtifact}, dest : BOOLEAN,
        pending : BOOLEAN, paused : BOOLEAN, retries : Nat]

\* An id without a row: not yet created, or deleted.
NoRow == [status |-> "none", stage |-> "none", attempts |-> 0,
          token |-> NoToken, lease |-> 0, due |-> 0, version |-> 0,
          failure |-> "none", done |-> FALSE, artifact |-> NoArtifact,
          dest |-> FALSE, pending |-> FALSE, paused |-> FALSE, retries |-> 0]

NewRow(dest) == [NoRow EXCEPT !.status = "queued", !.version = 1, !.dest = dest]

Exists(j) == jobs[j].status # "none"

\* domain.Status.Terminal, without the status a row only has while it is deleted.
Terminal == {"ready", "delivered", "delivery_failed", "failed"}

\* domain.Stage.CanTransitionTo
CanTransitionTo(from, to) ==
    \/ from = to
    \/ /\ from # "persisting"
       /\ to = CASE from = "fetching"     -> "extracting"
                 [] from = "extracting"   -> "ai_analyzing"
                 [] from = "ai_analyzing" -> "formatting"
                 [] OTHER                 -> "persisting"
    \/ from = "fetching" /\ to = "formatting"
    \/ from \in {"extracting", "ai_analyzing", "formatting"} /\ to = "fetching"

-----------------------------------------------------------------------------
(* What each statement makes of a row *)

\* Mutant of Leaseless: the stage is not cleared with the lease.
LeaselessKeepsStage(r, status) ==
    [r EXCEPT !.status = status, !.token = NoToken, !.lease = 0, !.version = @ + 1]

Leaseless(r, status) ==
    [r EXCEPT !.status = status, !.stage = "none", !.token = NoToken,
              !.lease = 0, !.version = @ + 1]

Claimed(r, token) ==
    [r EXCEPT !.status = "processing", !.stage = "fetching",
              !.attempts = @ + 1, !.token = token, !.lease = LeaseTicks,
              !.version = @ + 1]

\* lease_expires_at moves on from where it stood, not from now.
Renewed(r) == [r EXCEPT !.lease = @ + LeaseTicks, !.version = @ + 1]

Staged(r, stage) == [r EXCEPT !.stage = stage, !.version = @ + 1]

Completed(r, artifact) ==
    [Leaseless(r, "ready") EXCEPT !.artifact = artifact, !.pending = r.dest,
                                  !.done = TRUE]

Requeued(r, wait) ==
    [Leaseless(r, "queued") EXCEPT !.failure = "none", !.due = wait]

Failed(r) ==
    [Leaseless(r, "failed") EXCEPT !.failure = "processing_failed",
                                   !.done = TRUE, !.due = 0]

Reclaimed(r) ==
    [Leaseless(r, "queued") EXCEPT !.failure = "none", !.done = FALSE, !.due = 0]

DeliveryExpired(r) ==
    [Leaseless(r, "delivery_failed") EXCEPT !.failure = "delivery_timeout",
                                            !.pending = FALSE, !.done = TRUE]

DeliveryClaimed(r, token) ==
    [r EXCEPT !.status = "delivering", !.done = FALSE, !.token = token,
              !.lease = MailTicks, !.version = @ + 1, !.retries = @ + 1]

DeliveryTries == 3

\* Mutant of WillRetry: an uncertain delivery is tried again as well.
WillRetryUncertain(r, outcome) ==
    outcome \in {"transient_failure", "uncertain"} /\ r.retries < DeliveryTries

\* A temporary failure goes back to the queue until its tries are used up.
WillRetry(r, outcome) ==
    outcome = "transient_failure" /\ r.retries < DeliveryTries

OutcomeStatus(r, outcome) ==
    CASE outcome = "accepted"  -> "delivered"
      [] WillRetry(r, outcome) -> "ready"
      [] OTHER                 -> "delivery_failed"

OutcomeFailure(r, outcome) ==
    CASE outcome = "accepted"  -> "none"
      [] outcome = "rejected"  -> "delivery_rejected"
      [] WillRetry(r, outcome) -> "none"
      [] OTHER                 -> "delivery_timeout"

\* Mutant of DeliveryFinished: a retry does not ask for delivery again.
DeliveryFinishedForgets(r, outcome) ==
    [Leaseless(r, OutcomeStatus(r, outcome)) EXCEPT
        !.failure = OutcomeFailure(r, outcome), !.pending = FALSE,
        !.done = TRUE, !.due = r.retries * MailBackoff]

DeliveryFinished(r, outcome) ==
    [Leaseless(r, OutcomeStatus(r, outcome)) EXCEPT
        !.failure = OutcomeFailure(r, outcome),
        !.pending = WillRetry(r, outcome),
        !.done = TRUE, !.due = r.retries * MailBackoff]

\* The row asks once more for its stored PDF to be emailed.
EmailRetried(r) ==
    [r EXCEPT !.status = "ready", !.pending = TRUE, !.retries = 0,
              !.failure = "none", !.due = 0, !.version = @ + 1]

EmailRequested(r) == [EmailRetried(r) EXCEPT !.paused = FALSE, !.dest = TRUE]

\* The version stays: the worker that holds the row keeps its lease.
Joined(r) == [r EXCEPT !.dest = TRUE, !.paused = FALSE]

Paused(r) ==
    IF r.dest /\ r.status \in {"queued", "processing", "ready", "failed"}
    THEN [r EXCEPT !.paused = TRUE] ELSE r

\* Mutant of Swept: jobs are not taken back from workers that are gone.
SweptWithoutReclaim(r) ==
    IF r.status = "delivering" /\ r.lease = 0 THEN DeliveryExpired(r) ELSE r

\* What every claim first does to leases that ran out.
Swept(r) ==
    CASE r.status = "delivering" /\ r.lease = 0 -> DeliveryExpired(r)
      [] r.status = "processing" /\ r.lease = 0 -> Reclaimed(r)
      [] OTHER                                  -> r

MailSwept(r) ==
    IF r.status = "delivering" /\ r.lease = 0 THEN DeliveryExpired(r) ELSE r

Earlier(n) == IF n > 0 THEN n - 1 ELSE 0

Aged(r) == [r EXCEPT !.lease = Earlier(@), !.due = Earlier(@)]

-----------------------------------------------------------------------------
(* Transactions *)

StoreInit ==
    /\ jobs = [j \in JobIds |-> NoRow]
    /\ lastJob = 0
    /\ lastToken = NoToken
    /\ mailTokens = {}
    /\ tasks = {}

SetRow(j, row) == jobs' = [jobs EXCEPT ![j] = row]

\* INSERT INTO jobs, by CreateOrReuse, CreateRetry and prepare.
CreateJob(dest) ==
    /\ lastJob < MaxJobs
    /\ lastJob' = lastJob + 1
    /\ SetRow(lastJob + 1, NewRow(dest))
    /\ UNCHANGED <<tokenVars, tasks>>

\* Mutant of LeaseHeld: the version is not compared.
LeaseHeldAnyVersion(j, token, version) ==
    /\ jobs[j].status \in {"processing", "delivering"}
    /\ jobs[j].token = token
    /\ jobs[j].lease > 0

\* The lease checks of RenewLease, Requeue and Fail.
LeaseHeld(j, token, version) ==
    /\ jobs[j].status \in {"processing", "delivering"}
    /\ jobs[j].token = token
    /\ jobs[j].version = version
    /\ jobs[j].lease > 0

\* The stricter ones of SetStage and Complete.
ProcessingHeld(j, token, version) ==
    LeaseHeld(j, token, version) /\ jobs[j].status = "processing"

Claimable(rows) == {j \in JobIds : rows[j].status = "queued" /\ rows[j].due = 0}

\* Mutant of ClaimNext: every row that can be claimed is, under one token.
ClaimNextEvery(locked) ==
    LET swept == [j \in JobIds |-> Swept(jobs[j])]
        free  == Claimable(swept) \ locked
    IN  /\ lastToken < MaxTokens
        /\ free # {}
        /\ jobs' = [j \in JobIds |->
                       IF j \in free THEN Claimed(swept[j], lastToken + 1) ELSE swept[j]]
        /\ lastToken' = lastToken + 1
        /\ UNCHANGED <<lastJob, mailTokens, tasks>>

\* locked are the rows that other transactions hold and SKIP LOCKED passes over.
ClaimNext(locked) ==
    LET swept == [j \in JobIds |-> Swept(jobs[j])]
        free  == Claimable(swept) \ locked
    IN  /\ lastToken < MaxTokens
        /\ \E j \in free :
              /\ \A i \in free : j <= i
              /\ jobs' = [swept EXCEPT ![j] = Claimed(@, lastToken + 1)]
        /\ lastToken' = lastToken + 1
        /\ UNCHANGED <<lastJob, mailTokens, tasks>>

\* A claim that finds nothing still commits what it swept.
ClaimNothing(locked) ==
    LET swept == [j \in JobIds |-> Swept(jobs[j])]
    IN  /\ Claimable(swept) \subseteq locked
        /\ jobs' = swept
        /\ UNCHANGED <<lastJob, tokenVars, tasks>>

RenewLease(j, token, version) ==
    /\ LeaseHeld(j, token, version)
    /\ jobs[j].lease + LeaseTicks <= MaxLease
    /\ SetRow(j, Renewed(jobs[j]))
    /\ UNCHANGED <<lastJob, tokenVars, tasks>>

SetStage(j, token, version, stage) ==
    /\ ProcessingHeld(j, token, version)
    /\ CanTransitionTo(jobs[j].stage, stage)
    /\ SetRow(j, Staged(jobs[j], stage))
    /\ UNCHANGED <<lastJob, tokenVars, tasks>>

Complete(j, token, version, name) ==
    /\ ProcessingHeld(j, token, version)
    /\ jobs[j].stage = "persisting"
    /\ SetRow(j, Completed(jobs[j], [name |-> name, sum |-> token]))
    /\ UNCHANGED <<lastJob, tokenVars, tasks>>

Requeue(j, token, version, wait) ==
    /\ LeaseHeld(j, token, version)
    /\ SetRow(j, Requeued(jobs[j], wait))
    /\ UNCHANGED <<lastJob, tokenVars, tasks>>

Fail(j, token, version) ==
    /\ LeaseHeld(j, token, version)
    /\ SetRow(j, Failed(jobs[j]))
    /\ UNCHANGED <<lastJob, tokenVars, tasks>>

\* Mutant of CreateRetry: a failed job is retried in place as well.
CreateRetryInPlace(j) ==
    \/ /\ jobs[j].status = "failed"
       /\ SetRow(j, Reclaimed(jobs[j]))
       /\ UNCHANGED <<lastJob, tokenVars, tasks>>
    \/ /\ jobs[j].status = "delivery_failed" /\ jobs[j].dest
       /\ SetRow(j, EmailRetried(jobs[j]))
       /\ UNCHANGED <<lastJob, tokenVars, tasks>>
    \/ jobs[j].status \in Terminal \ {"failed", "delivery_failed"} /\ CreateJob(FALSE)

\* A failed delivery is retried in place, anything else as a new job.
CreateRetry(j) ==
    /\ jobs[j].status \in Terminal
    /\ IF jobs[j].status = "delivery_failed"
       THEN /\ jobs[j].dest
            /\ SetRow(j, EmailRetried(jobs[j]))
            /\ UNCHANGED <<lastJob, tokenVars, tasks>>
       ELSE CreateJob(FALSE)

\* Artifact and content rows go with the job; the file is left to a task.
RequestDelete(j) ==
    /\ Exists(j)
    /\ tasks' = IF jobs[j].artifact = NoArtifact THEN tasks
                ELSE tasks \cup {<<j, jobs[j].artifact.name>>}
    /\ SetRow(j, NoRow)
    /\ UNCHANGED <<lastJob, tokenVars>>

\* CleanupOnce marks a task completed once its file is gone.
FinishTask(key) ==
    /\ key \in tasks
    /\ tasks' = tasks \ {key}
    /\ UNCHANGED <<jobs, lastJob, tokenVars>>

\* Mutant of ClaimDelivery: delivery_paused is not looked at.
ClaimDeliveryPaused(j) ==
    LET swept == [i \in JobIds |-> MailSwept(jobs[i])]
    IN  /\ lastToken < MaxTokens
        /\ swept[j].status = "ready" /\ swept[j].pending /\ swept[j].due = 0
        /\ swept[j].artifact # NoArtifact
        /\ jobs' = [swept EXCEPT ![j] = DeliveryClaimed(@, lastToken + 1)]
        /\ lastToken' = lastToken + 1
        /\ mailTokens' = mailTokens \cup {lastToken + 1}
        /\ UNCHANGED <<lastJob, tasks>>

\* ORDER BY next_attempt_at is not kept among jobs that are all due: any of
\* them may be picked.
ClaimDelivery(j) ==
    LET swept == [i \in JobIds |-> MailSwept(jobs[i])]
    IN  /\ lastToken < MaxTokens
        /\ swept[j].status = "ready" /\ swept[j].pending
        /\ ~swept[j].paused /\ swept[j].due = 0
        /\ swept[j].artifact # NoArtifact
        /\ jobs' = [swept EXCEPT ![j] = DeliveryClaimed(@, lastToken + 1)]
        /\ lastToken' = lastToken + 1
        /\ mailTokens' = mailTokens \cup {lastToken + 1}
        /\ UNCHANGED <<lastJob, tasks>>

ClaimNoDelivery(locked) ==
    LET swept == [i \in JobIds |-> MailSwept(jobs[i])]
    IN  /\ \A j \in JobIds \ locked : ~ (swept[j].status = "ready" /\ swept[j].pending
                                         /\ ~swept[j].paused /\ swept[j].due = 0)
        /\ jobs' = swept
        /\ UNCHANGED <<lastJob, tokenVars, tasks>>

DeliveryHeld(j, token) ==
    jobs[j].status = "delivering" /\ jobs[j].token = token /\ jobs[j].lease > 0

FinishDelivery(j, token, outcome) ==
    /\ DeliveryHeld(j, token)
    /\ SetRow(j, DeliveryFinished(jobs[j], outcome))
    /\ UNCHANGED <<lastJob, tokenVars, tasks>>

\* Mutant of SendReady: the PDF is not looked up first.
SendReadyUnchecked(j) ==
    /\ Exists(j) /\ jobs[j].status \notin {"processing", "delivering"}
    /\ SetRow(j, EmailRequested(jobs[j]))
    /\ UNCHANGED <<lastJob, tokenVars, tasks>>

\* prepare, for an item whose job has an available PDF.
SendReady(j) ==
    /\ jobs[j].artifact # NoArtifact
    /\ jobs[j].status \notin {"processing", "delivering"}
    /\ SetRow(j, EmailRequested(jobs[j]))
    /\ UNCHANGED <<lastJob, tokenVars, tasks>>

\* prepare, for an item whose job was seen queued or processing.
JoinJob(j) ==
    /\ Exists(j)
    /\ SetRow(j, Joined(jobs[j]))
    /\ UNCHANGED <<lastJob, tokenVars, tasks>>

PausePendingDelivery ==
    /\ jobs' = [j \in JobIds |-> Paused(jobs[j])]
    /\ UNCHANGED <<lastJob, tokenVars, tasks>>

Tick ==
    /\ jobs' = [j \in JobIds |-> Aged(jobs[j])]
    /\ UNCHANGED <<lastJob, tokenVars, tasks>>

-----------------------------------------------------------------------------
(* Any caller, with any lease *)

LeaseCall(j, token, version) ==
    \/ RenewLease(j, token, version)
    \/ \E stage \in Stages : SetStage(j, token, version, stage)
    \/ \E name \in FileNames : Complete(j, token, version, name)
    \/ \E wait \in 0..MaxWait : Requeue(j, token, version, wait)
    \/ Fail(j, token, version)

MailCall(j, token) == \E outcome \in Outcomes : FinishDelivery(j, token, outcome)

JobCall(j) ==
    \/ CreateRetry(j)
    \/ RequestDelete(j)
    \/ ClaimDelivery(j)
    \/ SendReady(j)
    \/ JoinJob(j)
    \/ \E token \in (1..lastToken) \ mailTokens :
          LeaseCall(j, token, jobs[j].version)
    \/ \E token \in mailTokens : MailCall(j, token)

StoreNext ==
    \/ \E dest \in BOOLEAN : CreateJob(dest)
    \/ \E locked \in SUBSET JobIds :
          ClaimNext(locked) \/ ClaimNothing(locked) \/ ClaimNoDelivery(locked)
    \/ PausePendingDelivery
    \/ \E key \in tasks : FinishTask(key)
    \/ Tick
    \/ \E j \in JobIds : JobCall(j)

StoreSpec == StoreInit /\ [][StoreNext]_storeVars

\* The part of StoreSpec that model checking explores.
VersionBound == \A j \in JobIds : jobs'[j].version <= MaxVersion

BoundedStoreSpec == StoreInit /\ [][StoreNext /\ VersionBound]_storeVars

-----------------------------------------------------------------------------
(* Properties *)

StoreTypeOK ==
    /\ jobs \in [JobIds -> Row]
    /\ lastJob \in 0..MaxJobs
    /\ lastToken \in Nat
    /\ mailTokens \subseteq 1..lastToken
    /\ tasks \subseteq Keys

Published == {"ready", "delivering", "delivered", "delivery_failed"}

\* The CHECK constraints of the jobs table: processing rows and only they have
\* a stage, leased rows and only they have a token, failures are explained and
\* only settled rows have a completion time.
SchemaHolds(r) ==
    /\ (r.status = "processing") <=> (r.stage # "none")
    /\ (r.status \in {"processing", "delivering"}) <=> (r.token # NoToken)
    /\ (r.status \in {"failed", "delivery_failed"}) <=> (r.failure # "none")
    /\ r.done => r.status \in Terminal
    /\ (r.status # "none") <=> (r.version > 0)

\* No transaction, whoever calls it with whatever lease, writes a row that the
\* CHECK constraints of migrations/0001 reject.  A rejected UPDATE would leave
\* the row as it was and stop the worker that issued it.
SchemaNeverRejects == \A j \in JobIds : SchemaHolds(jobs[j])

\* A job has its PDF exactly while it is ready or past that, so Complete's
\* INSERT never meets the unique index on (job_id, output_kind, profile) and
\* ClaimDelivery never finds a pending job without an artifact, an error that
\* would hold up every delivery behind it.
PublishedIffArtifact ==
    \A j \in JobIds :
        (jobs[j].status \in Published) <=> (jobs[j].artifact # NoArtifact)

\* A lease names one job and one kind of work: no two rows share a token, and
\* a row in delivery is never held under a processing lease although
\* RenewLease, Requeue and Fail accept the status delivering.
LeasesAreExclusive ==
    /\ \A i, j \in JobIds :
          jobs[i].token = jobs[j].token /\ i # j => jobs[i].token = NoToken
    /\ \A j \in JobIds :
          /\ jobs[j].token <= lastToken
          /\ jobs[j].status = "delivering" => jobs[j].token \in mailTokens
          /\ jobs[j].status = "processing" => jobs[j].token \notin mailTokens

\* One request is tried at most three times, however claims, expiries, manual
\* retries and new requests interleave, and a job that is waiting to be
\* emailed still has a try left (FinishDelivery, delivery_retry_count).
TriesBounded ==
    \A j \in JobIds :
        /\ jobs[j].retries <= DeliveryTries
        /\ jobs[j].status = "ready" /\ jobs[j].pending
              => jobs[j].retries < DeliveryTries

\* A delivery that failed is not held back by delivery_paused: CreateRetry
\* does not clear the flag, so a paused row in this status would be put back
\* in the queue and never be claimed.
RetriedMailIsNotPaused ==
    \A j \in JobIds :
        jobs[j].status \in {"delivering", "delivered", "delivery_failed"}
            => ~jobs[j].paused

PhaseOf(j) ==
    CASE jobs[j].status \in {"queued", "processing"} -> "waiting"
      [] jobs[j].status \in Published              -> "published"
      [] jobs[j].status = "failed"                 -> "failed"
      [] jobs[j].status = "none" /\ j <= lastJob   -> "removed"
      [] OTHER                                     -> "absent"

Lifecycle == INSTANCE JobLifecycle WITH
    Jobs  <- JobIds,
    Pdfs  <- [name : FileNames, sum : 1..MaxTokens],
    NoPdf <- NoArtifact,
    phase <- [j \in JobIds |-> PhaseOf(j)],
    pdf   <- [j \in JobIds |-> jobs[j].artifact]

\* Stages, leases, expiries, retries and email never show in what a job
\* promises: every transaction is a step of JobLifecycle or none at all.
ImplementsLifecycle == Lifecycle!Spec

=============================================================================
