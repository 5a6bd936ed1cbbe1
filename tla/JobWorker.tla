----------------------------- MODULE JobWorker -----------------------------
(***************************************************************************)
(* The runner of internal/application/worker.go over the jobs table and    *)
(* the artifact files of internal/filesystem, with the operations of       *)
(* internal/application/archive.go around it.                              *)
(*                                                                         *)
(* A worker is one server process.  A process that was replaced but has    *)
(* not noticed, or a second replica, is a second worker.  What can go      *)
(* wrong is named in Adversity and may happen MaxAdverse times:            *)
(*   late    a lease runs out while its holder is still at work            *)
(*   crash   the process ends, or is told to, between two steps            *)
(*   write   a statement on the row fails, applied or not                  *)
(*   commit  Complete fails, applied or not                                *)
(*   disk    writing or removing a file fails                              *)
(***************************************************************************)
EXTENDS JobStore

CONSTANTS
    Workers,        \* server processes
    MaxAttempts,    \* worker option MaxAttempts
    Backoff,        \* requeue delay per attempt (250 ms)
    MaxBeats,       \* bound: renewals under one lease
    MaxSources,     \* bound: returns to fetching under one lease
    Adversity,      \* kinds of adverse events of the run
    MaxAdverse      \* bound: adverse events

ASSUME WorkerAssumption ==
    /\ MaxAttempts \in Nat \ {0} /\ Backoff \in Nat
    /\ MaxAttempts * Backoff <= MaxWait
    /\ MaxBeats \in Nat /\ MaxSources \in Nat /\ MaxAdverse \in Nat
    /\ Adversity \subseteq {"late", "crash", "write", "commit", "disk"}

VARIABLES
    worker,         \* the position and the lease of each worker
    files,          \* the file under each storage key
    deletion,       \* the DeleteJob call in progress
    adverse         \* adverse events so far

workerVars == <<worker, files, deletion, adverse>>
vars == <<storeVars, workerVars>>

NoFile == NoToken
NoJob == 0

AgeCap == MaxAttempts * Backoff

\* Positions between the steps of RunOnce.  A worker that stopped has
\* returned an error from Run because it lost a lease; one that is down
\* crashed or met a storage failure.
Idle == [pc |-> "idle", job |-> NoJob, token |-> NoToken, version |-> 0,
         attempt |-> 0, age |-> 0, stage |-> "none", beats |-> 0,
         beaten |-> FALSE, sources |-> 0, name |-> NoName,
         retry |-> FALSE, forgiven |-> FALSE]

Leased(j, row) ==
    [Idle EXCEPT !.pc = "process", !.job = j, !.token = row.token,
                 !.version = row.version, !.attempt = row.attempts,
                 !.stage = "fetching"]

\* handleProcessingError is next.  The error of a lost lease is forgiven only
\* after a failed Complete.
Failing(u, retry) == [u EXCEPT !.pc = "fail", !.retry = retry]

Parked(pc) == [Idle EXCEPT !.pc = pc]

SetWorker(w, u) == worker' = [worker EXCEPT ![w] = u]
At(w, pc) == worker[w].pc = pc
KeyOf(w) == <<worker[w].job, worker[w].name>>

Holds(w) == LeaseHeld(worker[w].job, worker[w].token, worker[w].version)
HoldsProcessing(w) ==
    ProcessingHeld(worker[w].job, worker[w].token, worker[w].version)

\* SetStage and Complete scan lease_token into a string that cannot be NULL:
\* of a row without a lease they report a storage failure, not a lost lease.
ReadsNull(w) == Exists(worker[w].job) /\ jobs[worker[w].job].token = NoToken

Adverse(kind) ==
    kind \in Adversity /\ adverse < MaxAdverse /\ adverse' = adverse + 1

WorkerInit ==
    /\ StoreInit
    /\ worker = [w \in Workers |-> Idle]
    /\ files = [k \in Keys |-> NoFile]
    /\ deletion = [pc |-> "idle", job |-> NoJob, name |-> NoName]
    /\ adverse = 0

-----------------------------------------------------------------------------
(* RunOnce: claim *)

Claim(w) ==
    /\ At(w, "idle")
    /\ \E locked \in SUBSET JobIds : ClaimNext(locked)
    /\ \E j \in JobIds :
          /\ jobs'[j].token = lastToken'
          /\ SetWorker(w, Leased(j, jobs'[j]))
    /\ UNCHANGED <<files, deletion, adverse>>

PollEmpty(w) ==
    /\ At(w, "idle")
    /\ \E locked \in SUBSET JobIds : ClaimNothing(locked)
    /\ UNCHANGED workerVars

-----------------------------------------------------------------------------
(* RunOnce: Process, which reports stages, beside renewDuringProcess *)

\* The stages Process and processPage report next.
ReportsNext(u) ==
    CASE u.stage = "fetching"     -> {"extracting"}
                                        \cup (IF u.sources = 0 THEN {"formatting"} ELSE {})
      [] u.stage = "extracting"   -> {"ai_analyzing"}
      [] u.stage = "ai_analyzing" -> {"formatting"}
      [] OTHER                    -> {}

\* The next source, the fallback and browser recovery all start over.
MayStartOver(u) ==
    u.stage \in {"fetching", "ai_analyzing", "formatting"} /\ u.sources < MaxSources

Reports(u) == ReportsNext(u) \cup (IF MayStartOver(u) THEN {"fetching"} ELSE {})

Observed(u, stage) ==
    [u EXCEPT !.stage = stage, !.version = @ + 1,
              !.sources = IF stage = "fetching" THEN @ + 1 ELSE @]

ReportStage(w) ==
    LET u == worker[w] IN
    /\ At(w, "process")
    /\ \E stage \in Reports(u) :
          /\ SetStage(u.job, u.token, u.version, stage)
          /\ SetWorker(w, Observed(u, stage))
    /\ UNCHANGED <<files, deletion, adverse>>

\* ErrLeaseLost from the processor ends RunOnce quietly; a storage failure is
\* not a ProcessingError and so becomes a failure that is not retried.
ReportLost(w) ==
    LET u == worker[w] IN
    /\ At(w, "process")
    /\ Reports(u) # {}
    /\ ~HoldsProcessing(w)
    /\ SetWorker(w, IF ReadsNull(w) THEN Failing(u, FALSE) ELSE Idle)
    /\ UNCHANGED <<storeVars, files, deletion, adverse>>

ReportBroken(w) ==
    LET u == worker[w] IN
    /\ At(w, "process")
    /\ Adverse("write")
    /\ \E stage \in Reports(u) :
          SetStage(u.job, u.token, u.version, stage) \/ UNCHANGED storeVars
    /\ SetWorker(w, Failing(u, FALSE))
    /\ UNCHANGED <<files, deletion>>

\* At most one renewal per unit of time: the heartbeat interval.
BeatDue(w) ==
    At(w, "process") /\ ~worker[w].beaten /\ worker[w].beats < MaxBeats

Heartbeat(w) ==
    LET u == worker[w] IN
    /\ BeatDue(w)
    /\ RenewLease(u.job, u.token, u.version)
    /\ SetWorker(w, [u EXCEPT !.version = @ + 1, !.beats = @ + 1, !.beaten = TRUE])
    /\ UNCHANGED <<files, deletion, adverse>>

\* The heartbeat cancels the processor; whatever it returns is dropped.
HeartbeatLost(w) ==
    /\ BeatDue(w)
    /\ ~Holds(w)
    /\ SetWorker(w, Idle)
    /\ UNCHANGED <<storeVars, files, deletion, adverse>>

\* Another renewal error cancels the processor and asks for a retry, unless
\* the processor has already failed for a reason of its own.
HeartbeatBroken(w) ==
    LET u == worker[w] IN
    /\ BeatDue(w)
    /\ Adverse("write")
    /\ RenewLease(u.job, u.token, u.version) \/ UNCHANGED storeVars
    /\ \E retry \in BOOLEAN : SetWorker(w, Failing(u, retry))
    /\ UNCHANGED <<files, deletion>>

\* The results of Process: a PDF under a name, or an error.
Returned(u) ==
    {Failing(u, retry) : retry \in BOOLEAN}
        \cup (IF u.stage = "formatting"
              THEN {[u EXCEPT !.pc = "persist", !.name = n] : n \in FileNames}
              ELSE {})

ProcessReturns(w) ==
    /\ At(w, "process")
    /\ \E u \in Returned(worker[w]) : SetWorker(w, u)
    /\ UNCHANGED <<storeVars, files, deletion, adverse>>

\* Process returns while a renewal is under way.  Cancelling it does not undo
\* it: the row has moved on and the worker has not seen it.
ReturnsDuringRenewal(w) ==
    LET u == worker[w] IN
    /\ BeatDue(w)
    /\ Adverse("write")
    /\ RenewLease(u.job, u.token, u.version)
    /\ \E v \in Returned(u) : SetWorker(w, v)
    /\ UNCHANGED <<files, deletion>>

-----------------------------------------------------------------------------
(* RunOnce: persist, without a heartbeat *)

Persist(w) ==
    LET u == worker[w] IN
    /\ At(w, "persist")
    /\ SetStage(u.job, u.token, u.version, "persisting")
    /\ SetWorker(w, [u EXCEPT !.pc = "put", !.stage = "persisting", !.version = @ + 1])
    /\ UNCHANGED <<files, deletion, adverse>>

PersistLost(w) ==
    /\ At(w, "persist")
    /\ ~HoldsProcessing(w)
    /\ SetWorker(w, IF ReadsNull(w) THEN Parked("stopped") ELSE Idle)
    /\ UNCHANGED <<storeVars, files, deletion, adverse>>

PersistBroken(w) ==
    LET u == worker[w] IN
    /\ At(w, "persist")
    /\ Adverse("write")
    /\ SetStage(u.job, u.token, u.version, "persisting") \/ UNCHANGED storeVars
    /\ SetWorker(w, Parked("down"))
    /\ UNCHANGED <<files, deletion>>

\* The rename replaces whatever file had the key.
Put(w) ==
    /\ At(w, "put")
    /\ files' = [files EXCEPT ![KeyOf(w)] = worker[w].token]
    /\ SetWorker(w, [worker[w] EXCEPT !.pc = "commit"])
    /\ UNCHANGED <<storeVars, deletion, adverse>>

\* Mutant of PutBroken: the error is not looked at.
PutBrokenIgnored(w) ==
    /\ At(w, "put")
    /\ Adverse("disk")
    /\ SetWorker(w, [worker[w] EXCEPT !.pc = "commit"])
    /\ UNCHANGED <<storeVars, files, deletion>>

\* Before the rename nothing changed; after it the file stays if the directory
\* could not be synchronized and goes if it could not be verified.
PutBroken(w) ==
    /\ At(w, "put")
    /\ Adverse("disk")
    /\ \E content \in {files[KeyOf(w)], worker[w].token, NoFile} :
          files' = [files EXCEPT ![KeyOf(w)] = content]
    /\ SetWorker(w, Failing(worker[w], TRUE))
    /\ UNCHANGED <<storeVars, deletion>>

\* Mutant of CommitOk: the row is written without a look at the lease.
CommitOkUnchecked(w) ==
    LET u == worker[w] IN
    /\ At(w, "commit")
    /\ SetRow(u.job, Completed(jobs[u.job], [name |-> u.name, sum |-> u.token]))
    /\ SetWorker(w, Idle)
    /\ UNCHANGED <<lastJob, tokenVars, tasks, files, deletion, adverse>>

CommitOk(w) ==
    LET u == worker[w] IN
    /\ At(w, "commit")
    /\ Complete(u.job, u.token, u.version, u.name)
    /\ SetWorker(w, Idle)
    /\ UNCHANGED <<files, deletion, adverse>>

\* Mutant of CommitLost: the file of the lost lease is left where it is.
CommitLostKeepsFile(w) ==
    /\ At(w, "commit")
    /\ ~HoldsProcessing(w)
    /\ SetWorker(w, [Failing(worker[w], TRUE) EXCEPT !.forgiven = TRUE])
    /\ UNCHANGED <<storeVars, files, deletion, adverse>>

CommitLost(w) ==
    /\ At(w, "commit")
    /\ ~HoldsProcessing(w)
    /\ SetWorker(w, [worker[w] EXCEPT !.pc = "undo"])
    /\ UNCHANGED <<storeVars, files, deletion, adverse>>

CommitBroken(w) ==
    LET u == worker[w] IN
    /\ At(w, "commit")
    /\ Adverse("commit")
    /\ Complete(u.job, u.token, u.version, u.name) \/ UNCHANGED storeVars
    /\ SetWorker(w, [u EXCEPT !.pc = "undo"])
    /\ UNCHANGED <<files, deletion>>

\* The file goes by its key, whoever wrote it last.
Undo(w) ==
    /\ At(w, "undo")
    /\ files' = [files EXCEPT ![KeyOf(w)] = NoFile]
    /\ SetWorker(w, [Failing(worker[w], TRUE) EXCEPT !.forgiven = TRUE])
    /\ UNCHANGED <<storeVars, deletion, adverse>>

UndoBroken(w) ==
    /\ At(w, "undo")
    /\ Adverse("disk")
    /\ SetWorker(w, [Failing(worker[w], TRUE) EXCEPT !.forgiven = TRUE])
    /\ UNCHANGED <<storeVars, files, deletion>>

-----------------------------------------------------------------------------
(* handleProcessingError *)

\* The backoff counts from the instant of the claim.
RetryWait(u) ==
    IF u.attempt * Backoff > u.age THEN u.attempt * Backoff - u.age ELSE 0

Settle(u) ==
    IF u.retry /\ u.attempt < MaxAttempts
    THEN Requeue(u.job, u.token, u.version, RetryWait(u))
    ELSE Fail(u.job, u.token, u.version)

HandleError(w) ==
    /\ At(w, "fail")
    /\ Settle(worker[w])
    /\ SetWorker(w, Idle)
    /\ UNCHANGED <<files, deletion, adverse>>

HandleErrorLost(w) ==
    /\ At(w, "fail")
    /\ ~Holds(w)
    /\ SetWorker(w, IF worker[w].forgiven THEN Idle ELSE Parked("stopped"))
    /\ UNCHANGED <<storeVars, files, deletion, adverse>>

HandleErrorBroken(w) ==
    /\ At(w, "fail")
    /\ Adverse("write")
    /\ Settle(worker[w]) \/ UNCHANGED storeVars
    /\ SetWorker(w, Parked("down"))
    /\ UNCHANGED <<files, deletion>>

-----------------------------------------------------------------------------
(* The process ends and the supervisor starts it again *)

Crash(w) ==
    /\ worker[w].pc \notin {"idle", "stopped", "down"}
    /\ Adverse("crash")
    /\ SetWorker(w, Parked("down"))
    /\ UNCHANGED <<storeVars, files, deletion>>

Restart(w) ==
    /\ worker[w].pc \in {"stopped", "down"}
    /\ SetWorker(w, Idle)
    /\ UNCHANGED <<storeVars, files, deletion, adverse>>

-----------------------------------------------------------------------------
(* The archive's callers *)

SubmitURL == CreateJob(FALSE) /\ UNCHANGED workerVars

RetryJob(j) == CreateRetry(j) /\ UNCHANGED workerVars

\* DeleteJob: Get, then RequestDelete, then the file Get saw.
DeleteRead(j) ==
    /\ deletion.pc = "idle"
    /\ Exists(j)
    /\ deletion' = [pc |-> "delete", job |-> j, name |-> jobs[j].artifact.name]
    /\ UNCHANGED <<storeVars, worker, files, adverse>>

DeleteRow ==
    /\ deletion.pc = "delete"
    /\ IF Exists(deletion.job)
       THEN /\ RequestDelete(deletion.job)
            /\ deletion' = [deletion EXCEPT !.pc = "file"]
       ELSE /\ UNCHANGED storeVars
            /\ deletion' = [pc |-> "idle", job |-> NoJob, name |-> NoName]
    /\ UNCHANGED <<worker, files, adverse>>

DeleteFile ==
    /\ deletion.pc = "file"
    /\ files' = IF deletion.name = NoName THEN files
                ELSE [files EXCEPT ![<<deletion.job, deletion.name>>] = NoFile]
    /\ deletion' = [pc |-> "idle", job |-> NoJob, name |-> NoName]
    /\ UNCHANGED <<storeVars, worker, adverse>>

\* CleanupOnce for one task.  Removing the file again is harmless, so a crash
\* before the task is marked only repeats the step.
Cleanup(key) ==
    /\ FinishTask(key)
    /\ files' = [files EXCEPT ![key] = NoFile]
    /\ UNCHANGED <<worker, deletion, adverse>>

-----------------------------------------------------------------------------
(* Time *)

Working(w) == worker[w].pc \notin {"idle", "stopped", "down"}

RunsOut(w) ==
    /\ Working(w)
    /\ jobs[worker[w].job].token = worker[w].token
    /\ jobs[worker[w].job].lease = 1

Older(u) ==
    IF u.pc \in {"idle", "stopped", "down"} THEN u
    ELSE [u EXCEPT !.age = IF @ < AgeCap THEN @ + 1 ELSE @, !.beaten = FALSE]

Pass ==
    /\ Tick
    /\ worker' = [w \in Workers |-> Older(worker[w])]
    /\ IF \E w \in Workers : RunsOut(w) THEN Adverse("late") ELSE UNCHANGED adverse
    /\ UNCHANGED <<files, deletion>>

-----------------------------------------------------------------------------

WorkerStep(w) ==
    \/ Claim(w)
    \/ ReportStage(w) \/ ReportLost(w)
    \/ HeartbeatLost(w)
    \/ ProcessReturns(w)
    \/ Persist(w) \/ PersistLost(w)
    \/ Put(w)
    \/ CommitOk(w) \/ CommitLost(w)
    \/ Undo(w)
    \/ HandleError(w) \/ HandleErrorLost(w)
    \/ Restart(w)

Mishap(w) ==
    \/ ReportBroken(w) \/ HeartbeatBroken(w) \/ ReturnsDuringRenewal(w)
    \/ PersistBroken(w) \/ PutBroken(w) \/ CommitBroken(w)
    \/ UndoBroken(w) \/ HandleErrorBroken(w)
    \/ Crash(w)

Caller ==
    \/ SubmitURL
    \/ \E j \in JobIds : RetryJob(j) \/ DeleteRead(j)
    \/ DeleteRow \/ DeleteFile
    \/ \E key \in tasks : Cleanup(key)

Next ==
    \/ \E w \in Workers : WorkerStep(w) \/ Mishap(w) \/ Heartbeat(w) \/ PollEmpty(w)
    \/ Caller
    \/ Pass

Spec == WorkerInit /\ [][Next]_vars

\* A live process keeps running its loop, the supervisor restarts a dead one
\* (restart: unless-stopped), the cleanup loop runs, and time passes.  Nothing
\* is assumed of the callers or of when heartbeats happen.
Fairness ==
    /\ \A w \in Workers : WF_vars(WorkerStep(w))
    /\ WF_vars(DeleteRow) /\ WF_vars(DeleteFile)
    /\ WF_vars(\E key \in tasks : Cleanup(key))
    /\ WF_vars(Pass)

FairSpec == Spec /\ Fairness

-----------------------------------------------------------------------------
(* Properties *)

\* Whenever the store would accept a worker's lease, what the worker remembers
\* of the row is what the row says: no write, seen or unseen, leaves a lease
\* usable with a stale stage or attempt count (the version check).
HeldLeaseIsAccurate ==
    \A w \in Workers :
        Working(w) /\ Holds(w)
            => /\ jobs[worker[w].job].status = "processing"
               /\ jobs[worker[w].job].stage = worker[w].stage
               /\ jobs[worker[w].job].attempts = worker[w].attempt

\* The PDF of every job that has one can be opened: the file is there and is
\* the one whose checksum was committed (Open in internal/filesystem).
PublishedReadable ==
    \A j \in JobIds :
        jobs[j].artifact # NoArtifact
            => files[<<j, jobs[j].artifact.name>>] = jobs[j].artifact.sum

\* No file is forgotten: it belongs to a job, or to a queued deletion task, or
\* to a worker that is about to commit or remove it.
FilesAccounted ==
    \A k \in Keys :
        files[k] # NoFile
            => \/ jobs[k[1]].artifact.name = k[2]
               \/ k \in tasks
               \/ \E w \in Workers : worker[w].pc \in {"commit", "undo"} /\ KeyOf(w) = k

\* Seen from the table, the runner is one of the callers JobStore allows for:
\* what is proved of StoreSpec holds of the table the workers use.
ImplementsStore == StoreSpec

\* Every job that is accepted settles: it is published, fails or is deleted.
JobSettles ==
    \A j \in JobIds :
        jobs[j].status \in {"queued", "processing"}
            ~> jobs[j].status \notin {"queued", "processing"}

=============================================================================
