---------------------------- MODULE WorkerProofs ----------------------------
(***************************************************************************)
(* The processing workers, however many there are, however late they are   *)
(* and whatever fails under them: they use the jobs table as JobStore      *)
(* allows, they never act on a lease whose row they have lost sight of,    *)
(* they lose no file as long as the process and its disk work, and a       *)
(* single one of them never publishes a PDF that cannot be read.           *)
(***************************************************************************)
EXTENDS JobWorker, JobStoreProofs

Resting == {"idle", "stopped", "down"}

Positions == Resting \cup {"process", "persist", "put", "commit", "undo", "fail"}

WorkerRow ==
    [pc : Positions, job : JobIds \cup {NoJob}, token : Nat, version : Nat,
     attempt : Nat, age : Nat, stage : Stages \cup {"none"}, beats : Nat,
     beaten : BOOLEAN, sources : Nat, name : FileNames \cup {NoName},
     retry : BOOLEAN, forgiven : BOOLEAN]

\* A worker that is at work holds, or held, a processing lease of a job that
\* was created, and has a name for the PDF from the end of Process on.
LeaseTokens == (1..lastToken) \ mailTokens

AtWork(u, newest, tokens) ==
    /\ u.job \in JobIds /\ u.job <= newest
    /\ u.token \in tokens
    /\ u.pc \in {"persist", "put", "commit", "undo"} => u.name \in FileNames

\* What worker u believes of row r, should r still be under u's token: the row
\* is u's to process and is what u last saw, or has moved on to a version that
\* u does not know.
Fits(u, r) ==
    r.token = u.token =>
        /\ r.status = "processing"
        /\ u.version <= r.version
        /\ u.version = r.version => r.stage = u.stage /\ r.attempts = u.attempt

WorkersKnown ==
    /\ worker \in [Workers -> WorkerRow]
    /\ \A w \in Workers : Working(w) => AtWork(worker[w], lastJob, LeaseTokens)

LeasesFit == \A w \in Workers : Working(w) => Fits(worker[w], jobs[worker[w].job])

DeletionRow == [pc : {"idle", "delete", "file"}, job : JobIds \cup {NoJob},
                name : FileNames \cup {NoName}]

FilesKnown ==
    /\ files \in [Keys -> Nat]
    /\ deletion \in DeletionRow
    /\ deletion.pc # "idle" => deletion.job \in JobIds

\* The inductive invariant.
WorkerInv == LifeInv /\ WorkersKnown /\ LeasesFit /\ FilesKnown

\* With a single worker: it is at work on a job without a PDF, the file that it
\* is about to commit is its own unless the job was deleted, and files are only
\* removed for jobs that are gone.
Gone(j) == jobs[j].status = "none" /\ j <= lastJob

SoleWorker == \A v, w \in Workers : v = w

OwnJobOpen ==
    \A w \in Workers : Working(w) => jobs[worker[w].job].artifact = NoArtifact

OwnFile ==
    \A w \in Workers : At(w, "commit") =>
        files[KeyOf(w)] = worker[w].token \/ Gone(worker[w].job)

RemovalsOfGone ==
    /\ \A key \in tasks : Gone(key[1])
    /\ deletion.pc = "file" => Gone(deletion.job)

SoleInv == WorkerInv /\ OwnJobOpen /\ OwnFile /\ RemovalsOfGone /\ PublishedReadable

USE DEF NoToken, NoName, NoJob, NoFile

-----------------------------------------------------------------------------
(* What a transaction other than Complete makes of rows *)

\* A row drops its lease, or keeps it and moves to a new version, or shows a
\* lease holder nothing new.
Lawful(r, n) ==
    \/ n.token = NoToken
    \/ /\ n.token = r.token /\ n.status = r.status
       /\ \/ n.version > r.version
          \/ n.version = r.version /\ n.stage = r.stage /\ n.attempts = r.attempts

\* Leases come from the claim of this step or are old ones, lawfully kept; a
\* PDF goes only with its row, and then its file is left to a task; ids do not
\* come back.
RowMoves(j) ==
    /\ Lawful(jobs[j], jobs'[j]) \/ jobs'[j].token > lastToken
    /\ \/ jobs'[j].artifact = jobs[j].artifact
       \/ /\ jobs'[j] = NoRow
          /\ jobs[j].artifact # NoArtifact => <<j, jobs[j].artifact.name>> \in tasks'
    /\ Gone(j) => Gone(j)'

HeldCall(j, token) ==
    \/ RenewLease(j, token, jobs[j].version)
    \/ \E stage \in Stages : SetStage(j, token, jobs[j].version, stage)
    \/ \E wait \in 0..MaxWait : Requeue(j, token, jobs[j].version, wait)
    \/ Fail(j, token, jobs[j].version)

\* The transactions of workers and callers that publish nothing and finish no
\* deletion task.
Quiet ==
    \/ UNCHANGED storeVars
    \/ CreateJob(FALSE)
    \/ \E locked \in SUBSET JobIds : ClaimNext(locked) \/ ClaimNothing(locked)
    \/ \E j \in JobIds, token \in (1..lastToken) \ mailTokens : HeldCall(j, token)
    \/ \E j \in JobIds : CreateRetry(j) \/ RequestDelete(j)
    \/ Tick

LEMMA QuietIsStoreStep == ASSUME Quiet PROVE StoreNext \/ UNCHANGED storeVars
  BY DEF Quiet, StoreNext, JobCall, LeaseCall, HeldCall

LEMMA LawfulHeld ==
  ASSUME NEW r \in Row, NEW stage, NEW wait, NEW a
  PROVE  /\ Lawful(r, Renewed(r)) /\ Lawful(r, Staged(r, stage))
         /\ Lawful(r, Requeued(r, wait)) /\ Lawful(r, Failed(r)) /\ Lawful(r, Reclaimed(r))
         /\ Lawful(r, DeliveryExpired(r)) /\ Lawful(r, Aged(r)) /\ Lawful(r, r)
         /\ Lawful(r, Completed(r, a))
<1>0. r.version \in Nat
  BY Fields
<1>1. Lawful(r, Renewed(r))
  BY <1>0 DEF Lawful, Renewed, Row
<1>2. Lawful(r, Staged(r, stage))
  BY <1>0 DEF Lawful, Staged, Row
<1>3. Lawful(r, Requeued(r, wait))
  BY DEF Lawful, Requeued, Leaseless, Row
<1>4. Lawful(r, Failed(r))
  BY DEF Lawful, Failed, Leaseless, Row
<1>5. Lawful(r, Reclaimed(r))
  BY DEF Lawful, Reclaimed, Leaseless, Row
<1>6. Lawful(r, DeliveryExpired(r))
  BY DEF Lawful, DeliveryExpired, Leaseless, Row
<1>7. Lawful(r, Aged(r))
  BY <1>0 DEF Lawful, Aged, Row
<1>8. Lawful(r, r)
  BY <1>0 DEF Lawful
<1>9. Lawful(r, Completed(r, a))
  BY DEF Lawful, Completed, Leaseless, Row
<1>. QED BY <1>1, <1>2, <1>3, <1>4, <1>5, <1>6, <1>7, <1>8, <1>9

LEMMA LawfulSwept == ASSUME NEW r \in Row PROVE Lawful(r, Swept(r))
<1>1. CASE r.status = "delivering" /\ r.lease = 0
  BY <1>1, LawfulHeld DEF Swept
<1>2. CASE r.status = "processing" /\ r.lease = 0
  <2>1. Swept(r) = Reclaimed(r)
    BY <1>2 DEF Swept
  <2>. QED BY <2>1, LawfulHeld
<1>3. CASE ~(r.status \in {"delivering", "processing"} /\ r.lease = 0)
  <2>1. Swept(r) = r
    BY <1>3 DEF Swept
  <2>. QED BY <2>1, LawfulHeld
<1>. QED BY <1>1, <1>2, <1>3

LEMMA RowsMove ==
  ASSUME lastJob' = lastJob,
         \A j \in JobIds : /\ Lawful(jobs[j], jobs'[j]) \/ jobs'[j].token > lastToken
                           /\ SamePhase(jobs[j], jobs'[j])
  PROVE  \A j \in JobIds : RowMoves(j)
  BY DEF RowMoves, SamePhase, Gone

LEMMA OneRowLawful ==
  ASSUME LifeInv, NEW j \in JobIds, NEW STATE n, SetRow(j, n), lastJob' = lastJob,
         Lawful(jobs[j], n), n.artifact = jobs[j].artifact, jobs[j].status # "none"
  PROVE  \A i \in JobIds : RowMoves(i)
<1>1. \A i \in JobIds : jobs[i] \in Row
  BY DEF LifeInv, StoreInv, StoreTypeOK
<1>2. jobs'[j] = n /\ \A i \in JobIds \ {j} : jobs'[i] = jobs[i]
  BY DEF SetRow, LifeInv, StoreInv, StoreTypeOK
<1>3. RowMoves(j)
  BY <1>2 DEF RowMoves, Gone
<1>4. \A i \in JobIds \ {j} : RowMoves(i)
  BY <1>1, <1>2, LawfulHeld DEF RowMoves, Gone
<1>. QED BY <1>3, <1>4

LEMMA CreateMoves ==
  ASSUME LifeInv, CreateJob(FALSE)
  PROVE  \A i \in JobIds : RowMoves(i)
<1> DEFINE j == lastJob + 1
<1>1. j \in JobIds /\ lastJob \in Nat /\ lastJob' = j
  BY StoreAssumption DEF LifeInv, StoreInv, StoreTypeOK, CreateJob, JobIds
<1>2. jobs'[j] = NewRow(FALSE) /\ \A i \in JobIds \ {j} : jobs'[i] = jobs[i]
  BY <1>1 DEF CreateJob, SetRow, LifeInv, StoreInv, StoreTypeOK
<1>3. jobs[j].artifact = NoArtifact
  BY <1>1 DEF LifeInv, InOrder, StoreInv, RowGood, Published
<1>4. NewRow(FALSE).artifact = NoArtifact /\ NewRow(FALSE).token = NoToken
  BY DEF NewRow, NoRow
<1>5. ASSUME NEW i \in JobIds, i = j PROVE RowMoves(i)
  <2>1. ~Gone(i)
    BY <1>1, <1>5 DEF Gone
  <2>2. jobs'[i].artifact = jobs[i].artifact /\ jobs'[i].token = NoToken
    BY <1>2, <1>3, <1>4, <1>5
  <2>. QED BY <2>1, <2>2 DEF RowMoves, Lawful
<1>6. ASSUME NEW i \in JobIds, i # j PROVE RowMoves(i)
  <2>1. i \in Nat /\ jobs[i] \in Row /\ jobs'[i] = jobs[i]
    BY <1>2, <1>6 DEF JobIds, LifeInv, StoreInv, StoreTypeOK
  <2>2. Lawful(jobs[i], jobs'[i])
    BY <2>1, LawfulHeld
  <2>. QED BY <1>1, <2>1, <2>2 DEF RowMoves, Gone
<1>. QED BY <1>5, <1>6

LEMMA ClaimMoves ==
  ASSUME LifeInv, NEW locked \in SUBSET JobIds, ClaimNext(locked)
  PROVE  /\ \A i \in JobIds : RowMoves(i)
         /\ \A i \in JobIds : jobs'[i].token = lastToken + 1
               => jobs'[i].status = "processing" /\ jobs'[i].stage = "fetching"
<1> DEFINE swept == [i \in JobIds |-> Swept(jobs[i])]
<1>0. /\ \A i \in JobIds : jobs[i] \in Row /\ RowGood(jobs[i]) /\ jobs[i].token <= lastToken
      /\ lastToken \in Nat
  BY DEF LifeInv, StoreInv, StoreTypeOK, LeasesAreExclusive
<1>1. PICK j \in Claimable(swept) \ locked :
         jobs' = [swept EXCEPT ![j] = Claimed(@, lastToken + 1)]
  BY DEF ClaimNext
<1>2. j \in JobIds /\ swept[j].status = "queued" /\ lastJob' = lastJob
  BY <1>1 DEF Claimable, ClaimNext
<1>3. \A i \in JobIds : swept[i] \in Row /\ Lawful(jobs[i], swept[i]) /\ SamePhase(jobs[i], swept[i])
  BY <1>0, SweptGood, SamePhaseSwept, LawfulSwept DEF Follows
<1>4. \A i \in JobIds : swept[i].token <= lastToken
  BY <1>0, <1>3 DEF Lawful
<1> DEFINE n == Claimed(swept[j], lastToken + 1)
<1>5. jobs'[j] = n /\ \A i \in JobIds \ {j} : jobs'[i] = swept[i]
  BY <1>1, <1>2
<1>6. n.token = lastToken + 1 /\ n.status = "processing" /\ n.stage = "fetching"
  BY <1>2, <1>3 DEF Claimed, Row
<1>7. SamePhase(swept[j], n)
  BY <1>2, <1>3, SamePhaseOther
<1> HIDE DEF swept, n
<1>8. SamePhase(jobs[j], n)
  BY <1>2, <1>3, <1>7 DEF SamePhase
<1>9. \A i \in JobIds : /\ Lawful(jobs[i], jobs'[i]) \/ jobs'[i].token > lastToken
                        /\ SamePhase(jobs[i], jobs'[i])
  BY <1>0, <1>2, <1>3, <1>5, <1>6, <1>8
<1>10. \A i \in JobIds : jobs'[i].token = lastToken + 1
         => jobs'[i].status = "processing" /\ jobs'[i].stage = "fetching"
  BY <1>0, <1>4, <1>5, <1>6
<1>. QED BY <1>2, <1>9, <1>10, RowsMove

LEMMA HeldMoves ==
  ASSUME LifeInv, NEW j \in JobIds, NEW token \in (1..lastToken) \ mailTokens,
         HeldCall(j, token)
  PROVE  \A i \in JobIds : RowMoves(i)
<1> DEFINE r == jobs[j]
<1>0. r \in Row /\ StoreInv
  BY DEF LifeInv, StoreInv, StoreTypeOK
<1>1. CASE RenewLease(j, token, r.version)
  <2>1. SamePhase(r, Renewed(r)) /\ r.status = "processing"
    BY <1>0, <1>1, LeaseHeldProcessing, SamePhaseHeld DEF RenewLease
  <2>. QED BY <1>0, <1>1, <2>1, LawfulHeld, OneRowLawful DEF RenewLease, SamePhase
<1>2. ASSUME NEW stage \in Stages, SetStage(j, token, r.version, stage)
      PROVE  \A i \in JobIds : RowMoves(i)
  <2>1. SamePhase(r, Staged(r, stage)) /\ r.status = "processing"
    BY <1>0, <1>2, SamePhaseHeld DEF SetStage, ProcessingHeld
  <2>. QED BY <1>0, <1>2, <2>1, LawfulHeld, OneRowLawful DEF SetStage, SamePhase
<1>3. ASSUME NEW wait \in 0..MaxWait, Requeue(j, token, r.version, wait)
      PROVE  \A i \in JobIds : RowMoves(i)
  <2>1. SamePhase(r, Requeued(r, wait)) /\ r.status = "processing"
    BY <1>0, <1>3, LeaseHeldProcessing, SamePhaseHeld DEF Requeue
  <2>. QED BY <1>0, <1>3, <2>1, LawfulHeld, OneRowLawful DEF Requeue, SamePhase
<1>4. CASE Fail(j, token, r.version)
  <2>1. r.status = "processing"
    BY <1>0, <1>4, LeaseHeldProcessing DEF Fail
  <2>2. Failed(r).artifact = r.artifact
    BY <1>0 DEF Failed, Leaseless, Row
  <2>. QED BY <1>0, <1>4, <2>1, <2>2, LawfulHeld, OneRowLawful DEF Fail
<1>. QED BY <1>1, <1>2, <1>3, <1>4 DEF HeldCall

LEMMA DeleteMoves ==
  ASSUME LifeInv, NEW j \in JobIds, RequestDelete(j)
  PROVE  (\A i \in JobIds : RowMoves(i)) /\ Gone(j)'
<1>1. jobs'[j] = NoRow /\ \A i \in JobIds \ {j} : jobs'[i] = jobs[i]
  BY DEF RequestDelete, SetRow, LifeInv, StoreInv, StoreTypeOK
<1>2. j <= lastJob /\ lastJob' = lastJob
  BY DEF RequestDelete, Exists, LifeInv, InOrder
<1>3. NoRow.token = NoToken /\ NoRow.status = "none"
  BY DEF NoRow
<1>4. jobs[j].artifact # NoArtifact => <<j, jobs[j].artifact.name>> \in tasks'
  BY DEF RequestDelete
<1>5. RowMoves(j) /\ Gone(j)'
  BY <1>1, <1>2, <1>3, <1>4 DEF RowMoves, Gone, Lawful
<1>6. ASSUME NEW i \in JobIds \ {j} PROVE RowMoves(i)
  <2>1. jobs[i] \in Row
    BY DEF LifeInv, StoreInv, StoreTypeOK
  <2>. QED BY <1>1, <1>2, <2>1, LawfulHeld DEF RowMoves, Gone
<1>. QED BY <1>5, <1>6

LEMMA RetryMoves ==
  ASSUME LifeInv, NEW j \in JobIds, CreateRetry(j)
  PROVE  \A i \in JobIds : RowMoves(i)
<1>1. CASE jobs[j].status = "delivery_failed"
  <2>0. jobs[j] \in Row /\ RowGood(jobs[j])
    BY DEF LifeInv, StoreInv, StoreTypeOK
  <2> DEFINE n == EmailRetried(jobs[j])
  <2>1. SetRow(j, n) /\ lastJob' = lastJob
    BY <1>1 DEF CreateRetry
  <2>2. n.token = jobs[j].token /\ n.artifact = jobs[j].artifact
    BY <2>0 DEF EmailRetried, Row
  <2>3. jobs[j].token = NoToken
    BY <1>1, <2>0 DEF RowGood, SchemaHolds
  <2> HIDE DEF n
  <2>4. Lawful(jobs[j], n)
    BY <2>2, <2>3 DEF Lawful
  <2>. QED BY <1>1, <2>1, <2>2, <2>4, OneRowLawful
<1>2. CASE jobs[j].status # "delivery_failed"
  BY <1>2, CreateMoves DEF CreateRetry
<1>. QED BY <1>1, <1>2

LEMMA QuietMoves ==
  ASSUME LifeInv, Quiet
  PROVE  \A i \in JobIds : RowMoves(i)
<1>0. \A i \in JobIds : jobs[i] \in Row
  BY DEF LifeInv, StoreInv, StoreTypeOK
<1>1. CASE UNCHANGED storeVars
  BY <1>0, <1>1, LawfulHeld DEF storeVars, RowMoves, Gone
<1>2. ASSUME NEW locked \in SUBSET JobIds, ClaimNothing(locked) PROVE \A i \in JobIds : RowMoves(i)
  <2>1. lastJob' = lastJob /\ \A i \in JobIds : jobs'[i] = Swept(jobs[i])
    BY <1>2 DEF ClaimNothing
  <2>. QED BY <1>0, <2>1, LawfulSwept, SamePhaseSwept, RowsMove
<1>3. CASE Tick
  <2>1. lastJob' = lastJob /\ \A i \in JobIds : jobs'[i] = Aged(jobs[i])
    BY <1>3 DEF Tick
  <2>. QED BY <1>0, <2>1, LawfulHeld, SamePhaseOther, RowsMove
<1>. QED BY <1>1, <1>2, <1>3, CreateMoves, ClaimMoves, HeldMoves, DeleteMoves, RetryMoves DEF Quiet

-----------------------------------------------------------------------------
(* Workers: what they remember of their lease *)

\* n goes on under u's lease and has seen nothing new of it.
Kept(u, n) ==
    /\ n \in WorkerRow /\ n.pc \notin Resting
    /\ n.job = u.job /\ n.token = u.token
    /\ n.version = u.version /\ n.stage = u.stage /\ n.attempt = u.attempt
    /\ n.pc \in {"persist", "put", "commit", "undo"} => n.name \in FileNames

\* n has seen u's row move to its next version, at the given stage.
Advanced(u, n, stage) ==
    /\ n \in WorkerRow /\ n.pc \notin Resting
    /\ n.job = u.job /\ n.token = u.token
    /\ n.version = u.version + 1 /\ n.stage = stage /\ n.attempt = u.attempt
    /\ n.pc \in {"persist", "put", "commit", "undo"} => n.name \in FileNames

LEMMA RestingRows ==
  /\ Idle \in WorkerRow /\ Idle.pc = "idle"
  /\ Parked("stopped") \in WorkerRow /\ Parked("stopped").pc = "stopped"
  /\ Parked("down") \in WorkerRow /\ Parked("down").pc = "down"
<1>1. Idle \in WorkerRow /\ Idle.pc = "idle"
  BY DEF Idle, WorkerRow, Positions, Resting
<1>2. ASSUME NEW pc \in Positions PROVE Parked(pc) \in WorkerRow /\ Parked(pc).pc = pc
  BY <1>1 DEF Parked, WorkerRow
<1>. QED BY <1>1, <1>2 DEF Positions, Resting

LEMMA WorkerFields ==
  ASSUME NEW u \in WorkerRow
  PROVE  /\ u.pc \in Positions /\ u.version \in Nat /\ u.token \in Nat /\ u.attempt \in Nat
         /\ u.age \in Nat /\ u.beats \in Nat /\ u.sources \in Nat
         /\ u.stage \in Stages \cup {"none"} /\ u.name \in FileNames \cup {NoName}
         /\ u.version + 1 \in Nat /\ u.beats + 1 \in Nat /\ u.sources + 1 \in Nat
         /\ u.age + 1 \in Nat
<1>1. /\ u.pc \in Positions /\ u.version \in Nat /\ u.token \in Nat /\ u.attempt \in Nat
      /\ u.age \in Nat /\ u.beats \in Nat /\ u.sources \in Nat
      /\ u.stage \in Stages \cup {"none"} /\ u.name \in FileNames \cup {NoName}
  BY DEF WorkerRow
<1>. QED BY <1>1

\* The records of the steps of RunOnce.
LEMMA KeptRows ==
  ASSUME NEW u \in WorkerRow
  PROVE  /\ \A retry \in BOOLEAN : Kept(u, Failing(u, retry))
         /\ Kept(u, [Failing(u, TRUE) EXCEPT !.forgiven = TRUE])
         /\ \A name \in FileNames : Kept(u, [u EXCEPT !.pc = "persist", !.name = name])
         /\ u.name \in FileNames => Kept(u, [u EXCEPT !.pc = "commit"])
         /\ u.name \in FileNames => Kept(u, [u EXCEPT !.pc = "undo"])
<1>0. \A pc \in {"fail", "persist", "put", "commit", "undo"} : pc \in Positions /\ pc \notin Resting
  BY DEF Positions, Resting
<1>1. ASSUME NEW retry \in BOOLEAN PROVE Kept(u, Failing(u, retry))
  BY <1>0 DEF Failing, Kept, WorkerRow
<1>2. Kept(u, [Failing(u, TRUE) EXCEPT !.forgiven = TRUE])
  BY <1>0 DEF Failing, Kept, WorkerRow
<1>3. ASSUME NEW name \in FileNames PROVE Kept(u, [u EXCEPT !.pc = "persist", !.name = name])
  BY <1>0 DEF Kept, WorkerRow
<1>4. u.name \in FileNames => Kept(u, [u EXCEPT !.pc = "commit"])
  BY <1>0 DEF Kept, WorkerRow
<1>5. u.name \in FileNames => Kept(u, [u EXCEPT !.pc = "undo"])
  BY <1>0 DEF Kept, WorkerRow
<1>. QED BY <1>1, <1>2, <1>3, <1>4, <1>5

LEMMA AdvancedRows ==
  ASSUME NEW u \in WorkerRow, u.pc \notin Resting
  PROVE  /\ \A stage \in Stages : u.pc = "process" => Advanced(u, Observed(u, stage), stage)
         /\ u.pc = "process"
              => Advanced(u, [u EXCEPT !.version = @ + 1, !.beats = @ + 1, !.beaten = TRUE], u.stage)
         /\ u.name \in FileNames
              => Advanced(u, [u EXCEPT !.pc = "put", !.stage = "persisting", !.version = @ + 1],
                          "persisting")
<1>0. "put" \in Positions /\ "put" \notin Resting /\ "persisting" \in Stages
  BY DEF Positions, Resting, Stages
<1>1. ASSUME NEW stage \in Stages, u.pc = "process" PROVE Advanced(u, Observed(u, stage), stage)
  <2> DEFINE s == IF stage = "fetching" THEN u.sources + 1 ELSE u.sources
             n == [u EXCEPT !.stage = stage, !.version = u.version + 1, !.sources = s]
  <2>1. s \in Nat /\ u.version + 1 \in Nat
    BY WorkerFields
  <2>2. n = Observed(u, stage)
    BY DEF Observed
  <2> HIDE DEF s
  <2>3. Advanced(u, n, stage)
    BY <1>1, <2>1 DEF Advanced, WorkerRow
  <2>. QED BY <2>2, <2>3
<1>2. ASSUME u.pc = "process"
      PROVE  Advanced(u, [u EXCEPT !.version = @ + 1, !.beats = @ + 1, !.beaten = TRUE], u.stage)
  <2>1. u.version + 1 \in Nat /\ u.beats + 1 \in Nat
    BY WorkerFields
  <2>. QED BY <1>2, <2>1 DEF Advanced, WorkerRow
<1>3. u.name \in FileNames
        => Advanced(u, [u EXCEPT !.pc = "put", !.stage = "persisting", !.version = @ + 1], "persisting")
  <2>1. u.version + 1 \in Nat
    BY WorkerFields
  <2>. QED BY <1>0, <2>1 DEF Advanced, WorkerRow
<1>. QED BY <1>1, <1>2, <1>3

\* Ids and tokens stay in use, and no lease changes behind its holder's back.
TableGrows ==
    /\ LifeInv'
    /\ lastJob <= lastJob' /\ LeaseTokens \subseteq LeaseTokens'
    /\ \A j \in JobIds : Lawful(jobs[j], jobs'[j]) \/ jobs'[j].token > lastToken

LEMMA FitsStays ==
  ASSUME LifeInv, TableGrows, NEW STATE u, u \in WorkerRow, AtWork(u, lastJob, LeaseTokens),
         Fits(u, jobs[u.job])
  PROVE  AtWork(u, lastJob', LeaseTokens') /\ Fits(u, jobs'[u.job])
<1>1. AtWork(u, lastJob', LeaseTokens')
  <2>1. u.job \in Nat /\ lastJob \in Nat /\ lastJob' \in Nat
    BY DEF AtWork, JobIds, TableGrows, LifeInv, StoreInv, StoreTypeOK
  <2>. QED BY <2>1 DEF AtWork, TableGrows
<1> DEFINE j == u.job
           r == jobs[j]
           n == jobs'[j]
<1>2. r.version \in Nat /\ n.version \in Nat /\ u.version \in Nat /\ j \in JobIds
  <2>1. j \in JobIds /\ r \in Row /\ n \in Row
    BY DEF AtWork, TableGrows, LifeInv, StoreInv, StoreTypeOK
  <2>. QED BY <2>1, Fields, WorkerFields
<1>3. u.token # NoToken /\ u.token <= lastToken /\ u.token \in Nat /\ lastToken \in Nat
  BY DEF AtWork, LeaseTokens, LifeInv, StoreInv, StoreTypeOK
<1>4. ASSUME n.token = u.token PROVE Lawful(r, n) /\ n.token # NoToken /\ r.token = u.token
  BY <1>2, <1>3, <1>4 DEF TableGrows, Lawful
<1>5. Fits(u, n)
  BY <1>2, <1>4 DEF Fits, Lawful
<1>. QED BY <1>1, <1>5

LEMMA OneWorkerMoves ==
  ASSUME LifeInv, WorkersKnown, LeasesFit, TableGrows, NEW w \in Workers, NEW STATE n, SetWorker(w, n),
         n \in WorkerRow,
         n.pc \notin Resting => AtWork(n, lastJob', LeaseTokens') /\ Fits(n, jobs'[n.job])
  PROVE  WorkersKnown' /\ LeasesFit'
<1>1. worker' \in [Workers -> WorkerRow] /\ worker'[w] = n
      /\ \A v \in Workers \ {w} : worker'[v] = worker[v]
  BY DEF SetWorker, WorkersKnown
<1>2. ASSUME NEW v \in Workers, worker'[v].pc \notin Resting
      PROVE  AtWork(worker'[v], lastJob', LeaseTokens') /\ Fits(worker'[v], jobs'[worker'[v].job])
  <2>1. CASE v = w
    BY <1>1, <1>2, <2>1
  <2>2. CASE v # w
    <3>1. worker'[v] = worker[v] /\ worker[v] \in WorkerRow /\ worker[v].pc \notin Resting
      BY <1>1, <1>2, <2>2 DEF WorkersKnown
    <3>2. AtWork(worker[v], lastJob, LeaseTokens) /\ Fits(worker[v], jobs[worker[v].job])
      BY <3>1 DEF WorkersKnown, LeasesFit, Working, Resting
    <3>. QED BY <3>1, <3>2, FitsStays
  <2>. QED BY <2>1, <2>2
<1>. QED BY <1>1, <1>2 DEF WorkersKnown, LeasesFit, Working, Resting

LEMMA WorkerRests ==
  ASSUME LifeInv, WorkersKnown, LeasesFit, TableGrows, NEW w \in Workers,
         SetWorker(w, Idle) \/ SetWorker(w, Parked("stopped")) \/ SetWorker(w, Parked("down"))
  PROVE  WorkersKnown' /\ LeasesFit'
  BY RestingRows, OneWorkerMoves DEF Resting

LEMMA WorkerKeeps ==
  ASSUME LifeInv, WorkersKnown, LeasesFit, TableGrows, NEW w \in Workers, Working(w),
         NEW STATE n, SetWorker(w, n), Kept(worker[w], n)
  PROVE  WorkersKnown' /\ LeasesFit'
<1> DEFINE u == worker[w]
<1>1. u \in WorkerRow /\ AtWork(u, lastJob, LeaseTokens) /\ Fits(u, jobs[u.job])
  BY DEF WorkersKnown, LeasesFit
<1>2. AtWork(u, lastJob', LeaseTokens') /\ Fits(u, jobs'[u.job])
  BY <1>1, FitsStays
<1>3. n \in WorkerRow /\ AtWork(n, lastJob', LeaseTokens') /\ Fits(n, jobs'[n.job])
  BY <1>2 DEF Kept, AtWork, Fits
<1>. QED BY <1>3, OneWorkerMoves

\* A worker whose call was accepted has seen what the call made of the row.
LEMMA WorkerAdvances ==
  ASSUME LifeInv, WorkersKnown, LeasesFit, TableGrows, NEW w \in Workers, Working(w), Holds(w),
         NEW STATE n, SetWorker(w, n), NEW STATE stage, Advanced(worker[w], n, stage),
         LET r == jobs[worker[w].job]
             q == jobs'[worker[w].job]
         IN  /\ q.status = r.status /\ q.version = r.version + 1
             /\ q.stage = stage /\ q.attempts = r.attempts
  PROVE  WorkersKnown' /\ LeasesFit'
<1> DEFINE u == worker[w]
<1>1. u \in WorkerRow /\ AtWork(u, lastJob, LeaseTokens) /\ Fits(u, jobs[u.job])
  BY DEF WorkersKnown, LeasesFit
<1>2. AtWork(u, lastJob', LeaseTokens')
  BY <1>1, FitsStays
<1>3. u.version \in Nat
  BY <1>1, WorkerFields
<1>4. AtWork(n, lastJob', LeaseTokens')
  BY <1>2 DEF Advanced, AtWork
<1>5. Fits(n, jobs'[n.job])
  BY <1>1, <1>3 DEF Advanced, Fits, Holds, LeaseHeld
<1>. QED BY <1>4, <1>5, OneWorkerMoves DEF Advanced

-----------------------------------------------------------------------------
(* Workers: how they use the table *)

Publishes(w) ==
    /\ At(w, "commit")
    /\ Complete(worker[w].job, worker[w].token, worker[w].version, worker[w].name)

LEMMA QuietGrows == ASSUME LifeInv, Quiet PROVE TableGrows
<1>0. StoreInv /\ lastJob \in Nat /\ lastToken \in Nat
  BY StoreAssumption DEF LifeInv, StoreInv, StoreTypeOK
<1>1. LifeInv'
  BY QuietIsStoreStep, NextInv, NextRefines DEF LifeInv, Refines
<1>2. \A j \in JobIds : Lawful(jobs[j], jobs'[j]) \/ jobs'[j].token > lastToken
  BY QuietMoves DEF RowMoves
<1>3. /\ lastJob' = lastJob \/ lastJob' = lastJob + 1
      /\ lastToken' = lastToken \/ lastToken' = lastToken + 1
      /\ mailTokens' = mailTokens
  BY DEF Quiet, storeVars, tokenVars, CreateJob, ClaimNext, ClaimNothing, HeldCall, RenewLease,
         SetStage, Requeue, Fail, CreateRetry, RequestDelete, Tick
<1>4. lastJob <= lastJob' /\ LeaseTokens \subseteq LeaseTokens'
  BY <1>0, <1>3 DEF LeaseTokens
<1>. QED BY <1>1, <1>2, <1>4 DEF TableGrows

LEMMA PublishGrows ==
  ASSUME LifeInv, WorkersKnown, NEW w \in Workers, Publishes(w)
  PROVE  StoreNext /\ TableGrows
<1> DEFINE u == worker[w]
           j == u.job
<1>0. AtWork(u, lastJob, LeaseTokens) /\ u.name \in FileNames /\ j \in JobIds
  BY DEF Publishes, At, WorkersKnown, Working, AtWork
<1>1. Complete(j, u.token, jobs[j].version, u.name) /\ UNCHANGED <<lastJob, tokenVars>>
  BY DEF Publishes, Complete, ProcessingHeld, LeaseHeld
<1>2. StoreNext
  BY <1>0, <1>1 DEF StoreNext, JobCall, LeaseCall, AtWork, LeaseTokens
<1>3. LifeInv'
  BY <1>2, NextInv, NextRefines DEF LifeInv, Refines
<1>4. \A i \in JobIds : jobs[i] \in Row
  BY DEF LifeInv, StoreInv, StoreTypeOK
<1>5. \A i \in JobIds : Lawful(jobs[i], jobs'[i])
  BY <1>0, <1>1, <1>4, LawfulHeld DEF Complete, SetRow, LifeInv, StoreInv, StoreTypeOK
<1>6. lastJob <= lastJob' /\ LeaseTokens \subseteq LeaseTokens'
  BY <1>1, StoreAssumption DEF LeaseTokens, tokenVars, LifeInv, StoreInv, StoreTypeOK
<1>. QED BY <1>2, <1>3, <1>5, <1>6 DEF TableGrows

LEMMA FinishGrows ==
  ASSUME LifeInv, NEW key \in tasks, FinishTask(key)
  PROVE  StoreNext /\ TableGrows
<1>1. StoreNext /\ UNCHANGED <<jobs, lastJob, tokenVars>>
  BY DEF StoreNext, FinishTask
<1>2. LifeInv'
  BY <1>1, NextInv, NextRefines DEF LifeInv, Refines
<1>3. \A i \in JobIds : Lawful(jobs[i], jobs'[i])
  BY <1>1, LawfulHeld DEF LifeInv, StoreInv, StoreTypeOK
<1>4. lastJob <= lastJob' /\ LeaseTokens \subseteq LeaseTokens'
  BY <1>1, StoreAssumption DEF LeaseTokens, tokenVars, LifeInv, StoreInv, StoreTypeOK
<1>. QED BY <1>1, <1>2, <1>3, <1>4 DEF TableGrows

\* The backoff of a retry stays within the bound of the table.
LEMMA RetryWaitBounded ==
  ASSUME NEW u \in WorkerRow, u.attempt < MaxAttempts
  PROVE  RetryWait(u) \in 0..MaxWait
<1> DEFINE b == u.attempt * Backoff
           d == (MaxAttempts - u.attempt) * Backoff
<1>0. /\ u.attempt \in Nat /\ u.age \in Nat /\ MaxAttempts \in Nat /\ Backoff \in Nat
      /\ MaxWait \in Nat /\ MaxAttempts - u.attempt \in Nat
  BY WorkerFields, WorkerAssumption, StoreAssumption
<1>1. b \in Nat /\ d \in Nat /\ b + d = MaxAttempts * Backoff
  BY <1>0
<1>2. b \in Nat /\ b <= MaxWait
  BY <1>0, <1>1, WorkerAssumption
<1> HIDE DEF b, d
<1>3. RetryWait(u) = IF b > u.age THEN b - u.age ELSE 0
  BY DEF RetryWait, b
<1>. QED BY <1>0, <1>2, <1>3

LEMMA HeldCalls ==
  ASSUME WorkerInv, NEW w \in Workers, Working(w),
         LET u == worker[w] IN
         \/ RenewLease(u.job, u.token, u.version)
         \/ \E stage \in Stages : SetStage(u.job, u.token, u.version, stage)
         \/ Settle(u)
  PROVE  Quiet
<1> DEFINE u == worker[w]
           j == u.job
<1>1. u \in WorkerRow /\ j \in JobIds /\ u.token \in (1..lastToken) \ mailTokens
  BY DEF WorkerInv, WorkersKnown, AtWork, LeaseTokens
<1>2. CASE RenewLease(j, u.token, u.version)
  BY <1>1, <1>2 DEF RenewLease, LeaseHeld, Quiet, HeldCall
<1>3. ASSUME NEW stage \in Stages, SetStage(j, u.token, u.version, stage) PROVE Quiet
  BY <1>1, <1>3 DEF SetStage, ProcessingHeld, LeaseHeld, Quiet, HeldCall
<1>4. CASE Settle(u)
  <2>1. CASE u.retry /\ u.attempt < MaxAttempts
    <3>1. RetryWait(u) \in 0..MaxWait
      BY <1>1, <2>1, RetryWaitBounded
    <3>2. Requeue(j, u.token, u.version, RetryWait(u))
      BY <1>4, <2>1 DEF Settle
    <3>3. Requeue(j, u.token, jobs[j].version, RetryWait(u))
      BY <3>2 DEF Requeue, LeaseHeld
    <3>. QED BY <1>1, <3>1, <3>3 DEF Quiet, HeldCall
  <2>2. CASE ~(u.retry /\ u.attempt < MaxAttempts)
    <3>1. Fail(j, u.token, u.version)
      BY <1>4, <2>2 DEF Settle
    <3>2. Fail(j, u.token, jobs[j].version)
      BY <3>1 DEF Fail, LeaseHeld
    <3>. QED BY <1>1, <3>2 DEF Quiet, HeldCall
  <2>. QED BY <2>1, <2>2
<1>. QED BY <1>2, <1>3, <1>4

LEMMA ReportsAreStages ==
  ASSUME NEW u
  PROVE  Reports(u) \subseteq Stages /\ "persisting" \in Stages
  BY DEF Reports, ReportsNext, MayStartOver, Stages

\* A worker's step is a transaction of the table, or none.
LEMMA WorkerTable ==
  ASSUME WorkerInv, NEW w \in Workers,
         WorkerStep(w) \/ Mishap(w) \/ Heartbeat(w) \/ PollEmpty(w)
  PROVE  Quiet \/ Publishes(w)
<1>1. CASE UNCHANGED storeVars
  BY <1>1 DEF Quiet
<1>2. CASE Claim(w) \/ PollEmpty(w)
  BY <1>2 DEF Claim, PollEmpty, Quiet
<1>3. CASE ReportStage(w) \/ ReportBroken(w)
  BY <1>1, <1>3, HeldCalls, ReportsAreStages DEF ReportStage, ReportBroken, At, Working
<1>4. CASE Heartbeat(w) \/ HeartbeatBroken(w) \/ ReturnsDuringRenewal(w)
  BY <1>1, <1>4, HeldCalls
     DEF Heartbeat, HeartbeatBroken, ReturnsDuringRenewal, BeatDue, At, Working
<1>5. CASE Persist(w) \/ PersistBroken(w)
  BY <1>1, <1>5, HeldCalls, ReportsAreStages DEF Persist, PersistBroken, At, Working
<1>6. CASE CommitOk(w) \/ CommitBroken(w)
  BY <1>1, <1>6 DEF CommitOk, CommitBroken, Publishes
<1>7. CASE HandleError(w) \/ HandleErrorBroken(w)
  BY <1>1, <1>7, HeldCalls DEF HandleError, HandleErrorBroken, At, Working
<1>8. CASE \/ ReportLost(w) \/ HeartbeatLost(w) \/ ProcessReturns(w) \/ PersistLost(w)
           \/ Put(w) \/ CommitLost(w) \/ Undo(w) \/ HandleErrorLost(w) \/ Restart(w)
           \/ PutBroken(w) \/ UndoBroken(w) \/ Crash(w)
  BY <1>1, <1>8 DEF ReportLost, HeartbeatLost, ProcessReturns, PersistLost, Put, CommitLost,
                    Undo, HandleErrorLost, Restart, PutBroken, UndoBroken, Crash
<1>. QED BY <1>2, <1>3, <1>4, <1>5, <1>6, <1>7, <1>8 DEF WorkerStep, Mishap

-----------------------------------------------------------------------------
(* Workers: every step keeps what they know *)

LEMMA ClaimKnown ==
  ASSUME WorkerInv, TableGrows, NEW w \in Workers, Claim(w)
  PROVE  WorkersKnown' /\ LeasesFit'
<1>0. PICK locked \in SUBSET JobIds : ClaimNext(locked)
  BY DEF Claim
<1>1. PICK j \in JobIds : jobs'[j].token = lastToken' /\ SetWorker(w, Leased(j, jobs'[j]))
  BY DEF Claim
<1>2. PICK q : q = jobs'[j]
  OBVIOUS
<1>3. q \in Row /\ jobs' \in [JobIds -> Row]
  BY <1>1, <1>2 DEF TableGrows, LifeInv, StoreInv, StoreTypeOK
<1>4. /\ lastToken \in Nat /\ lastToken' = lastToken + 1 /\ mailTokens' = mailTokens
      /\ mailTokens \subseteq 1..lastToken
  BY <1>0 DEF ClaimNext, WorkerInv, LifeInv, StoreInv, StoreTypeOK
<1>5. q.status = "processing" /\ q.stage = "fetching" /\ q.token = lastToken + 1
  BY <1>0, <1>1, <1>2, <1>4, ClaimMoves DEF WorkerInv
<1> DEFINE n == Leased(j, q)
<1>6. n \in WorkerRow
  BY <1>1, <1>3, Fields, RestingRows DEF Leased, WorkerRow, Positions, Stages
<1>7. /\ n.pc = "process" /\ n.job = j /\ n.token = q.token /\ n.version = q.version
      /\ n.attempt = q.attempts /\ n.stage = "fetching"
  BY RestingRows DEF Leased, WorkerRow
<1> HIDE DEF n
<1>8. j <= lastJob'
  BY <1>2, <1>5 DEF TableGrows, LifeInv, InOrder
<1>9. AtWork(n, lastJob', LeaseTokens')
  BY <1>1, <1>4, <1>5, <1>7, <1>8 DEF AtWork, LeaseTokens
<1>10. q.version \in Nat
  BY <1>3, Fields
<1>11. Fits(n, jobs'[n.job])
  BY <1>2, <1>5, <1>7, <1>10 DEF Fits
<1>12. SetWorker(w, n)
  BY <1>1, <1>2 DEF n
<1>. QED BY <1>6, <1>9, <1>11, <1>12, OneWorkerMoves DEF WorkerInv

\* The calls that a worker sees accepted.
LEMMA AcceptedKnown ==
  ASSUME WorkerInv, TableGrows, NEW w \in Workers,
         ReportStage(w) \/ Heartbeat(w) \/ Persist(w)
  PROVE  WorkersKnown' /\ LeasesFit'
<1> DEFINE u == worker[w]
           r == jobs[u.job]
<1>0. /\ LifeInv /\ WorkersKnown /\ LeasesFit /\ Working(w) /\ u \in WorkerRow /\ u.pc \notin Resting
      /\ AtWork(u, lastJob, LeaseTokens) /\ u.job \in JobIds /\ r \in Row
  BY DEF ReportStage, Heartbeat, Persist, BeatDue, At, Working, Resting, WorkerInv, WorkersKnown,
         AtWork, LifeInv, StoreInv, StoreTypeOK
<1>1. CASE ReportStage(w)
  <2>1. PICK stage \in Stages : SetStage(u.job, u.token, u.version, stage) /\ SetWorker(w, Observed(u, stage))
    BY <1>1, ReportsAreStages DEF ReportStage
  <2>2. Holds(w) /\ jobs'[u.job] = Staged(r, stage)
    BY <1>0, <2>1 DEF SetStage, SetRow, ProcessingHeld, Holds, LifeInv, StoreInv, StoreTypeOK
  <2>3. /\ Staged(r, stage).status = r.status /\ Staged(r, stage).version = r.version + 1
        /\ Staged(r, stage).stage = stage /\ Staged(r, stage).attempts = r.attempts
    BY <1>0 DEF Staged, Row
  <2>4. Advanced(u, Observed(u, stage), stage)
    BY <1>0, <1>1, AdvancedRows DEF ReportStage, At
  <2>. QED BY <1>0, <2>1, <2>2, <2>3, <2>4, WorkerAdvances
<1>2. CASE Heartbeat(w)
  <2> DEFINE n == [u EXCEPT !.version = @ + 1, !.beats = @ + 1, !.beaten = TRUE]
  <2>1. RenewLease(u.job, u.token, u.version) /\ SetWorker(w, n)
    BY <1>2 DEF Heartbeat
  <2>2. Holds(w) /\ jobs'[u.job] = Renewed(r)
    BY <1>0, <2>1 DEF RenewLease, SetRow, Holds, LifeInv, StoreInv, StoreTypeOK
  <2>3. /\ Renewed(r).status = r.status /\ Renewed(r).version = r.version + 1
        /\ Renewed(r).stage = r.stage /\ Renewed(r).attempts = r.attempts
    BY <1>0 DEF Renewed, Row
  <2>4. r.stage = u.stage
    BY <1>0, <2>2 DEF LeasesFit, Fits, Holds, LeaseHeld
  <2>5. Advanced(u, n, u.stage)
    BY <1>0, <1>2, AdvancedRows DEF Heartbeat, BeatDue, At
  <2> HIDE DEF n
  <2>. QED BY <1>0, <2>1, <2>2, <2>3, <2>4, <2>5, WorkerAdvances
<1>3. CASE Persist(w)
  <2> DEFINE n == [u EXCEPT !.pc = "put", !.stage = "persisting", !.version = @ + 1]
  <2>1. SetStage(u.job, u.token, u.version, "persisting") /\ SetWorker(w, n)
    BY <1>3 DEF Persist
  <2>2. Holds(w) /\ jobs'[u.job] = Staged(r, "persisting")
    BY <1>0, <2>1 DEF SetStage, SetRow, ProcessingHeld, Holds, LifeInv, StoreInv, StoreTypeOK
  <2>3. LET q == Staged(r, "persisting") IN
        /\ q.status = r.status /\ q.version = r.version + 1
        /\ q.stage = "persisting" /\ q.attempts = r.attempts
    BY <1>0 DEF Staged, Row
  <2>4. Advanced(u, n, "persisting")
    BY <1>0, <1>3, AdvancedRows DEF Persist, At, AtWork
  <2> HIDE DEF n
  <2>. QED BY <1>0, <2>1, <2>2, <2>3, <2>4, WorkerAdvances
<1>. QED BY <1>1, <1>2, <1>3

LEMMA ReturnedKept ==
  ASSUME NEW u \in WorkerRow, NEW n \in Returned(u)
  PROVE  Kept(u, n)
  BY KeptRows DEF Returned

\* The steps after which a worker goes on without having seen the row move,
\* or gives up.
LEMMA OthersKnown ==
  ASSUME WorkerInv, TableGrows, NEW w \in Workers,
         (WorkerStep(w) \/ Mishap(w) \/ PollEmpty(w)),
         ~Claim(w), ~ReportStage(w), ~Persist(w)
  PROVE  WorkersKnown' /\ LeasesFit'
<1> DEFINE u == worker[w]
<1>0. LifeInv /\ WorkersKnown /\ LeasesFit /\ u \in WorkerRow
  BY DEF WorkerInv, WorkersKnown
<1>1. CASE \/ SetWorker(w, Idle) \/ SetWorker(w, Parked("stopped")) \/ SetWorker(w, Parked("down"))
  BY <1>0, <1>1, WorkerRests
<1>2. ASSUME NEW retry \in BOOLEAN, Working(w), SetWorker(w, Failing(u, retry))
      PROVE  WorkersKnown' /\ LeasesFit'
  <2>1. Kept(u, Failing(u, retry))
    BY <1>0, KeptRows
  <2>. QED BY <1>0, <1>2, <2>1, WorkerKeeps
<1>3. CASE Working(w) /\ SetWorker(w, [Failing(u, TRUE) EXCEPT !.forgiven = TRUE])
  <2>1. Kept(u, [Failing(u, TRUE) EXCEPT !.forgiven = TRUE])
    BY <1>0, KeptRows
  <2>. QED BY <1>0, <1>3, <2>1, WorkerKeeps
<1>4. CASE At(w, "put") /\ SetWorker(w, [u EXCEPT !.pc = "commit"])
  <2>1. Working(w) /\ u.name \in FileNames
    BY <1>0, <1>4 DEF At, Working, WorkersKnown, AtWork
  <2>2. Kept(u, [u EXCEPT !.pc = "commit"])
    BY <1>0, <2>1, KeptRows
  <2>. QED BY <1>0, <1>4, <2>1, <2>2, WorkerKeeps
<1>5. CASE At(w, "commit") /\ SetWorker(w, [u EXCEPT !.pc = "undo"])
  <2>1. Working(w) /\ u.name \in FileNames
    BY <1>0, <1>5 DEF At, Working, WorkersKnown, AtWork
  <2>2. Kept(u, [u EXCEPT !.pc = "undo"])
    BY <1>0, <2>1, KeptRows
  <2>. QED BY <1>0, <1>5, <2>1, <2>2, WorkerKeeps
<1>6. ASSUME NEW n \in Returned(u), Working(w), SetWorker(w, n) PROVE WorkersKnown' /\ LeasesFit'
  <2>1. Kept(u, n)
    BY <1>0, <1>6, ReturnedKept
  <2>. QED BY <1>0, <1>6, <2>1, WorkerKeeps
<1>7. CASE UNCHANGED worker
  <2>1. worker' = [worker EXCEPT ![w] = u]
    BY <1>0, <1>7 DEF WorkersKnown
  <2>2. u.pc \notin Resting => AtWork(u, lastJob', LeaseTokens') /\ Fits(u, jobs'[u.job])
    BY <1>0, FitsStays DEF WorkersKnown, LeasesFit, Working, Resting
  <2>. QED BY <1>0, <2>1, <2>2, OneWorkerMoves DEF SetWorker
<1>8. CASE ReportLost(w) \/ PersistLost(w) \/ HandleErrorLost(w)
  BY <1>1, <1>2, <1>8 DEF ReportLost, PersistLost, HandleErrorLost, At, Working
<1>9. CASE ReportBroken(w) \/ HeartbeatBroken(w) \/ PutBroken(w)
  BY <1>2, <1>9 DEF ReportBroken, HeartbeatBroken, PutBroken, BeatDue, At, Working
<1>10. CASE ProcessReturns(w) \/ ReturnsDuringRenewal(w)
  BY <1>6, <1>10 DEF ProcessReturns, ReturnsDuringRenewal, BeatDue, At, Working
<1>11. CASE \/ HeartbeatLost(w) \/ PersistBroken(w) \/ CommitOk(w) \/ HandleError(w)
            \/ HandleErrorBroken(w) \/ Crash(w) \/ Restart(w)
  BY <1>1, <1>11 DEF HeartbeatLost, PersistBroken, CommitOk, HandleError, HandleErrorBroken,
                     Crash, Restart
<1>12. CASE Put(w)
  BY <1>4, <1>12 DEF Put
<1>13. CASE CommitLost(w) \/ CommitBroken(w)
  BY <1>5, <1>13 DEF CommitLost, CommitBroken
<1>14. CASE Undo(w) \/ UndoBroken(w)
  BY <1>3, <1>14 DEF Undo, UndoBroken, At, Working
<1>15. CASE PollEmpty(w)
  BY <1>7, <1>15 DEF PollEmpty, workerVars
<1>. QED BY <1>8, <1>9, <1>10, <1>11, <1>12, <1>13, <1>14, <1>15 DEF WorkerStep, Mishap

LEMMA OlderKept ==
  ASSUME NEW u \in WorkerRow
  PROVE  /\ Older(u) \in WorkerRow /\ Older(u).pc = u.pc /\ Older(u).job = u.job
         /\ Older(u).token = u.token /\ Older(u).version = u.version
         /\ Older(u).stage = u.stage /\ Older(u).attempt = u.attempt /\ Older(u).name = u.name
<1> DEFINE a == IF u.age < AgeCap THEN u.age + 1 ELSE u.age
           n == [u EXCEPT !.age = a, !.beaten = FALSE]
<1>1. a \in Nat
  BY WorkerFields
<1>2. Older(u) = u \/ Older(u) = n
  BY DEF Older
<1> HIDE DEF a
<1>3. /\ n \in WorkerRow /\ n.pc = u.pc /\ n.job = u.job
      /\ n.token = u.token /\ n.version = u.version
      /\ n.stage = u.stage /\ n.attempt = u.attempt /\ n.name = u.name
  BY <1>1 DEF WorkerRow
<1>. QED BY <1>2, <1>3

LEMMA PassKnown ==
  ASSUME WorkerInv, TableGrows, Pass
  PROVE  WorkersKnown' /\ LeasesFit'
<1>1. \A v \in Workers : worker'[v] = Older(worker[v]) /\ worker[v] \in WorkerRow
  BY DEF Pass, WorkerInv, WorkersKnown
<1>2. worker' \in [Workers -> WorkerRow]
  BY <1>1, OlderKept DEF Pass
<1>3. ASSUME NEW v \in Workers, worker'[v].pc \notin Resting
      PROVE  AtWork(worker'[v], lastJob', LeaseTokens') /\ Fits(worker'[v], jobs'[worker'[v].job])
  <2>1. worker[v].pc \notin Resting /\ worker[v] \in WorkerRow
    BY <1>1, <1>3, OlderKept
  <2>2. AtWork(worker[v], lastJob, LeaseTokens) /\ Fits(worker[v], jobs[worker[v].job]) /\ LifeInv
    BY <2>1 DEF WorkerInv, WorkersKnown, LeasesFit, Working, Resting
  <2>3. AtWork(worker[v], lastJob', LeaseTokens') /\ Fits(worker[v], jobs'[worker[v].job])
    BY <2>1, <2>2, FitsStays
  <2>4. /\ worker'[v].pc = worker[v].pc /\ worker'[v].job = worker[v].job
        /\ worker'[v].token = worker[v].token /\ worker'[v].version = worker[v].version
        /\ worker'[v].stage = worker[v].stage /\ worker'[v].attempt = worker[v].attempt
        /\ worker'[v].name = worker[v].name
    BY <1>1, OlderKept
  <2>. QED BY <2>3, <2>4 DEF AtWork, Fits
<1>. QED BY <1>2, <1>3 DEF WorkersKnown, LeasesFit, Working, Resting

LEMMA CallersKnown ==
  ASSUME WorkerInv, TableGrows, UNCHANGED worker
  PROVE  WorkersKnown' /\ LeasesFit'
<1>1. ASSUME NEW v \in Workers, worker[v].pc \notin Resting
      PROVE  AtWork(worker[v], lastJob', LeaseTokens') /\ Fits(worker[v], jobs'[worker[v].job])
  BY <1>1, FitsStays DEF WorkerInv, WorkersKnown, LeasesFit, Working, Resting
<1>. QED BY <1>1 DEF WorkerInv, WorkersKnown, LeasesFit, Working, Resting

-----------------------------------------------------------------------------
(* Callers and files *)

\* What the callers do to the table.
LEMMA CallerTable ==
  ASSUME WorkerInv, Caller
  PROVE  Quiet \/ \E key \in tasks : Cleanup(key)
<1>1. CASE SubmitURL
  BY <1>1 DEF SubmitURL, Quiet
<1>2. ASSUME NEW j \in JobIds, RetryJob(j) PROVE Quiet
  BY <1>2 DEF RetryJob, Quiet
<1>3. ASSUME NEW j \in JobIds, DeleteRead(j) PROVE Quiet
  BY <1>3 DEF DeleteRead, Quiet
<1>4. CASE DeleteRow
  <2>1. deletion.job \in JobIds
    BY <1>4 DEF DeleteRow, WorkerInv, FilesKnown
  <2>. QED BY <1>4, <2>1 DEF DeleteRow, Quiet
<1>5. CASE DeleteFile
  BY <1>5 DEF DeleteFile, Quiet
<1>. QED BY <1>1, <1>2, <1>3, <1>4, <1>5 DEF Caller

LEMMA NextGrows ==
  ASSUME WorkerInv, [Next]_vars
  PROVE  TableGrows /\ [StoreNext]_storeVars
<1>0. LifeInv /\ WorkersKnown
  BY DEF WorkerInv
<1>1. ASSUME NEW w \in Workers, WorkerStep(w) \/ Mishap(w) \/ Heartbeat(w) \/ PollEmpty(w)
      PROVE  TableGrows /\ [StoreNext]_storeVars
  BY <1>0, <1>1, WorkerTable, QuietGrows, QuietIsStoreStep, PublishGrows
<1>2. CASE Caller
  <2>1. ASSUME NEW key \in tasks, Cleanup(key) PROVE TableGrows /\ [StoreNext]_storeVars
    BY <1>0, <2>1, FinishGrows DEF Cleanup
  <2>. QED BY <1>0, <1>2, <2>1, CallerTable, QuietGrows, QuietIsStoreStep
<1>3. CASE Pass
  <2>1. Quiet
    BY <1>3 DEF Pass, Quiet
  <2>. QED BY <1>0, <2>1, QuietGrows, QuietIsStoreStep
<1>4. CASE UNCHANGED vars
  <2>1. Quiet
    BY <1>4 DEF vars, Quiet
  <2>. QED BY <1>0, <2>1, QuietGrows, QuietIsStoreStep
<1>. QED BY <1>1, <1>2, <1>3, <1>4 DEF Next

LEMMA WorkerKey ==
  ASSUME WorkersKnown, NEW w \in Workers, worker[w].pc \in {"put", "commit", "undo"}
  PROVE  /\ KeyOf(w) \in Keys /\ worker[w].token \in Nat \ {0}
         /\ KeyOf(w)[1] = worker[w].job /\ KeyOf(w)[2] = worker[w].name
<1>1. AtWork(worker[w], lastJob, LeaseTokens)
  BY DEF WorkersKnown, Working
<1>. QED BY <1>1 DEF AtWork, KeyOf, Keys, LeaseTokens

\* The steps of a worker that touch files.
LEMMA WorkerFiles ==
  ASSUME WorkerInv, NEW w \in Workers,
         WorkerStep(w) \/ Mishap(w) \/ Heartbeat(w) \/ PollEmpty(w)
  PROVE  UNCHANGED <<files, deletion>> \/ Put(w) \/ PutBroken(w) \/ Undo(w)
<1>1. CASE WorkerStep(w)
  BY <1>1 DEF WorkerStep, Claim, ReportStage, ReportLost, HeartbeatLost, ProcessReturns, Persist,
              PersistLost, CommitOk, CommitLost, HandleError, HandleErrorLost, Restart
<1>2. CASE Mishap(w)
  BY <1>2 DEF Mishap, ReportBroken, HeartbeatBroken, ReturnsDuringRenewal, PersistBroken,
              CommitBroken, UndoBroken, HandleErrorBroken, Crash
<1>3. CASE Heartbeat(w) \/ PollEmpty(w)
  BY <1>3 DEF Heartbeat, PollEmpty, workerVars
<1>. QED BY <1>1, <1>2, <1>3

LEMMA FilesStayKnown ==
  ASSUME WorkerInv, [Next]_vars
  PROVE  FilesKnown'
<1>0. files \in [Keys -> Nat] /\ WorkersKnown /\ deletion \in DeletionRow /\ FilesKnown
  BY DEF WorkerInv, FilesKnown
<1>1. CASE UNCHANGED <<files, deletion>>
  BY <1>1 DEF WorkerInv, FilesKnown
<1>2. ASSUME NEW w \in Workers, Put(w) \/ PutBroken(w) \/ Undo(w) PROVE FilesKnown'
  <2>1. KeyOf(w) \in Keys /\ worker[w].token \in Nat
    BY <1>0, <1>2, WorkerKey DEF Put, PutBroken, Undo, At
  <2>2. UNCHANGED deletion /\ \E f \in Nat : files' = [files EXCEPT ![KeyOf(w)] = f]
    BY <1>0, <1>2, <2>1 DEF Put, PutBroken, Undo
  <2>. QED BY <1>0, <2>1, <2>2 DEF FilesKnown
<1>3. ASSUME NEW w \in Workers, WorkerStep(w) \/ Mishap(w) \/ Heartbeat(w) \/ PollEmpty(w)
      PROVE  FilesKnown'
  BY <1>1, <1>2, <1>3, WorkerFiles
<1>4. ASSUME NEW j \in JobIds, DeleteRead(j) PROVE FilesKnown'
  <2>1. jobs[j] \in Row
    BY DEF WorkerInv, LifeInv, StoreInv, StoreTypeOK
  <2>2. jobs[j].artifact.name \in FileNames \cup {NoName}
    BY <2>1, Fields DEF Artifacts, NoArtifact
  <2>. QED BY <1>0, <1>4, <2>2 DEF DeleteRead, FilesKnown, DeletionRow
<1>5. CASE DeleteRow
  BY <1>0, <1>5 DEF DeleteRow, FilesKnown, DeletionRow
<1>6. CASE DeleteFile
  <2>1. deletion.name # NoName => <<deletion.job, deletion.name>> \in Keys
    BY <1>0, <1>6 DEF DeleteFile, FilesKnown, DeletionRow, Keys
  <2>. QED BY <1>0, <1>6, <2>1 DEF DeleteFile, FilesKnown, DeletionRow
<1>7. ASSUME NEW key \in tasks, Cleanup(key) PROVE FilesKnown'
  <2>1. key \in Keys
    BY DEF WorkerInv, LifeInv, StoreInv, StoreTypeOK
  <2>. QED BY <1>0, <1>7, <2>1 DEF Cleanup, FilesKnown
<1>8. CASE SubmitURL \/ (\E j \in JobIds : RetryJob(j)) \/ Pass \/ UNCHANGED vars
  BY <1>1, <1>8 DEF SubmitURL, RetryJob, Pass, vars, workerVars
<1>. QED BY <1>3, <1>4, <1>5, <1>6, <1>7, <1>8 DEF Next, Caller

-----------------------------------------------------------------------------
(* Theorems about any number of workers *)

LEMMA WorkerStarts == WorkerInit => WorkerInv
<1> SUFFICES ASSUME WorkerInit PROVE WorkerInv
  OBVIOUS
<1>1. LifeInv
  BY InitInv, InitRefines DEF WorkerInit, LifeInv
<1>2. WorkersKnown /\ LeasesFit
  BY RestingRows DEF WorkerInit, WorkersKnown, LeasesFit, Working
<1>3. FilesKnown
  BY DEF WorkerInit, FilesKnown, DeletionRow
<1>. QED BY <1>1, <1>2, <1>3 DEF WorkerInv

LEMMA WorkerSteps == WorkerInv /\ [Next]_vars => WorkerInv'
<1> SUFFICES ASSUME WorkerInv, [Next]_vars PROVE WorkerInv'
  OBVIOUS
<1>0. TableGrows /\ LifeInv'
  BY NextGrows DEF TableGrows
<1>1. WorkersKnown' /\ LeasesFit'
  <2>1. ASSUME NEW w \in Workers, WorkerStep(w) \/ Mishap(w) \/ Heartbeat(w) \/ PollEmpty(w)
        PROVE  WorkersKnown' /\ LeasesFit'
    BY <1>0, <2>1, ClaimKnown, AcceptedKnown, OthersKnown
  <2>2. CASE Caller
    <3>1. UNCHANGED worker
      BY <2>2 DEF Caller, SubmitURL, RetryJob, DeleteRead, DeleteRow, DeleteFile, Cleanup, workerVars
    <3>. QED BY <1>0, <3>1, CallersKnown
  <2>3. CASE UNCHANGED vars
    BY <1>0, <2>3, CallersKnown DEF vars, workerVars
  <2>. QED BY <1>0, <2>1, <2>2, <2>3, PassKnown DEF Next
<1>. QED BY <1>0, <1>1, FilesStayKnown DEF WorkerInv

\* The table, the workers' leases and the files are related as WorkerInv says,
\* whatever workers, heartbeats, callers and mishaps are interleaved.
THEOREM WorkerCorrect == Spec => []WorkerInv
  BY WorkerStarts, WorkerSteps, PTL DEF Spec

\* However late a worker is, whatever of its writes fails after having been
\* applied and however often its row is reclaimed and claimed again, a lease
\* that the store would accept is one whose row the worker knows (the version
\* check of internal/postgres and lease.Job of internal/application/worker.go).
THEOREM LeasesAreAccurate == Spec => []HeldLeaseIsAccurate
<1>1. WorkerInv => HeldLeaseIsAccurate
  <2> SUFFICES ASSUME WorkerInv, NEW w \in Workers, Working(w), Holds(w)
               PROVE  /\ jobs[worker[w].job].status = "processing"
                      /\ jobs[worker[w].job].stage = worker[w].stage
                      /\ jobs[worker[w].job].attempts = worker[w].attempt
    BY DEF HeldLeaseIsAccurate
  <2>. QED BY DEF WorkerInv, LeasesFit, Fits, Holds, LeaseHeld
<1>. QED BY <1>1, WorkerCorrect, PTL

\* The runner and the archive's callers are callers that JobStore allows for:
\* what is proved of the jobs table holds of the one the workers use, and the
\* jobs they process keep to the lifecycle (internal/application).
THEOREM WorkersUseTheTable == Spec => ImplementsStore /\ ImplementsLifecycle
<1>1. WorkerInit => StoreInit
  BY DEF WorkerInit
<1>2. WorkerInv /\ [Next]_vars => [StoreNext]_storeVars
  BY NextGrows
<1>3. Spec => ImplementsStore
  BY <1>1, <1>2, WorkerCorrect, PTL DEF Spec, StoreSpec, ImplementsStore
<1>. QED BY <1>3, TableImplementsLifecycle, PTL DEF ImplementsStore

-----------------------------------------------------------------------------
(* No file is forgotten *)

Named(k) == jobs[k[1]].artifact.name = k[2]

Committing(w, k) == worker[w].pc \in {"commit", "undo"} /\ KeyOf(w) = k

\* A file that a row or a task answers for goes on having one.
TableAnswers ==
    \A k \in Keys : Named(k) \/ k \in tasks => Named(k)' \/ k \in tasks'

LEMMA NamedHasPdf ==
  ASSUME LifeInv, NEW k \in Keys, Named(k)
  PROVE  /\ k[1] \in JobIds /\ k[2] \in FileNames /\ k = <<k[1], k[2]>>
         /\ jobs[k[1]].artifact # NoArtifact
<1>1. k[1] \in JobIds /\ k[2] \in FileNames /\ k = <<k[1], k[2]>>
  BY DEF Keys
<1>2. k[2] # NoName
  BY <1>1, StoreAssumption
<1>. QED BY <1>1, <1>2 DEF Named, NoArtifact

LEMMA QuietTasks ==
  ASSUME LifeInv, Quiet
  PROVE  /\ tasks \subseteq tasks'
         /\ \A key \in tasks' : key \in tasks \/ Gone(key[1])'
<1>1. ASSUME NEW j \in JobIds, RequestDelete(j)
      PROVE  tasks \subseteq tasks' /\ \A key \in tasks' : key \in tasks \/ Gone(key[1])'
  <2>1. tasks' = tasks \/ tasks' = tasks \cup {<<j, jobs[j].artifact.name>>}
    BY <1>1 DEF RequestDelete
  <2>2. Gone(j)'
    BY <1>1, DeleteMoves
  <2>3. ASSUME NEW key \in tasks', key \notin tasks PROVE Gone(key[1])'
    <3>1. key = <<j, jobs[j].artifact.name>>
      BY <2>1, <2>3
    <3>2. key[1] = j
      BY <3>1
    <3>3. jobs'[key[1]] = jobs'[j]
      BY <3>2
    <3>. QED BY <2>2, <3>2, <3>3 DEF Gone
  <2>. QED BY <2>1, <2>3
<1>2. CASE ~\E j \in JobIds : RequestDelete(j)
  BY <1>2 DEF Quiet, storeVars, CreateJob, ClaimNext, ClaimNothing, HeldCall, RenewLease,
              SetStage, Requeue, Fail, CreateRetry, Tick
<1>. QED BY <1>1, <1>2

LEMMA QuietAnswers == ASSUME LifeInv, Quiet PROVE TableAnswers
<1> SUFFICES ASSUME NEW k \in Keys, Named(k) PROVE Named(k)' \/ k \in tasks'
  BY QuietTasks DEF TableAnswers
<1>1. RowMoves(k[1]) /\ k = <<k[1], k[2]>> /\ jobs[k[1]].artifact # NoArtifact
  BY NamedHasPdf, QuietMoves
<1>2. CASE jobs'[k[1]].artifact = jobs[k[1]].artifact
  BY <1>2 DEF Named
<1>3. CASE <<k[1], jobs[k[1]].artifact.name>> \in tasks'
  <2>1. jobs[k[1]].artifact.name = k[2]
    BY DEF Named
  <2>. QED BY <1>1, <1>3, <2>1
<1>. QED BY <1>1, <1>2, <1>3 DEF RowMoves

\* Complete names the file, in a row that named none.
LEMMA PublishAnswers ==
  ASSUME WorkerInv, NEW w \in Workers, Publishes(w)
  PROVE  /\ TableAnswers
         /\ jobs'[worker[w].job].artifact.name = worker[w].name
         /\ jobs'[worker[w].job].artifact = [name |-> worker[w].name, sum |-> worker[w].token]
         /\ \A i \in JobIds \ {worker[w].job} : jobs'[i] = jobs[i]
         /\ jobs[worker[w].job].artifact = NoArtifact /\ jobs[worker[w].job].status = "processing"
         /\ UNCHANGED <<tasks, lastJob>>
<1> DEFINE u == worker[w]
           j == u.job
           r == jobs[j]
           a == [name |-> u.name, sum |-> u.token]
<1>0. LifeInv /\ j \in JobIds /\ r \in Row /\ RowGood(r)
  BY DEF WorkerInv, WorkersKnown, Publishes, At, Working, AtWork, LifeInv, StoreInv, StoreTypeOK
<1>1. /\ SetRow(j, Completed(r, a)) /\ r.status = "processing" /\ UNCHANGED <<tasks, lastJob>>
  BY DEF Publishes, Complete, ProcessingHeld
<1>2. jobs'[j] = Completed(r, a) /\ \A i \in JobIds \ {j} : jobs'[i] = jobs[i]
  BY <1>0, <1>1 DEF SetRow, LifeInv, StoreInv, StoreTypeOK
<1>3. Completed(r, a).artifact = a
  BY <1>0 DEF Completed, Leaseless, Row
<1>4. r.artifact = NoArtifact
  BY <1>0, <1>1 DEF RowGood, Published
<1>5. TableAnswers
  <2> SUFFICES ASSUME NEW k \in Keys, Named(k) PROVE Named(k)'
    BY <1>1 DEF TableAnswers
  <2>1. k[1] \in JobIds /\ k[1] # j
    BY <1>0, <1>4, NamedHasPdf
  <2>. QED BY <1>2, <2>1 DEF Named
<1>. QED BY <1>1, <1>2, <1>3, <1>4, <1>5

LEMMA AccountedStays ==
  ASSUME FilesAccounted, TableAnswers, NEW k \in Keys, files[k] # NoFile,
         \A v \in Workers : Committing(v, k) => Committing(v, k)' \/ Named(k)'
  PROVE  \/ Named(k)' \/ k \in tasks'
         \/ \E v \in Workers : Committing(v, k)'
  BY DEF FilesAccounted, Committing, Named, TableAnswers

LEMMA Accounting ==
  (\A k \in Keys : files'[k] # NoFile
        => Named(k)' \/ k \in tasks' \/ \E v \in Workers : Committing(v, k)')
     => FilesAccounted'
  BY DEF FilesAccounted, Committing, Named

LEMMA OthersUnmoved ==
  ASSUME WorkersKnown, NEW w \in Workers, NEW n, SetWorker(w, n)
  PROVE  /\ worker'[w] = n
         /\ \A v \in Workers \ {w} : worker'[v] = worker[v] /\ KeyOf(v)' = KeyOf(v)
  BY DEF SetWorker, WorkersKnown, KeyOf

\* The steps of a worker that is not between Put and the end of the commit.
LEMMA ElsewhereAccounted ==
  ASSUME WorkerInv, FilesAccounted, NEW w \in Workers, Quiet, UNCHANGED files,
         worker[w].pc \notin {"commit", "undo"},
         \A v \in Workers \ {w} : worker'[v] = worker[v] /\ KeyOf(v)' = KeyOf(v)
  PROVE  FilesAccounted'
<1>1. ASSUME NEW k \in Keys, files[k] # NoFile
      PROVE  Named(k)' \/ k \in tasks' \/ \E v \in Workers : Committing(v, k)'
  <2>1. \A v \in Workers : Committing(v, k) => Committing(v, k)'
    BY DEF Committing
  <2>2. TableAnswers
    BY QuietAnswers DEF WorkerInv
  <2>. QED BY <1>1, <2>1, <2>2, AccountedStays
<1>. QED BY <1>1, Accounting

\* A worker's step is its own.
LEMMA OneMoves ==
  ASSUME WorkersKnown, NEW w \in Workers,
         WorkerStep(w) \/ Mishap(w) \/ Heartbeat(w) \/ PollEmpty(w)
  PROVE  \A v \in Workers \ {w} : worker'[v] = worker[v] /\ KeyOf(v)' = KeyOf(v)
<1> DEFINE Alone == \A v \in Workers \ {w} : worker'[v] = worker[v]
<1> SUFFICES Alone
  BY DEF KeyOf
<1>0. ASSUME NEW ACTION n, worker' = [worker EXCEPT ![w] = n] PROVE Alone
  BY <1>0 DEF WorkersKnown
<1> HIDE DEF Alone
<1>1. CASE WorkerStep(w)
  BY <1>0, <1>1 DEF WorkerStep, SetWorker, Claim, ReportStage, ReportLost, HeartbeatLost,
                    ProcessReturns, Persist, PersistLost, Put, CommitOk, CommitLost, Undo,
                    HandleError, HandleErrorLost, Restart
<1>2. CASE Mishap(w)
  BY <1>0, <1>2 DEF Mishap, SetWorker, ReportBroken, HeartbeatBroken, ReturnsDuringRenewal,
                    PersistBroken, PutBroken, CommitBroken, UndoBroken, HandleErrorBroken, Crash
<1>3. CASE Heartbeat(w)
  BY <1>0, <1>3 DEF Heartbeat, SetWorker
<1>4. CASE PollEmpty(w)
  BY <1>4 DEF PollEmpty, workerVars, Alone
<1>. QED BY <1>1, <1>2, <1>3, <1>4

\* Between Put and the end of the commit.
LEMMA CommitAccounted ==
  ASSUME WorkerInv, FilesAccounted, NEW w \in Workers,
         Put(w) \/ CommitOk(w) \/ CommitLost(w) \/ CommitBroken(w) \/ Undo(w)
  PROVE  FilesAccounted'
<1>0. /\ LifeInv /\ WorkersKnown /\ worker \in [Workers -> WorkerRow]
      /\ files \in [Keys -> Nat] /\ KeyOf(w) \in Keys
  BY WorkerKey DEF WorkerInv, WorkersKnown, FilesKnown, Put, CommitOk, CommitLost, CommitBroken, Undo, At
<1>1. \A v \in Workers \ {w} : worker'[v] = worker[v] /\ KeyOf(v)' = KeyOf(v)
  BY <1>0, OneMoves DEF WorkerStep, Mishap
<1>2. TableAnswers
  <2>1. CASE Quiet
    BY <1>0, <2>1, QuietAnswers
  <2>2. CASE Publishes(w)
    BY <2>2, PublishAnswers
  <2>. QED BY <2>1, <2>2, WorkerTable DEF WorkerStep, Mishap
<1>3. ASSUME NEW k \in Keys, files[k] # NoFile, k # KeyOf(w)
      PROVE  Named(k)' \/ k \in tasks' \/ \E v \in Workers : Committing(v, k)'
  <2>1. \A v \in Workers : Committing(v, k) => Committing(v, k)'
    BY <1>1, <1>3 DEF Committing
  <2>. QED BY <1>2, <1>3, <2>1, AccountedStays
<1>4. ASSUME NEW k \in Keys, files'[k] # NoFile, k = KeyOf(w)
      PROVE  Named(k)' \/ k \in tasks' \/ \E v \in Workers : Committing(v, k)'
  <2>1. CASE Put(w)
    <3>1. worker'[w] = [worker[w] EXCEPT !.pc = "commit"]
      BY <1>0, <2>1 DEF Put, SetWorker
    <3>2. worker'[w].pc = "commit" /\ KeyOf(w)' = KeyOf(w)
      BY <1>0, <3>1 DEF KeyOf, WorkerRow
    <3>. QED BY <1>4, <3>2 DEF Committing
  <2>2. CASE CommitLost(w) \/ CommitBroken(w)
    <3>1. worker'[w] = [worker[w] EXCEPT !.pc = "undo"]
      BY <1>0, <2>2 DEF CommitLost, CommitBroken, SetWorker
    <3>2. worker'[w].pc = "undo" /\ KeyOf(w)' = KeyOf(w)
      BY <1>0, <3>1 DEF KeyOf, WorkerRow
    <3>. QED BY <1>4, <3>2 DEF Committing
  <2>3. CASE CommitOk(w)
    <3>1. Publishes(w)
      BY <2>3 DEF CommitOk, Publishes
    <3>2. jobs'[worker[w].job].artifact.name = worker[w].name
      BY <3>1, PublishAnswers
    <3>. QED BY <1>4, <3>2 DEF Named, KeyOf
  <2>4. CASE Undo(w)
    BY <1>0, <1>4, <2>4 DEF Undo
  <2>. QED BY <2>1, <2>2, <2>3, <2>4
<1>5. \A k \in Keys : k # KeyOf(w) => files'[k] = files[k]
  BY <1>0 DEF Put, CommitOk, CommitLost, CommitBroken, Undo
<1>. QED BY <1>3, <1>4, <1>5, Accounting

LEMMA WorkerAccounted ==
  ASSUME WorkerInv, FilesAccounted, NEW w \in Workers,
         WorkerStep(w) \/ Mishap(w) \/ Heartbeat(w) \/ PollEmpty(w),
         "crash" \notin Adversity, "disk" \notin Adversity
  PROVE  FilesAccounted'
<1>1. CASE Put(w) \/ CommitOk(w) \/ CommitLost(w) \/ CommitBroken(w) \/ Undo(w)
  BY <1>1, CommitAccounted
<1>2. CASE ~(Put(w) \/ CommitOk(w) \/ CommitLost(w) \/ CommitBroken(w) \/ Undo(w))
  <2>1. ~PutBroken(w) /\ ~UndoBroken(w) /\ ~Crash(w)
    BY DEF PutBroken, UndoBroken, Crash, Adverse
  <2>2. worker[w].pc \notin {"commit", "undo"}
    BY <1>2, <2>1
       DEF WorkerStep, Mishap, Heartbeat, PollEmpty, BeatDue, At, Claim, ReportStage, ReportLost,
           HeartbeatLost, ProcessReturns, Persist, PersistLost, HandleError, HandleErrorLost,
           Restart, ReportBroken, HeartbeatBroken, ReturnsDuringRenewal, PersistBroken,
           HandleErrorBroken
  <2>3. Quiet /\ UNCHANGED files
    BY <1>2, <2>1, <2>2, WorkerTable, WorkerFiles DEF Publishes, At
  <2>4. \A v \in Workers \ {w} : worker'[v] = worker[v] /\ KeyOf(v)' = KeyOf(v)
    BY OneMoves DEF WorkerInv
  <2>. QED BY <2>2, <2>3, <2>4, ElsewhereAccounted
<1>. QED BY <1>1, <1>2

LEMMA CallersAccounted ==
  ASSUME WorkerInv, FilesAccounted, Caller \/ Pass \/ UNCHANGED vars
  PROVE  FilesAccounted'
<1>0. files \in [Keys -> Nat] /\ tasks \subseteq Keys /\ LifeInv
  BY DEF WorkerInv, FilesKnown, LifeInv, StoreInv, StoreTypeOK
<1>1. ASSUME NEW k \in Keys, NEW v \in Workers, Committing(v, k) PROVE Committing(v, k)'
  <2>1. worker'[v].pc = worker[v].pc /\ KeyOf(v)' = KeyOf(v)
    <3>1. CASE Pass
      <4>1. worker'[v] = Older(worker[v]) /\ worker[v] \in WorkerRow
        BY <3>1 DEF Pass, WorkerInv, WorkersKnown
      <4>. QED BY <4>1, OlderKept DEF KeyOf
    <3>2. CASE UNCHANGED worker
      BY <3>2 DEF KeyOf
    <3>. QED
      BY <3>1, <3>2 DEF Caller, SubmitURL, RetryJob, DeleteRead, DeleteRow, DeleteFile, Cleanup,
                        workerVars, vars
  <2>. QED BY <1>1, <2>1 DEF Committing
<1>2. CASE Quiet
  <2>1. \A k \in Keys : files'[k] # NoFile => files[k] # NoFile
    <3>1. CASE UNCHANGED files
      BY <3>1
    <3>2. CASE DeleteFile
      BY <1>0, <3>2 DEF DeleteFile
    <3>3. ASSUME NEW key \in tasks, Cleanup(key)
          PROVE \A k \in Keys : files'[k] # NoFile => files[k] # NoFile
      BY <1>0, <3>3 DEF Cleanup
    <3>. QED BY <3>1, <3>2, <3>3
             DEF Caller, SubmitURL, RetryJob, DeleteRead, DeleteRow, Pass, workerVars, vars
  <2>2. TableAnswers
    BY <1>0, <1>2, QuietAnswers
  <2>. QED BY <1>1, <2>1, <2>2, AccountedStays, Accounting
<1>3. ASSUME NEW key \in tasks, Cleanup(key) PROVE FilesAccounted'
  <2>1. /\ files' = [files EXCEPT ![key] = NoFile] /\ tasks' = tasks \ {key} /\ key \in Keys
        /\ UNCHANGED <<jobs, worker>>
    BY <1>0, <1>3 DEF Cleanup, FinishTask
  <2>2. ASSUME NEW k \in Keys, files'[k] # NoFile
        PROVE  Named(k)' \/ k \in tasks' \/ \E v \in Workers : Committing(v, k)'
    <3>1. k # key /\ files[k] # NoFile
      BY <1>0, <2>1, <2>2
    <3>. QED BY <1>1, <2>1, <3>1 DEF FilesAccounted, Named, Committing
  <2>. QED BY <2>2, Accounting
<1>. QED BY <1>2, <1>3, CallerTable DEF Pass, Quiet, vars

\* As long as the process is not killed and the disk works, however many
\* workers share the table and whatever leases they lose, a file that was put
\* belongs to a job, to a deletion task or to a worker that is about to commit
\* or to remove it (finish in internal/application/worker.go, DeleteJob and
\* CleanupOnce in archive.go).
THEOREM NoFileIsForgotten ==
  ASSUME "crash" \notin Adversity, "disk" \notin Adversity
  PROVE  Spec => []FilesAccounted
<1>1. WorkerInit => FilesAccounted
  BY DEF WorkerInit, FilesAccounted
<1>2. WorkerInv /\ FilesAccounted /\ [Next]_vars => FilesAccounted'
  BY WorkerAccounted, CallersAccounted DEF Next
<1>. QED BY <1>1, <1>2, WorkerCorrect, PTL DEF Spec

-----------------------------------------------------------------------------
(* With one worker, what is published can be read *)

\* A worker that is at work after its step was so before, on the same job, or
\* has just claimed it; only Put leads to the commit.
LEMMA WorkerCarries ==
  ASSUME WorkerInv, NEW w \in Workers,
         WorkerStep(w) \/ Mishap(w) \/ Heartbeat(w) \/ PollEmpty(w),
         ~Claim(w), worker'[w].pc \notin Resting
  PROVE  /\ Working(w) /\ worker'[w].job = worker[w].job
         /\ worker'[w].pc = "commit" => Put(w)
<1> DEFINE u == worker[w]
           Carried(n) == n.job = u.job /\ n.pc # "commit"
<1>0. WorkersKnown /\ worker \in [Workers -> WorkerRow] /\ u \in WorkerRow
  BY DEF WorkerInv, WorkersKnown
<1>1. /\ Idle.pc \in Resting /\ Parked("stopped").pc \in Resting /\ Parked("down").pc \in Resting
  BY RestingRows DEF Resting
<1>2. /\ \A retry \in BOOLEAN : Carried(Failing(u, retry))
      /\ Carried([Failing(u, TRUE) EXCEPT !.forgiven = TRUE])
      /\ Carried([u EXCEPT !.pc = "undo"])
      /\ Carried([u EXCEPT !.pc = "put", !.stage = "persisting", !.version = @ + 1])
      /\ \A name \in FileNames : Carried([u EXCEPT !.pc = "persist", !.name = name])
  BY <1>0 DEF Failing, WorkerRow
<1>3. ASSUME u.pc = "process"
      PROVE  /\ \A stage \in Stages : Carried(Observed(u, stage))
             /\ Carried([u EXCEPT !.version = @ + 1, !.beats = @ + 1, !.beaten = TRUE])
  BY <1>0, <1>3 DEF Observed, WorkerRow
<1>4. \A n \in Returned(u) : Carried(n)
  BY <1>2 DEF Returned
<1> HIDE DEF Carried
<1>5. ASSUME NEW n, SetWorker(w, n) PROVE worker'[w] = n
  BY <1>0, <1>5 DEF SetWorker
<1>6. ASSUME NEW n, SetWorker(w, n), Carried(n), Working(w)
      PROVE  Working(w) /\ worker'[w].job = u.job /\ worker'[w].pc # "commit"
  BY <1>5, <1>6 DEF Carried
<1>7. ~ (SetWorker(w, Idle) \/ SetWorker(w, Parked("stopped")) \/ SetWorker(w, Parked("down")))
  BY <1>1, <1>5
<1>8. CASE ReportStage(w)
  BY <1>3, <1>6, <1>8, ReportsAreStages DEF ReportStage, At, Working
<1>9. CASE Heartbeat(w)
  BY <1>3, <1>6, <1>9 DEF Heartbeat, BeatDue, At, Working
<1>10. CASE Persist(w)
  BY <1>2, <1>6, <1>10 DEF Persist, At, Working
<1>11. CASE ReportLost(w) \/ PersistLost(w) \/ HandleErrorLost(w)
  BY <1>2, <1>6, <1>7, <1>11 DEF ReportLost, PersistLost, HandleErrorLost, At, Working
<1>12. CASE ReportBroken(w) \/ HeartbeatBroken(w) \/ PutBroken(w)
  BY <1>2, <1>6, <1>12 DEF ReportBroken, HeartbeatBroken, PutBroken, BeatDue, At, Working
<1>13. CASE ProcessReturns(w) \/ ReturnsDuringRenewal(w)
  BY <1>4, <1>6, <1>13 DEF ProcessReturns, ReturnsDuringRenewal, BeatDue, At, Working
<1>14. CASE \/ HeartbeatLost(w) \/ PersistBroken(w) \/ CommitOk(w) \/ HandleError(w)
            \/ HandleErrorBroken(w) \/ Crash(w) \/ Restart(w)
  BY <1>7, <1>14 DEF HeartbeatLost, PersistBroken, CommitOk, HandleError, HandleErrorBroken,
                     Crash, Restart
<1>15. CASE Put(w)
  <2>1. worker'[w] = [u EXCEPT !.pc = "commit"]
    BY <1>5, <1>15 DEF Put
  <2>2. worker'[w].job = u.job
    BY <1>0, <2>1 DEF WorkerRow
  <2>. QED BY <1>15, <2>2 DEF Put, At, Working
<1>16. CASE CommitLost(w) \/ CommitBroken(w)
  BY <1>2, <1>6, <1>16 DEF CommitLost, CommitBroken, At, Working
<1>17. CASE Undo(w) \/ UndoBroken(w)
  BY <1>2, <1>6, <1>17 DEF Undo, UndoBroken, At, Working
<1>18. CASE PollEmpty(w)
  BY <1>18 DEF PollEmpty, workerVars, At, Resting
<1>. QED BY <1>8, <1>9, <1>10, <1>11, <1>12, <1>13, <1>14, <1>15, <1>16, <1>17, <1>18
         DEF WorkerStep, Mishap

\* A job without a row has no PDF.
LEMMA GoneHasNoPdf ==
  ASSUME LifeInv, NEW j \in JobIds, Gone(j)
  PROVE  jobs[j].artifact = NoArtifact
  BY DEF Gone, LifeInv, StoreInv, RowGood, Published

\* What Quiet leaves of PDFs and of deleted jobs.
LEMMA QuietPdfs ==
  ASSUME LifeInv, Quiet, NEW j \in JobIds
  PROVE  /\ jobs'[j].artifact # NoArtifact => jobs'[j].artifact = jobs[j].artifact
         /\ Gone(j) => Gone(j)'
<1>1. RowMoves(j)
  BY QuietMoves
<1>2. NoRow.artifact = NoArtifact
  BY DEF NoRow
<1>. QED BY <1>1, <1>2 DEF RowMoves

\* A file that no PDF and no commit of the only worker needs may change.
LEMMA ReadableStays ==
  ASSUME PublishedReadable, 
         \A j \in JobIds : jobs'[j].artifact # NoArtifact =>
            /\ jobs'[j].artifact = jobs[j].artifact
            /\ \A k \in Keys : k[1] = j => files'[k] = files[k],
         LifeInv'
  PROVE  PublishedReadable'
<1> SUFFICES ASSUME NEW j \in JobIds, jobs'[j].artifact # NoArtifact
             PROVE  files'[<<j, jobs'[j].artifact.name>>] = jobs'[j].artifact.sum
  BY DEF PublishedReadable
<1>1. jobs'[j] \in Row
  BY DEF LifeInv, StoreInv, StoreTypeOK
<1>2. <<j, jobs'[j].artifact.name>> \in Keys
  BY <1>1, Fields DEF Artifacts, Keys
<1>. QED BY <1>2 DEF PublishedReadable

LEMMA SoleWorkerSteps ==
  ASSUME SoleInv, NEW w \in Workers, SoleWorker, "commit" \notin Adversity,
         WorkerStep(w) \/ Mishap(w) \/ Heartbeat(w) \/ PollEmpty(w), WorkerInv'
  PROVE  OwnJobOpen' /\ OwnFile' /\ RemovalsOfGone' /\ PublishedReadable'
<1> DEFINE u == worker[w]
           j == u.job
<1>0. /\ WorkerInv /\ LifeInv /\ WorkersKnown /\ LifeInv' /\ Workers = {w}
      /\ files \in [Keys -> Nat] /\ worker \in [Workers -> WorkerRow]
  BY DEF SoleInv, SoleWorker, WorkerInv, FilesKnown, WorkersKnown
<1>1. CASE Publishes(w)
  <2>a. u.pc = "commit" /\ jobs' # jobs
    <3>1. u.pc = "commit" /\ u.name \in FileNames
      BY <1>0, <1>1 DEF Publishes, At, WorkersKnown, Working, AtWork
    <3>2. jobs'[j].artifact.name = u.name /\ jobs[j].artifact = NoArtifact
      BY <1>0, <1>1, PublishAnswers
    <3>3. u.name # NoName
      BY <3>1, StoreAssumption
    <3>. QED BY <3>1, <3>2, <3>3 DEF NoArtifact
  <2>b. CommitOk(w) \/ CommitLost(w) \/ CommitBroken(w) \/ Crash(w)
    BY <2>a
       DEF At, WorkerStep, Mishap, Heartbeat, PollEmpty, BeatDue,
           Claim, ReportStage, ReportLost, HeartbeatLost, ProcessReturns, Persist, PersistLost,
           Put, Undo, HandleError, HandleErrorLost, Restart, ReportBroken,
           HeartbeatBroken, ReturnsDuringRenewal, PersistBroken, PutBroken, UndoBroken,
           HandleErrorBroken
  <2>1. CommitOk(w)
    BY <2>a, <2>b DEF CommitLost, CommitBroken, Crash, Adverse, storeVars
  <2>2. worker'[w].pc = "idle" /\ UNCHANGED <<files, deletion>>
    BY <1>0, <2>1, RestingRows DEF CommitOk, SetWorker
  <2>3. OwnJobOpen' /\ OwnFile'
    BY <1>0, <2>2 DEF OwnJobOpen, OwnFile, Working, At
  <2>4. /\ jobs'[j].artifact = [name |-> u.name, sum |-> u.token]
        /\ \A i \in JobIds \ {j} : jobs'[i] = jobs[i]
        /\ jobs[j].status = "processing" /\ UNCHANGED <<tasks, lastJob>> /\ j \in JobIds
    BY <1>0, <1>1, PublishAnswers DEF Publishes, At, WorkersKnown, Working, AtWork
  <2>5. \A i \in JobIds : Gone(i) => Gone(i)'
    BY <2>4 DEF Gone
  <2>6. RemovalsOfGone'
    <3>1. \A key \in tasks : key[1] \in JobIds
      BY <1>0 DEF LifeInv, StoreInv, StoreTypeOK, Keys
    <3>2. deletion.pc = "file" => deletion.job \in JobIds
      BY <1>0 DEF WorkerInv, FilesKnown
    <3>3. \A key \in tasks : Gone(key[1])'
      BY <2>5, <3>1 DEF SoleInv, RemovalsOfGone
    <3>4. deletion.pc = "file" => Gone(deletion.job)'
      <4>1. ASSUME deletion.pc = "file" PROVE jobs'[deletion.job].status = "none" /\ deletion.job <= lastJob'
        BY <2>5, <3>2, <4>1 DEF SoleInv, RemovalsOfGone, Gone
      <4>. QED BY <2>2, <4>1 DEF Gone
    <3>. QED BY <2>2, <2>4, <3>3, <3>4 DEF RemovalsOfGone
  <2>7. files[<<j, u.name>>] = u.token
    BY <1>1, <2>4 DEF SoleInv, OwnFile, Publishes, KeyOf, Gone
  <2>8. PublishedReadable'
    <3> SUFFICES ASSUME NEW i \in JobIds, jobs'[i].artifact # NoArtifact
                 PROVE  files[<<i, jobs'[i].artifact.name>>] = jobs'[i].artifact.sum
      BY <2>2 DEF PublishedReadable
    <3>1. CASE i = j
      BY <2>4, <2>7, <3>1
    <3>2. CASE i # j
      BY <2>4, <3>2 DEF SoleInv, PublishedReadable
    <3>. QED BY <3>1, <3>2
  <2>. QED BY <2>3, <2>6, <2>8
<1>2. CASE Quiet
  <2>1. OwnJobOpen'
    <3> SUFFICES ASSUME Working(w)' PROVE jobs'[worker'[w].job].artifact = NoArtifact
      BY <1>0 DEF OwnJobOpen
    <3>1. CASE Claim(w)
      <4>1. AtWork(worker[w], lastJob, LeaseTokens)' /\ LeasesFit'
        BY DEF WorkerInv, WorkersKnown
      <4>2. PICK i \in JobIds : jobs'[i].token = lastToken' /\ SetWorker(w, Leased(i, jobs'[i]))
        BY <3>1 DEF Claim
      <4>3. worker'[w].job = i
        BY <1>0, <4>2, RestingRows DEF SetWorker, Leased, WorkerRow
      <4>4. PICK locked \in SUBSET JobIds : ClaimNext(locked)
        BY <3>1 DEF Claim
      <4>5. jobs'[i].status = "processing"
        BY <1>0, <4>2, <4>4, ClaimMoves DEF ClaimNext
      <4>. QED BY <1>0, <4>3, <4>5 DEF LifeInv, StoreInv, RowGood, Published
    <3>2. CASE ~Claim(w)
      <4>1. Working(w) /\ worker'[w].job = j
        BY <1>0, <3>2, WorkerCarries DEF Working, Resting
      <4>2. j \in JobIds /\ jobs[j].artifact = NoArtifact
        BY <1>0, <4>1 DEF SoleInv, OwnJobOpen, WorkersKnown, AtWork
      <4>. QED BY <1>0, <1>2, <4>1, <4>2, QuietPdfs
    <3>. QED BY <3>1, <3>2
  <2>2. OwnFile'
    <3> SUFFICES ASSUME worker'[w].pc = "commit" PROVE files'[KeyOf(w)'] = worker'[w].token
      BY <1>0 DEF OwnFile, At
    <3>1. ~Claim(w)
      <4>1. ASSUME Claim(w) PROVE FALSE
        <5>1. PICK i \in JobIds : SetWorker(w, Leased(i, jobs'[i]))
          BY <4>1 DEF Claim
        <5>. QED BY <1>0, <5>1, RestingRows DEF SetWorker, Leased, WorkerRow
      <4>. QED BY <4>1
    <3>2. Put(w)
      BY <1>0, <3>1, WorkerCarries DEF Resting
    <3>3. KeyOf(w) \in Keys
      BY <1>0, <3>2, WorkerKey DEF Put, At
    <3>4. worker'[w] = [u EXCEPT !.pc = "commit"] /\ u \in WorkerRow
      BY <1>0, <3>2 DEF Put, SetWorker
    <3>5. KeyOf(w)' = KeyOf(w) /\ worker'[w].token = u.token
      BY <3>4 DEF KeyOf, WorkerRow
    <3>. QED BY <1>0, <3>2, <3>3, <3>5 DEF Put
  <2>3. UNCHANGED deletion
    BY <1>0, WorkerFiles DEF Put, PutBroken, Undo
  <2>4. RemovalsOfGone'
    <3>1. ASSUME NEW key \in tasks' PROVE Gone(key[1])'
      <4>1. CASE key \in tasks
        <5>1. key[1] \in JobIds /\ Gone(key[1])
          BY <1>0, <4>1 DEF SoleInv, RemovalsOfGone, LifeInv, StoreInv, StoreTypeOK, Keys
        <5>. QED BY <1>0, <1>2, <5>1, QuietPdfs
      <4>. QED BY <1>0, <1>2, <3>1, <4>1, QuietTasks
    <3>2. ASSUME deletion.pc = "file"
          PROVE  jobs'[deletion.job].status = "none" /\ deletion.job <= lastJob'
      <4>1. deletion.job \in JobIds /\ Gone(deletion.job)
        BY <3>2 DEF SoleInv, RemovalsOfGone, WorkerInv, FilesKnown
      <4>2. \A i \in JobIds : Gone(i) => jobs'[i].status = "none" /\ i <= lastJob'
        BY <1>0, <1>2, QuietPdfs DEF Gone
      <4>. QED BY <4>1, <4>2
    <3>. QED BY <2>3, <3>1, <3>2 DEF RemovalsOfGone, Gone
  <2>5. PublishedReadable'
    <3>1. ASSUME NEW i \in JobIds, jobs'[i].artifact # NoArtifact, NEW k \in Keys, k[1] = i
          PROVE  jobs'[i].artifact = jobs[i].artifact /\ files'[k] = files[k]
      <4>1. jobs'[i].artifact = jobs[i].artifact
        BY <1>0, <1>2, <3>1, QuietPdfs
      <4>2. CASE UNCHANGED files
        BY <4>1, <4>2
      <4>3. CASE Put(w) \/ PutBroken(w) \/ Undo(w)
        <5>1. u.pc \in {"put", "undo"} /\ \E f : files' = [files EXCEPT ![KeyOf(w)] = f]
          BY <4>3 DEF Put, PutBroken, Undo, At
        <5>2. KeyOf(w)[1] = j /\ Working(w) /\ KeyOf(w) \in Keys
          BY <1>0, <5>1, WorkerKey DEF Working
        <5>3. jobs[j].artifact = NoArtifact
          BY <5>2 DEF SoleInv, OwnJobOpen
        <5>4. k # KeyOf(w)
          BY <3>1, <4>1, <5>2, <5>3
        <5>. QED BY <1>0, <4>1, <5>1, <5>4
      <4>. QED BY <1>0, <4>2, <4>3, WorkerFiles
    <3>2. \A i \in JobIds : jobs'[i].artifact # NoArtifact => jobs'[i].artifact = jobs[i].artifact
      BY <1>0, <1>2, QuietPdfs
    <3>. QED BY <1>0, <3>1, <3>2, ReadableStays DEF SoleInv
  <2>. QED BY <2>1, <2>2, <2>4, <2>5
<1>. QED BY <1>0, <1>1, <1>2, WorkerTable

LEMMA SoleCallerSteps ==
  ASSUME SoleInv, Caller \/ Pass \/ UNCHANGED vars, WorkerInv'
  PROVE  OwnJobOpen' /\ OwnFile' /\ RemovalsOfGone' /\ PublishedReadable'
<1>0. /\ WorkerInv /\ LifeInv /\ WorkersKnown /\ LifeInv' /\ files \in [Keys -> Nat]
      /\ tasks \subseteq Keys /\ deletion \in DeletionRow
      /\ deletion.pc # "idle" => deletion.job \in JobIds
  BY DEF SoleInv, WorkerInv, FilesKnown, LifeInv, StoreInv, StoreTypeOK
<1>1. \A v \in Workers : /\ worker'[v].pc = worker[v].pc /\ worker'[v].job = worker[v].job
                         /\ worker'[v].token = worker[v].token /\ KeyOf(v)' = KeyOf(v)
  <2>1. CASE Pass
    <3>1. \A v \in Workers : worker'[v] = Older(worker[v]) /\ worker[v] \in WorkerRow
      BY <1>0, <2>1 DEF Pass, WorkersKnown
    <3>. QED BY <3>1, OlderKept DEF KeyOf
  <2>2. CASE UNCHANGED worker
    BY <2>2 DEF KeyOf
  <2>. QED BY <2>1, <2>2 DEF Caller, SubmitURL, RetryJob, DeleteRead, DeleteRow, DeleteFile,
                             Cleanup, workerVars, vars
<1>2. Quiet \/ \E key \in tasks : Cleanup(key)
  BY <1>0, CallerTable DEF Pass, Quiet, vars
<1>3. \A j \in JobIds :
         /\ jobs'[j].artifact # NoArtifact => jobs'[j].artifact = jobs[j].artifact
         /\ Gone(j) => jobs'[j].status = "none" /\ j <= lastJob'
  <2>1. CASE Quiet
    BY <1>0, <2>1, QuietPdfs DEF Gone
  <2>2. ASSUME NEW key \in tasks, Cleanup(key) PROVE UNCHANGED <<jobs, lastJob>>
    BY <2>2 DEF Cleanup, FinishTask
  <2>. QED BY <1>2, <2>1, <2>2 DEF Gone
<1>4. \A key \in tasks : key[1] \in JobIds /\ Gone(key[1])
  BY <1>0 DEF SoleInv, RemovalsOfGone, Keys
<1>5. ASSUME NEW key \in tasks' PROVE Gone(key[1])'
  <2>1. CASE key \in tasks
    BY <1>3, <1>4, <2>1 DEF Gone
  <2>2. CASE Quiet
    BY <1>0, <1>5, <2>1, <2>2, QuietTasks
  <2>3. CASE \E k \in tasks : Cleanup(k)
    BY <1>5, <2>1, <2>3 DEF Cleanup, FinishTask
  <2>. QED BY <1>2, <2>2, <2>3
<1>6. \A k \in Keys : files'[k] = files[k] \/ Gone(k[1])
  <2>1. CASE UNCHANGED files
    BY <2>1
  <2>2. CASE DeleteFile
    <3>1. Gone(deletion.job) /\ deletion.pc = "file"
      BY <2>2 DEF DeleteFile, SoleInv, RemovalsOfGone
    <3>2. deletion.name # NoName => <<deletion.job, deletion.name>> \in Keys
      BY <1>0, <3>1 DEF DeletionRow, Keys
    <3>. QED BY <1>0, <2>2, <3>1, <3>2 DEF DeleteFile
  <2>3. ASSUME NEW key \in tasks, Cleanup(key) PROVE \A k \in Keys : files'[k] = files[k] \/ Gone(k[1])
    BY <1>0, <1>4, <2>3 DEF Cleanup
  <2>. QED BY <2>1, <2>2, <2>3
           DEF Caller, SubmitURL, RetryJob, DeleteRead, DeleteRow, Pass, workerVars, vars
<1>7. deletion'.pc = "file" => jobs'[deletion'.job].status = "none" /\ deletion'.job <= lastJob'
  <2>1. CASE UNCHANGED deletion
    BY <1>0, <1>3, <2>1 DEF SoleInv, RemovalsOfGone
  <2>2. CASE DeleteFile \/ \E j \in JobIds : DeleteRead(j)
    BY <2>2 DEF DeleteFile, DeleteRead
  <2>3. CASE DeleteRow
    <3>1. deletion.job \in JobIds
      BY <1>0, <2>3 DEF DeleteRow
    <3>2. CASE Exists(deletion.job)
      <4>1. PICK j \in JobIds : j = deletion.job
        BY <3>1
      <4>2. RequestDelete(j)
        BY <2>3, <3>2, <4>1 DEF DeleteRow
      <4>3. Gone(j)'
        BY <1>0, <4>2, DeleteMoves
      <4>4. deletion'.job = j
        BY <1>0, <2>3, <3>2, <4>1 DEF DeleteRow, DeletionRow
      <4>. QED BY <4>3, <4>4 DEF Gone
    <3>3. CASE ~Exists(deletion.job)
      BY <2>3, <3>3 DEF DeleteRow
    <3>. QED BY <3>2, <3>3
  <2>. QED BY <2>1, <2>2, <2>3
           DEF Caller, SubmitURL, RetryJob, Cleanup, Pass, workerVars, vars
<1>8. RemovalsOfGone'
  BY <1>5, <1>7 DEF RemovalsOfGone, Gone
<1>9. OwnJobOpen'
  <2> SUFFICES ASSUME NEW v \in Workers, Working(v)' PROVE jobs'[worker'[v].job].artifact = NoArtifact
    BY DEF OwnJobOpen
  <2>1. Working(v) /\ worker'[v].job = worker[v].job
    BY <1>1 DEF Working
  <2>2. worker[v].job \in JobIds /\ jobs[worker[v].job].artifact = NoArtifact
    BY <1>0, <2>1 DEF SoleInv, OwnJobOpen, WorkersKnown, AtWork
  <2>. QED BY <1>3, <2>1, <2>2
<1>10. OwnFile'
  <2> SUFFICES ASSUME NEW v \in Workers, worker'[v].pc = "commit"
               PROVE  \/ files'[KeyOf(v)'] = worker'[v].token
                      \/ jobs'[worker'[v].job].status = "none" /\ worker'[v].job <= lastJob'
    BY DEF OwnFile, At, Gone
  <2>1. worker[v].pc = "commit"
    BY <1>1
  <2>2. KeyOf(v) \in Keys /\ KeyOf(v)[1] = worker[v].job /\ worker[v].job \in JobIds
    BY <1>0, <2>1, WorkerKey DEF WorkersKnown, Working, AtWork
  <2>3. files[KeyOf(v)] = worker[v].token \/ Gone(worker[v].job)
    BY <2>1 DEF SoleInv, OwnFile, At
  <2>4. CASE Gone(worker[v].job)
    BY <1>1, <1>3, <2>2, <2>4
  <2>5. CASE ~Gone(worker[v].job)
    BY <1>1, <1>6, <2>2, <2>3, <2>5
  <2>. QED BY <2>4, <2>5
<1>11. PublishedReadable'
  <2>1. ASSUME NEW j \in JobIds, jobs'[j].artifact # NoArtifact, NEW k \in Keys, k[1] = j
        PROVE  files'[k] = files[k]
    <3>1. jobs[j].artifact # NoArtifact
      BY <1>3, <2>1
    <3>2. ~Gone(j)
      BY <1>0, <3>1, GoneHasNoPdf
    <3>. QED BY <1>6, <2>1, <3>2
  <2>. QED BY <1>0, <1>3, <2>1, ReadableStays DEF SoleInv
<1>. QED BY <1>8, <1>9, <1>10, <1>11

\* In the deployment the repository ships, one server process, and as long as
\* Complete does not fail after having been applied, every PDF that a job shows
\* can be opened and is the one that was committed: no lost lease, retry,
\* crash, failed write or deletion in between puts another file in its place
\* or removes it (persist and finish in internal/application/worker.go, Put
\* and Open in internal/filesystem).
THEOREM PublishedCanBeRead ==
  ASSUME SoleWorker, "commit" \notin Adversity
  PROVE  Spec => []PublishedReadable
<1>1. WorkerInit => SoleInv
  <2> SUFFICES ASSUME WorkerInit PROVE SoleInv
    OBVIOUS
  <2>1. WorkerInv
    BY WorkerStarts
  <2>2. OwnJobOpen /\ OwnFile
    BY RestingRows DEF WorkerInit, OwnJobOpen, OwnFile, Working, At
  <2>3. RemovalsOfGone
    BY DEF WorkerInit, StoreInit, RemovalsOfGone
  <2>4. PublishedReadable
    BY DEF WorkerInit, StoreInit, PublishedReadable, NoRow
  <2>. QED BY <2>1, <2>2, <2>3, <2>4 DEF SoleInv
<1>2. SoleInv /\ [Next]_vars => SoleInv'
  <2> SUFFICES ASSUME SoleInv, [Next]_vars PROVE SoleInv'
    OBVIOUS
  <2>1. WorkerInv'
    BY WorkerSteps DEF SoleInv
  <2>2. OwnJobOpen' /\ OwnFile' /\ RemovalsOfGone' /\ PublishedReadable'
    BY <2>1, SoleWorkerSteps, SoleCallerSteps DEF Next
  <2>. QED BY <2>1, <2>2 DEF SoleInv
<1>3. SoleInv => PublishedReadable
  BY DEF SoleInv
<1>. QED BY <1>1, <1>2, <1>3, PTL DEF Spec

=============================================================================
