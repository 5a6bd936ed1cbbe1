# Attic: a TLA+ verification project

Attic keeps a personal archive of web pages. It saves a page, produces a PDF of
it in the background, and emails the PDF to a reading device. This directory
models the parts of Attic on which the owner's data depends: the jobs table and
everything that writes it concurrently, the saved items with their captures,
classification, search index and readings, the pipeline that turns a page into an
approved article, the capture browser, the sign-in and the start of the server.
The specifications are model-checked with TLC, and every safety property that a
passing run checks is also proved with TLAPS, for every value of the constants.

Source paths below are relative to the repository; `PROJECT.json` maps every
definition to its lines.

## 1. The system

One server process (`cmd/attic/main.go`) runs several loops over one PostgreSQL
database and one directory of files:

| component | state | operations | interacts with |
|---|---|---|---|
| jobs table (`internal/postgres/store.go`, `delivery.go`, `migrations/`) | `jobs`, `artifacts`, `deletion_tasks`, idempotency records | CreateOrReuse, CreateRetry, ClaimNext, RenewLease, SetStage, Complete, Requeue, Fail, RequestDelete, CleanupOnce, ClaimDelivery, FinishDelivery | everything below |
| processing worker (`internal/application/worker.go`) | the lease in hand, its position in RunOnce | RunOnce, heartbeat, persist, handleProcessingError | jobs table, artifact files, processor |
| artifact files (`internal/filesystem/store.go`) | one file per `jobID/filename` | Put, Open, Delete | worker, archive, cleanup loop |
| job archive (`internal/application/archive.go`) | none of its own | SubmitURL, RetryJob, DeleteJob, listing | jobs table, files |
| email worker (`internal/delivery`) | the claim in hand, the SMTP session | RunOnce, Send | jobs table, an external relay |
| mail settings (`internal/setup/mail.go`) | settings file, the active destination | Update, Disable | jobs table, email worker, library |
| library: preparing and sending (`internal/library/library.go`) | `saved_items`, `item_actions` | Send, GeneratePDF, Translate (prepare), PausePendingDelivery | jobs table, settings |
| library: captures, deletion, index, enrichment (`internal/library/workers.go`, `recovery.go`, `browser_capture.go`, `enrichment.go`) | captures and their leases, item versions, dirty marks | capture, deletion and indexing loops, recovery of failed items | jobs table, search engine, AI |
| editor and translations (`internal/library/editor.go`, `translation.go`) | `reading_edits`, `reading_editions` | open, save, choose a language | items, jobs table |
| transfer (`internal/library/transfer.go`, `import.go`) | archive files | export, restore, import | all tables |
| processing pipeline (`internal/processing`, `internal/capture/sources.go`) | the run of one job: source, contexts, errors | Process | AI client, acquisition, formatter, capture browser, library |
| AI client and approval (`internal/ai`) | `ai_attempts` | Analyze with one repair, record, approve | a provider, pipeline |
| subscription (`internal/subscription`) | credential file and its lock, one login | sign in, refresh, cancel, disconnect | AI client, settings page, command line |
| capture browser (`internal/recovery`) | one interactive session | start, model steps, takeover, inputs, save, close, time out | owner, AI, library, capture loop, pipeline |
| migrations and readiness (`internal/postgres/migrations.go`, `readiness.go`) | `schema_migrations`, advisory lock | migrate, report readiness | database, server start |
| in-memory store (`internal/memory`) | the same table in maps | the same operations | tests |
| acquisition, sanitizer, formatter, HTTP API, user interface | nothing that outlives a call | | |

What makes this hard:

- Nothing in the worker holds a lock across steps. A lease (token, version,
  expiry) is read once and presented again with every statement. A worker may
  lose it to a successor, to a deletion or to the clock between any two steps,
  and a statement may fail before or after it was applied.
- A PDF is stored in two places, a file and a row, with no transaction over
  both.
- An email cannot be taken back. The relay may have the message although the
  worker saw an error, died, or lost its claim.
- Requests read rows that the worker writes at the same time, without locking
  them. What orders them is often a lock on another row, taken by a trigger, and
  two such locks may be waited for in a circle.
- The capture browser, the model that drives it, the owner who takes it over and
  the jobs that wait for it share one session, and each may be done at any step.
- Two servers, a server and the command line, or two releases may use one
  credential file and one database.

What makes each part correct:

- **jobs table**: no caller, however late, can write a row the schema rejects;
  a lease opens one row and one kind of work; a job is published at most once,
  never revived, and its stored PDF never changes.
- **worker and files**: a published PDF can be opened; no file is forgotten;
  every accepted job settles; losing a lease is survived.
- **email**: one request sends at most one message; "delivered" is only said of
  an accepted message; what waits is sent or reported.
- **saved items**: a page the owner brought in is not replaced by a late
  capture; the owner's tags and title survive every loop; a classification is of
  the text it stands beside; what was removed stays removed, and its files go.
- **search index**: an item that is not marked dirty is indexed as it is; a
  removed one is not found; the index catches up.
- **pipeline and approval**: nothing is published that no recorded approval is
  about; every call of the AI is recorded; the failure of the submitted address
  is the one reported.
- **readings**: what the owner wrote last in a language is shown in it; no editor
  overwrites what it has not shown; nothing is mailed that was not asked for; a
  capture resumes a failed job once.
- **capture browser**: one browser at a time; the owner's takeover is final;
  nothing is saved unasked that still changes; who waits gets the page; every
  session ends.
- **sign-in**: credentials that were removed stay removed; concurrent refreshes
  do not sign the owner out; Cancel returns.
- **start**: migrations of two releases never mix; who serves is migrated.

## 2. Modules

| module | contents |
|---|---|
| `JobLifecycle` | abstract specification: a job is accepted, published with one PDF or given up, and may be removed |
| `JobStore` | the jobs table; one action per transaction; any caller may present any lease |
| `JobWorker` | RunOnce step by step with its heartbeat, the files, the archive's callers, crashes and failures; composes `JobStore` |
| `Delivery` | requests, mail settings, mail workers and the relay; composes `JobStore` |
| `ItemRemoval` | Delete of the library beside the runner; extends `JobWorker` |
| `SavedItems` | the tables of `internal/library`; one action per transaction |
| `Captures` | capture loops, uploads, recovered pages, the classifier, removal, cleanup and archives; composes `SavedItems` |
| `SearchIndex` | IndexOnce in several servers against the search engine; composes `SavedItems` |
| `JobStoreProofs` | the inductive invariant of `JobStore` and the theorems that follow from it; `JobStore` implements `JobLifecycle` |
| `WorkerProofs` | `JobWorker` implements `JobStore`; leases, files and published PDFs |
| `DeliveryProofs` | `Delivery` implements `JobStore`; messages are asked for |
| `CapturesProofs` | the inductive invariants of `Captures` and their theorems |
| `RecoverySession` | the capture browser: Manager, the goroutine of a session, commands, callers of Recover |
| `Pipeline` | one run of Process: edit, saved page, sources, AI, approval, PDF |
| `Editions` | the readings of one item: prepare, the editor, ResumeRecovered |
| `Subscription` | the credential file, logins, Sessions, refresh |
| `Startup` | releases that start, migrate one database and serve it |
| `RecoveryProofs` | the inductive invariant of `RecoverySession` and its theorems |
| `ServerProofs` | the inductive invariants of `Startup` and of `Subscription` and their theorems |
| `ReadingProofs` | the inductive invariants of `Pipeline` and of `Editions` and their theorems |
| `SearchIndexProofs` | the inductive invariant of `SearchIndex` and its theorems |
| `MCJobStore`, `MCJobWorker`, `MCDelivery`, `MCItemRemoval`, `MCCaptures`, `MCSearchIndex`, `MCRecovery` | the modules as they are model-checked, with their symmetries (not used in runs with fairness) |
| `MCServer` | `Subscription` and `Startup` side by side |
| `MCReading` | `Pipeline` and `Editions` side by side |

`MCServer` and `MCReading` each hold two components that share no state. The
variable `part`, chosen initially, says which of the two moves; a behaviour of
the run is a behaviour of one of them with the other at rest, so nothing is lost
and nothing multiplied.

### JobStore

A row is a record with the columns that decide anything: `status`, `stage`,
`attempts` (attempt_count), `token` and `lease` (lease_token,
lease_expires_at), `due` (next_attempt_at), `version`, `failure`
(failure_code), `done` (completed_at is set), `artifact` (the row of
`artifacts`), `dest` (delivery_destination is set), `pending`, `paused`,
`retries` (delivery_retry_count). A deleted or unborn id is `NoRow`.

- Instants are kept as the time left until them, and `Tick` brings all of them
  closer. A lease with 0 left has expired. The process's clock and the
  database's are taken to agree.
- Every action is one transaction. The functions `Claimed`, `Completed`,
  `Requeued`, `DeliveryFinished`, ... say what a statement makes of a row; the
  actions add its conditions. A claim first sweeps the leases that ran out,
  also when it then finds nothing.
- `FOR UPDATE SKIP LOCKED` is the argument `locked`: any set of rows may be
  passed over.
- An artifact's checksum is represented by the lease under which its bytes were
  made: two runs of the processor are taken to produce different bytes.
- `StoreNext` trusts no caller. Any token ever handed out is presented at any
  time, with the version that gets furthest. What is shown of `StoreSpec` thus
  holds for stalled, replaced and duplicated workers alike. The only thing kept
  from the callers is that processing leases come from ClaimNext and delivery
  claims from ClaimDelivery.

### JobWorker

`worker[w].pc` is the position between two steps of RunOnce: `idle`,
`process`, `persist` (SetStage to persisting is next), `put`, `commit`
(Complete is next), `undo` (the file is removed after a failed Complete) and
`fail` (handleProcessingError is next). A worker that is `stopped` returned
ErrLeaseLost from Run, one that is `down` crashed or met a storage failure;
`Restart` is the supervisor. A second worker stands for a replica or a process
that was replaced and has not noticed.

`processor.go` is represented by the stages it can report, in its order and
with its returns to `fetching`, and by its possible results. The heartbeat runs
beside it, including the renewal that is applied although the processor has
returned and cancelled it. DeleteJob is three steps, so that the worker can
complete the job between them.

What goes wrong is counted: `Adversity` names the kinds of events a run allows
(a lease that runs out under its holder, a crash, a statement that fails
whether applied or not, a Complete that does, a disk error) and `MaxAdverse`
how many of them.

### Delivery

`prepare` is split where it reads without a lock on the job: PrepareBegin locks
the item's row and reads the artifact, PrepareLook reads the status, and the last
step writes and commits. Complete is split too: `CompleteBegin` locks the job's
row (`store.go:713`), and `CompleteEnd` is the rest. Its insert of the content
(`store.go:727`) fires a trigger that writes the item showing the job
(`0005_saved_items.up.sql:38-47`), so it waits while a prepare holds that row
(`ItemFree`); a prepare that joins the generation (`library.go:491`) waits while
Complete holds the job's row (`JobLocked`). When each waits for the other
(`Deadlocked`), PostgreSQL aborts one: `PrepareAborted`, where the request is
answered with an error, or `CompleteAborted`, which grants the row to the request
that waited for it, and after which `TryAgain` requeues or fails the job
(`worker.go:140-149`). A job is taken to have its row in
`reading_editions`, as every job that prepare or the editor makes does; inserting
a missing one (`library.go:434`) would also wait for Complete, earlier.

A mail worker claims, sends and finishes in three steps and may be lost between them.
`MailSend` yields any of the four outcomes `SMTP.Send` can report; only
`accepted` and, perhaps, `uncertain` leave a message with the relay. Processing
appears as the steps of a worker that keeps its lease; `JobWorker` has the
others. `asks` and `mails` are history variables that only properties read.

### SavedItems and Captures

A row keeps the columns that decide anything: `url`, `capture`
(capture_status), `token`, `until`, `due`, `attempts` (the capture lease and its
tries), `text` and `title` (where text_content and title came from), `edited`
(title_edited), `tags`, `suggested`, `enrich` (enrichment_status), `version`,
`indexed` (indexed_version) and `bad` (index_error). `captures`, `sources`,
`tombs`, `gone` and `captureTasks` are saved_captures, bookmark_sources,
saved_tombstones, search_deletions and the deletion tasks of captures.

- A capture the server makes is named by its lease; an upload is named by its
  item and page, as its id is a hash of both. The same upload therefore has the
  same id and the same storage key, and a restored file has a new key.
- `partial` counts as `complete`. A page may have no title or no text, or be
  blocked; what each leaves of the row is in `TitleOf` and `TextOf`.
- persistCapture stores its file while it holds the item's row, so it is one
  step with several ends. `PersistInDoubt` and `CallUploadInDoubt` are commits
  whose answer is lost; `Crash` may leave the file.
- Delete is two steps, because it reads the item before it takes its locks.
  EnrichOnce is two steps around its call to the AI. Restore commits item by
  item and may be interrupted.
- `chosen`, `imported`, `wrote`, `classified` and `unwanted` are history
  variables that only properties read.
- The archive is restored into the database it was taken from, where ids and
  addresses meet those that exist.

### SearchIndex

IndexOnce takes the advisory lock and reads (`TakeRemoval`, `TakeItem`), sends
the request (`Send`) and waits for its task (`Succeeds`, `GivesUp`). The engine
is external: a queue of accepted tasks, applied in order. A caller that gives up
leaves its task in the queue. A request is taken to arrive before its caller
gives up or not at all. Everyone else is `ChangeAny`, any transaction of
`SavedItems`. `unlocked` is a history variable: a server whose database session
ended has lost the advisory lock and goes on. `CleanMeansCurrent` and
`RemovedLeaveIndex` are said of the time before that, and `CleanMeansCurrent` of
items that were not restored from an archive, because there the code orders
nothing (section 6). `IndexCatchesUp` is said of all behaviours.

### ItemRemoval

The statements of Delete that concern jobs: the files of artifacts are queued,
then the jobs are deleted, and others commit in between. All jobs of the model
have the address of the item, and `shown` is its `job_id`; `Select` is any request
that points the item at a job. Delete holds the item's row (`workers.go:212`), so
what writes that row waits (`WritesItem`): the end of the shown job, through the
trigger on its content, and its removal. For the other jobs nothing waits. A
deadlock of Complete and Delete leaves what the wait leaves and is not a step.

### RecoverySession

A session's record holds the fields of `active` that decide anything (`status`,
`human`, `decision` for stepCancel, `queue` for inputs, `done`, `result`), its
context and the local variables of `run`; `pc` is the position between two calls
or critical sections. A session that was replaced stays in the table, because a
waiter may hold it. `update` changes nothing once the owner has closed the
browser (`Updated`). A text is told apart by what `clearPage` and `readable` make
of it, and whether it is the same as before. Deadlines may pass at any moment.
`seen` is a history variable.

### Pipeline

One run of Process. `src` is the page at hand: the owner's edit, the saved page,
a source in the order of `Sources`, the text of the embed, the browser. `ctx` is
the context of the job and `budget` that of the sources; each may end at any step
and is looked at where the code does. `Failed` is what an error makes of the
loop. The AI is `Analyze`, at most one `Repair`, `Record` and `ApproveArticle`;
an answer is its class, its decision and its language, and `ParseApproved`
says what becomes of it. `unrecorded`, `proof`, `storeDown` and `own` are history
variables.

### Editions

A job keeps its state, language, edit and delivery. Each request is one
transaction under the lock of the item's row. The editor reads the item and then
the text, and does both again when it saves, before the transaction; ResumeRecovered
reads its candidates before it prepares them. These reads are steps of their own.
Jobs are numbered in the order of their commits. `created_at` is the start of the
transaction, so a request that waited for the row's lock may carry an earlier
instant than the one it waited for; the model does not have that case. `latest`
and `wanted` are history variables; `wanted` holds the jobs that Send reached, and
the job that Resume puts in the place of one of them.

### Subscription

The file is written whole (`save` renames), so reading is one step and writing
another, under the lock `flock`. A login is a state machine of its own, started
by the settings page or by the command line. `op` and `mu` are the mutexes of
Sessions; `op` is held while Cancel waits, `mu` is not. The provider is external:
`issued` is the refresh token it accepts. `lost` records that it gave out a token
that was never stored (an answer lost, a save that failed, a death in between),
and `upto` which logins were over when credentials were last removed.

### Startup

A migration is a version and a name, `Local[p]` the directory of a process. Each
transaction takes the advisory lock, reads and compares the whole history and
then either applies one migration with its record or ends. The comparison
(`Accepts`) is what `validateMigrationHistory` does: every record is a migration
of this release. It does not ask that there is no gap below them, and a migration
of this release that has no record is applied whatever its number (section 6). A
process may fail or die at every step.

## 3. Runs

| run | module, configuration | shows |
|---|---|---|
| `store` | `MCJobStore`, `MCJobStore.cfg` | 2 jobs, 3 leases, untrusted callers: CHECK constraints (`SchemaNeverRejects`), `LeasesAreExclusive`, `PublishedIffArtifact`, `RetriedMailIsNotPaused`, and every step is a step of `JobLifecycle` (`ImplementsLifecycle`) |
| `worker_one` | `MCJobWorker`, `MCWorkerOne.cfg` | one server, two jobs, manual retry, one mishap of any kind but a commit in doubt, with fairness: `PublishedReadable`, `JobSettles` |
| `worker_two` | `MCJobWorker`, `MCWorkerTwo.cfg` | two servers, a lease that runs out or a statement in doubt: `HeldLeaseIsAccurate`, `FilesAccounted`, and the runner only does what `JobStore` allows (`ImplementsStore`), so the theorems about `StoreSpec` apply to it |
| `delivery` | `MCDelivery`, `MCDelivery.cfg` | one job, two requests, a manual retry, two mail workers, settings off and on, with fairness; Complete and prepare may wait for each other and deadlock: `AtMostOneMailPerAsk`, `AskedMailIsQueued`, `WaitingMailSettles` |
| `captures` | `MCCaptures`, `MCCaptures.cfg` | two capture loops of which one is late, beside uploads, recovered pages, recapture, synchronization, removal and an archive: `ImportedPageKept`, `CapturesReadable`, `CaptureFilesAccounted`, `RemovedStaysRemoved` |
| `captures_one` | `MCCaptures`, `MCCapturesOne.cfg` | one loop and the classifier beside edits, uploads, approval and removal, one mishap, with fairness: `OwnerEditsKept`, `ClassifiedIsCurrent`, `CaptureSettles` |
| `index` | `MCSearchIndex`, `MCSearchIndex.cfg` | two servers, two items, four changes, one fault, with fairness: `CleanMeansCurrent`, `RemovedLeaveIndex`, `IndexCatchesUp` |
| `recovery` | `MCRecovery`, `MCRecovery.cfg` | two sessions for two addresses, one waiter that comes twice, two commands, with fairness: `OneBrowser`, `SavedUnaskedWhenStill`, `TakeoverHolds`, `SavedPageIsHandedOver`, `SessionEnds` |
| `server` | `MCServer`, `MCServer.cfg` | two logins, two refreshing callers, a request, two mishaps: `DisconnectSticks`, `StoredTokenIsAccepted`, `CancelReturns`; three releases (one with a gap, one that fills it, one that forked at the gap) with four starts: `HistoryAccounted`, `ServingIsMigrated` |
| `reading` | `MCReading`, `MCReading.cfg` | every kind of address, a language, contexts that end anywhere: `OnlyApprovedIsPublished`, `CallsAreRecorded`, `OriginalFailureKept`; two editors, two resumers, two requests, a capture, two saved readings: `OwnerReadingKept`, `ResumesPerCapture`, `MailOnlyWhenAsked`, `EditsBuildOnShown` |
| `item_removal` | `MCItemRemoval`, `MCItemRemoval.cfg` | violation of `FilesAccounted`, see section 6 |
| `startup_gap` | `MCServer`, `MCServerGap.cfg` | violation of `GapsAreRejected`, see section 6 |

Deadlock is checked in the runs whose loops never end. In `recovery`, `server`,
`startup_gap` and `reading` everything that was bounded may have happened and
everyone may be at rest or done: there `CHECK_DEADLOCK FALSE` is said, and
`SessionEnds` and `CancelReturns` say that nobody is stuck on the way.

Every property has a mutant in `PROJECT.json`: a definition changed the way a
plausible mistake in the code would change it, under which TLC finds the property
violated.

### Bounds

| constant | meaning | why the value is enough |
|---|---|---|
| `MaxJobs` | jobs ever created | two rows meet only through claims and tokens, which `store` and `worker_one` cover with 2; `item_removal` needs a job that the item does not show beside the shown one; the questions of `delivery` concern one job, its item and those who write both (`DeliveryProofs` is for any number) |
| `MaxTokens` | leases handed out | `store`: a late holder, its successor and a delivery; in the other runs it is never reached |
| `MaxVersion` | versions in `BoundedStoreSpec` | 7 takes a job from creation through a delivery, its failure and its retry; in the other modules it is not used |
| `LeaseTicks`, `MailTicks`, `MaxLease` | lease durations and how far renewals pile up | 1 or 2 units: an instant is passed, about to pass, or one renewal away; in `worker_two` a lease can be renewed when it is about to run out |
| `MaxWait`, `Backoff`, `MailBackoff` | delays | one unit per attempt distinguishes "due" from "not yet" |
| `FileNames` | titles a retry may choose | 2 in `worker_two`, where a second lease may choose another title, 1 elsewhere |
| `MaxAttempts` | worker option | 2 in `worker_two` has a retry and a last attempt; 1 in `worker_one`, where a failed job is retried by hand and an expired lease is reclaimed anyway |
| `MaxBeats`, `MaxSources` | renewals and sources under one lease | one more of each repeats the same positions |
| `MaxAdverse`, `Adversity` | mishaps | one per run, of the kinds stated with each configuration |
| `ActionKeys`, `MaxOwner` | owner's calls in `Delivery` | any three of: a first request, a second, a manual retry, switching the settings on |
| `MaxItems`, `Urls`, `Nodes`, `Tags` | items, addresses, bookmarks, tags | one item where the question is about one row, two where an address is saved again or two items share the tables |
| `MaxTokens` (captures) | capture leases | 4 for three tries and one more in `captures`; never reached in `captures_one` |
| `MaxPages`, `Pages` | uploads per item, kinds of pages | the same page uploaded twice; the kinds that differ in title and text where these matter |
| `MaxRestores` | restored items | an item is removed and comes back once |
| `CaptureTicks`, `CaptureWait` | lease and delay | one unit: before and after |
| `Calls`, `MaxCalls`, `Changes`, `MaxChanges` | the owner's and the browser's calls | enough to save, change, remove and save again |
| `Mishaps`, `MaxMishaps`, `Faults`, `MaxFaults` | adverse events | one per run |
| `MaxTasks` | tasks of the engine | never reached in the passing runs |
| `Sources`, `MaxSessions`, `Waiters`, `MaxVisits` | capture browser | a session is joined, refused to another address and replaced once; the proofs are for any number |
| `MaxCommands`, `AutoSteps`, `QueueSize` | commands, model steps, channel | a takeover and an input, or an input and a close; a first and a last step; a channel that is empty, filled and full |
| `Submissions`, `Provider`, `Languages` | pipeline | all kinds of addresses; the subscription, whose answers include all those of a key; with and without translation |
| `MaxAsks`, `MaxCaptures`, `MaxSaves`, `Tabs`, `Resumers` | readings | a reading is saved, another is based on it from a second editor; a job fails and is resumed by two callers |
| `MaxLogins`, `MaxRefreshes`, `MaxMishaps`, `Callers`, `Requests` | sign-in | a login is cancelled or removed while another starts; a token is used, rotated and used again by the second caller |
| `Procs`, `Local`, `MaxStarts` | releases | each starts once and one of them again after a failure; the proofs are for any number |

TLC explores `BoundedStoreSpec`, which only adds the version bound; the proofs
are about `StoreSpec`.

### Fairness

- A worker's loop, a mail worker's loop and the cleanup loop keep running
  (`main.go` calls them for ever; `compose.yaml` restarts a process that ended:
  `restart: unless-stopped`), and time passes. These are weakly fair.
- A DeleteJob call and a prepare transaction that began are finished. Of a
  deadlock one side is aborted, either one.
- The loops of capture, classification and indexing run every two seconds
  (`loop` in `workers.go`), a capture ends within its timeout of three minutes,
  and the search engine works on. These are weakly fair.
- The goroutine of a capture session goes on: every call of the browser, the
  model or the library has a timeout. The timer of a session fires after 15
  minutes. A caller of Recover that can be answered is (`RecoverySession`).
- A login whose context is done ends, since its requests and its wait for the lock
  watch the context, and Cancel goes on when it has (`Subscription`). Nothing is
  asked of the provider.
- Nothing is assumed of the owner's calls, of when heartbeats happen, of the
  settings or of mishaps. In `JobSettles` mishaps are bounded: reclaiming an
  expired lease does not look at attempt_count, so a job whose worker dies every
  time would be tried without end.

## 4. What is proved

TLAPS proves, for every value of the constants:

| theorem | module | statement |
|---|---|---|
| `TypeCorrect` | `JobStoreProofs` | `StoreSpec => []StoreTypeOK` |
| `SchemaKept` | `JobStoreProofs` | `StoreSpec => []SchemaNeverRejects` |
| `PdfWhenPublished` | `JobStoreProofs` | `StoreSpec => []PublishedIffArtifact` |
| `ExclusiveLeases` | `JobStoreProofs` | `StoreSpec => []LeasesAreExclusive` |
| `BoundedTries` | `JobStoreProofs` | `StoreSpec => []TriesBounded` |
| `RetryNotPaused` | `JobStoreProofs` | `StoreSpec => []RetriedMailIsNotPaused` |
| `TableImplementsLifecycle` | `JobStoreProofs` | `StoreSpec => ImplementsLifecycle` |
| `BrowsersDoNotOverlap` | `RecoveryProofs` | `Spec => []OneBrowser` |
| `OwnerKeepsControl` | `RecoveryProofs` | `Spec => TakeoverHolds` |
| `UnaskedSavesAreStill` | `RecoveryProofs` | `Spec => []SavedUnaskedWhenStill` |
| `SavedPagesAreHandedOver` | `RecoveryProofs` | `Spec => SavedPageIsHandedOver` |
| `HistoriesNeverMix` | `ServerProofs` | `StartupSpec => []HistoryAccounted` |
| `ServersAreMigrated` | `ServerProofs` | `StartupSpec => []ServingIsMigrated` |
| `LeasesAreAccurate` | `WorkerProofs` | `Spec => []HeldLeaseIsAccurate` |
| `WorkersUseTheTable` | `WorkerProofs` | `Spec => ImplementsStore /\ ImplementsLifecycle` |
| `NoFileIsForgotten` | `WorkerProofs` | `Spec => []FilesAccounted`, without crashes and disk errors |
| `PublishedCanBeRead` | `WorkerProofs` | `Spec => []PublishedReadable`, with one worker and no commit in doubt |
| `MailsAreAskedFor` | `DeliveryProofs` | `Spec => []AtMostOneMailPerAsk` |
| `JoinedMailIsQueued` | `DeliveryProofs` | `Spec => []AskedMailIsQueued` |
| `DeliveryUsesTheTable` | `DeliveryProofs` | `Spec => StoreSpec /\ ImplementsLifecycle` |
| `RemovalIsFinal` | `ServerProofs` | `SubscriptionSpec => []DisconnectSticks` |
| `RefreshesDoNotSignOut` | `ServerProofs` | `SubscriptionSpec => []StoredTokenIsAccepted` |
| `LateCapturesAreDropped` | `CapturesProofs` | `Spec => []ImportedPageKept` |
| `RemovalsHold` | `CapturesProofs` | `Spec => []RemovedStaysRemoved` |
| `OwnersChoiceStands` | `CapturesProofs` | `Spec => []OwnerEditsKept`, without restores |
| `ClassificationsAreCurrent` | `CapturesProofs` | `Spec => []ClassifiedIsCurrent`, without restores |
| `CapturesCanBeOpened` | `CapturesProofs` | `Spec => []CapturesReadable`, with no commit in doubt and not both uploads and restores |
| `NoCaptureFileIsForgotten` | `CapturesProofs` | `Spec => []CaptureFilesAccounted`, without crashes and restores |
| `CleanItemsAreFound` | `SearchIndexProofs` | `Spec => []CleanMeansCurrent` |
| `RemovedAreNotFound` | `SearchIndexProofs` | `Spec => []RemovedLeaveIndex` |
| `PagesAreApproved` | `ReadingProofs` | `PipelineSpec => []OnlyApprovedIsPublished` |
| `NoCallIsLost` | `ReadingProofs` | `PipelineSpec => []CallsAreRecorded` |
| `SubmittedFailureIsReported` | `ReadingProofs` | `PipelineSpec => []OriginalFailureKept` |
| `OwnersReadingIsShown` | `ReadingProofs` | `EditionsSpec => []OwnerReadingKept` |
| `MailIsAskedFor` | `ReadingProofs` | `EditionsSpec => []MailOnlyWhenAsked` |
| `CapturesResumeOnce` | `ReadingProofs` | `EditionsSpec => []ResumesPerCapture` |
| `EditorsSeeWhatTheyReplace` | `ReadingProofs` | `EditionsSpec => EditsBuildOnShown` |

### The jobs table

`StoreAssumption` only says that the bounds are naturals, that leases last at
least one unit and that `NoName` names no file.

None of these invariants is inductive alone. `TriesBounded` needs that a row in
delivery has been counted; `PublishedIffArtifact` needs that a row in delivery
cannot be requeued by Requeue or Fail, which accept that status, and so needs
`LeasesAreExclusive`; `RetriedMailIsNotPaused` needs that only rows in other
states are paused. `StoreInv` joins them: the type invariant, `RowGood` of every
row, and `LeasesAreExclusive`. `RowGood` is the relation between the columns of
one row that every statement keeps.

The argument goes by rows. For each function that a statement applies to a row
there is a lemma that a good row becomes a good row and keeps or drops its lease
(`Follows`). A lemma per action then shows `StoreInv'`; `NextInv` joins them.

The refinement needs one invariant more, `InOrder`: ids above `lastJob` have no
row and `lastToken` stays within `MaxTokens`, so that "removed" and "absent" can
be told apart and every checksum is a lease that exists. Then every row function
either leaves the phase of its job alone or is exactly one of Accept, Publish,
GiveUp and Remove.

### The capture browser

`RecoveryAssumption` says that the bounds are naturals and that the channel holds
at least one input. `RecoveryInv` joins the types with:

- sessions were started one after the other, and only the last one may not be
  done (`OneAfterTheOther`): a new session replaces one whose `done` channel is
  closed, never one that merely reports its end;
- of every session (`Sound`): a decision of the model that the owner overruled is
  cancelled, the text kept in `previous` is the one last seen since the owner's
  last input, a save nobody asked for comes after two equal observations, and a
  page at another address is saved only when asked for;
- a waiter has a session that was started, and no answer yet.

`OneBrowser` is not inductive without the order of the sessions, and the two
action properties need `Sound` of the state a step starts in. A lemma for each
group of actions shows that a step changes one session into one that is still
sound (`OneMoves`, `Follows`); a few lemmas for starting, shutting down and
answering do the rest.

### The start

`StartupAssumption` says that a release has one migration for a version.
`StartupInv` adds to the two properties that only the holder of the lock is
between reading and committing, that it accepted the history it read, and that
what a process no longer has to do is recorded. The first makes the check of the
history still true at the commit; `ServingIsMigrated` follows from the last when
nothing is left to do.

### The worker and its files

`WorkerAssumption` says that the bounds are naturals, that at least one attempt is
made and that the longest backoff fits into `MaxWait`, the range of `due`
(`MaxAttempts * Backoff <= MaxWait`; it makes Requeue a step of `JobStore`).

`HeldLeaseIsAccurate` is not inductive: a worker that lost an answer may hold an
old version of its lease. `WorkerInv` therefore speaks of every row that still has
the worker's token, whether the store would accept the lease or not (`Fits`): the
row is in processing, its version is not below the worker's, and where the two
are equal so are stage and attempt count. With it every step of RunOnce, of the
heartbeat and of the archive's callers is a step of `StoreNext` or leaves the
table alone, which is `ImplementsStore`; the theorems about `StoreSpec` then hold
of the worker's table.

The two theorems about files have hypotheses, and each of them is necessary:
section 6 describes what happens otherwise. Every other mishap is allowed in
each: `NoFileIsForgotten` holds of any number of workers with leases that run out
and statements in doubt. `PublishedCanBeRead` holds through crashes, disk errors
and lost leases of one worker. It needs that a worker's job has no PDF yet, that
the file before Complete is the worker's own unless the job was deleted, and that
files are only removed for jobs that are gone (`SoleInv`).

### Email

`DeliveryAssumption` says that there are finitely many mail workers. The
argument is a budget: for every job, the messages sent, the workers that may
still send one, however late, and one more while a delivery is owed, together
never exceed the requests that were accepted (`Budget`). A claim moves one unit
from "owed" to "may still send", sending moves it to "sent", a loss spends it,
and only an outcome that cannot have reached the relay gives it back. This needs the
invariant of the table, and that a mail worker only presents tokens of
ClaimDelivery (`MailersKnown`). The facts about cardinalities are those of
`FiniteSetTheorems`.

`AskedMailIsQueued` speaks of a row alone, and what threatens it is a prepare that
saw the job in progress and writes its destination later. `JoinsHold` adds that
such a job has not ended as a PDF since. Every function that a statement
applies to a row keeps an unfinished job unfinished (`Steady`), but for
`Completed`; and CompleteEnd runs only while no prepare holds the item that shows
the job (`ItemFree`), so nobody is about to join what it ends.

### Sign-in

`SubscriptionAssumption` says that callers, requests and logins are different
things and that none of them is `NoOne`. `SubscriptionInv` says that whoever reads
or writes the file holds its lock, that logins are numbered in the order of their
start, that the login Sessions can cancel is its only one that has not ended,
that the logins a removal is to outlast have ended (`Settling`), and that a
refresh works on what is in the file (`Refreshing`). Then a login that stores its
credentials is later than the last removal, and the token a refresh hands in is
the one last issued.

### Saved items and captures

`ItemsAssumption` and `CapturesAssumption` say that the bounds are naturals, that
a lease lasts, that `no_url` is no address and which calls, mishaps and kinds of
page there are. There are three inductive invariants, each an extension of the
first:

- `CapturesInv`: a row is there with an address and an id given out, or not at
  all; an address has one item; the address of an id never changes, neither in
  the table nor in the archive nor in what Delete has read; what the owner
  removed has a tombstone; a lease in a row was handed out after the last page
  that was brought in. `ImportedPageKept` and `RemovedStaysRemoved` follow, for
  all calls and mishaps. The fixed addresses are what makes a late Delete and
  a restore harmless.
- `ReadingInv` adds that the classifier's version is never ahead of the row's and
  that where they are equal tags and text are what was read.
- `KeysInv` adds that a file is stored under the id of its capture, that two items
  never have the same lease, that a lease or upload whose capture was stored,
  archived or queued for deletion is not used for another one, and that a stored
  key is newer than one queued for deletion. `FilesOwned` is
  `CaptureFilesAccounted` said of captures that exist.

`StepKinds` classifies the steps of `Next` by what they do to the tables, so that
each later invariant is shown for seven kinds of steps and not for every action.

The hypotheses about restores were found by these proofs. `captures` does not
reach their violation in four calls; with six calls and two restores TLC shows
that each is necessary (section 6, the two entries about restores and "A restored
upload").

### The search index

`IndexAssumption` says that the bounds are naturals, that `no_server` is no server
and which changes and faults there are; only the first two are used. The two
properties speak of behaviours in which no server lost its lock, the first one
also of libraries into which nothing was restored; so does `IndexInv`, whose
parts are:

- whoever does anything holds the lock (`OneAtATime`), and the task it waits for
  is the last one of the engine's queue, so that a success means an empty queue
  and an index that is as the task wanted it (`LastInQueue`);
- what is being uploaded is saved or waits to be removed (`UploadsKnown`), so no
  upload of an item whose removal is done can be queued (`RemovedStays`);
- without restores, ids are given out once and versions grow (`RowsInOrder`), a
  server has the document of the version it read, of an item that is still dirty
  (`DocsInOrder`), and no task of the queue is about a clean item (`CleanStays`).

`CleanMeansCurrent` is not inductive: a task left behind by a crash or a timeout
could still overwrite a clean item. That it cannot is the last part, and holds
because the lock is taken again only by a server whose own task is queued behind
that one. All transactions of the owner and of the capture loops are covered by
one lemma: they keep a row with its version, raise the version, or remove or
insert the row (`Moves`).

### The pipeline

`PipelineAssumption` says which addresses, providers and languages there are.
`PipelineInv` adds to the three properties what is true at the positions in
between: the loop's `originalErr` is the failure of the submitted address as soon
as that has one (`OriginalIsOwn`); an approving verdict comes from the last call
that was made, and that call succeeded (`CallsMade`); what is formatted is the
owner's edit or has a recorded approval of this source in the wanted language
(`ApprovalFirst`); nothing is published or final before the run is over
(`OverAtTheEnd`). A lemma for each group of positions shows that the steps from
there keep it.

### The readings

`EditionsAssumption` only says that "" (the original) can be asked for and that
the bounds are naturals. `EditionsInv` joins the types and `MailOnlyWhenAsked`
with:

- the last job of each language carries what the owner wrote last in it, and the
  item shows the last job of its language (`LastReadings`), from which
  `OwnerReadingKept` follows;
- the candidate of a caller of ResumeRecovered has failed, is older than some
  capture, and is one that Send reached if the caller has a destination for it
  (`CandidatesHold`), and a resumed job is older than a capture that every
  later job of its language comes after (`ResumedInOrder`). So the captures a
  language's resumed jobs were made after are all different, and there are no
  more of them than captures; the count is a theorem of `FiniteSetTheorems`;
- while the item has the version an editor compared, it shows the job and, once
  the revision was checked, the text that editor has open (`TabsHold`). This is
  what the action property `EditsBuildOnShown` needs of the state before a save.

## 5. What is only model-checked

- Liveness under fairness (`JobSettles`, `WaitingMailSettles`, `CaptureSettles`,
  `IndexCatchesUp`, `SessionEnds`, `CancelReturns`) is
  outside the prover's reach.
- The violations of section 6 are behaviours that TLC found.
- What the theorems with hypotheses leave out (a restore beside uploads, and so
  on) is checked within the bounds of `captures` only.

## 6. Findings

Violations that a run shows:

1. **A PDF completed during removal is forgotten** (`item_removal`). Delete
   removes every job of the item's address and queues their files before it locks
   the jobs (`workers.go:221`, `236`). A job that the item does not show, such as
   an older edition, a job that a saved reading took the place of or one that was
   submitted or retried without the item, may be completed in between; its PDF then
   has neither a row nor a deletion task. For the shown job the trigger of
   `0005_saved_items.up.sql:38-47` needs the item's row, which Delete holds from
   line 212, so the two cannot pass each other.
2. **A gap in the history is not rejected** (`startup_gap`).
   `migrations/README.md:20-21` says that startup rejects "unknown applied versions,
   mismatched names and gaps in the applied history". `validateMigrationHistory`
   (`migrations.go:203-226`) rejects the first two. Where 1 and 3 are recorded and
   the release has 1 to 4, the check passes and applyOne applies 2 after 3
   (`migrations.go:280-302`). The properties of `server` are about what the code
   does: the gap is filled before the process serves.

A deadlock, which the properties survive (`delivery`):

- **Complete and a request that joins** (`store.go:727`, `library.go:491`).
  Complete holds the job's row and its trigger needs the item's; prepare holds the
  item's row (`library.go:409`) and needs the job's. No request that was accepted
  is lost by it (`AskedMailIsQueued`): the same lock on the item's row keeps the
  generation from ending between the status that prepare reads and the row it
  writes. But one side fails. If it is prepare, Send returns an error and the owner
  asks again. If it is Complete, the PDF is deleted and the job is made again from
  the page, or fails when that was its last attempt (`worker.go:140-149`), with a
  storage failure.
- **Complete and Delete** of the shown job wait for each other in the same way
  (`workers.go:212`, `236`): either the removal fails, or the job's PDF goes.

Limits of the properties above. Each is what the code does at
the line, and TLC shows it when the constants or the premise named here are
changed:

- **Two servers and one title** (`filesystem/store.go:187`). The key of a file is
  jobID/filename. With two servers in `MCWorkerOne.cfg`, a worker that lost its
  lease between SetStage and Put renames its file over its successor's published
  one and removes it after its own Complete fails: `PublishedReadable` fails.
- **A commit in doubt** (`worker.go:141`, `workers.go:77`). With `"commit"` among
  the mishaps, the file of a job or of a capture that was committed is deleted:
  `PublishedReadable` and `CapturesReadable` fail. The retry of an upload finds
  its row and stores nothing.
- **A crash after the file was written** (`worker.go:129`, `workers.go:69`).
  With `"crash"`, `FilesAccounted` and `CaptureFilesAccounted` fail.
- **A restored upload** (`browser_capture.go:35`, `workers.go:69`). The key of an
  upload is made of item and page. An item that is exported, gets a page, is
  removed, restored under its id and gets the same page again has the key that
  the first removal queued; cleanup then deletes the new file and
  `CapturesReadable` fails. `captures` does not reach it, `CapturesCanBeOpened`
  excludes it.
- **A second removal after a restore** (`workers.go:217`). With five calls in
  `MCCaptures.cfg`, the completed deletion task of the first removal keeps the
  second from queueing the restored file.
- **A restored item starts at version 1 again** (`transfer.go:456`). Whoever read
  its former row while it was removed and restored passes the version check:
  without their premises `CleanMeansCurrent` and, with `"delete"` and
  `"transfer"`, `ClassifiedIsCurrent` and `OwnerEditsKept` fail.
- **A lost session** (`workers.go:132`). Without its premise `CleanMeansCurrent`
  fails: the server that lost its lock overwrites a newer document.
- **A tombstone on a saved address** (`workers.go:198`). Delete reads the item
  before it locks its address. A second Delete that waits while the owner saves
  the address again marks it as removed. No property is stated about it.
- **A lost lease can stop the server** (`worker.go:113`). A worker whose lease is
  lost while Process fails for a reason of its own reaches `stopped`; `JobSettles`
  shows that the supervisor makes up for it.
- **A delivery under way escapes the pause** (`library.go:517`).
  PausePendingDelivery does not reach rows in status delivering. One that then
  fails temporarily is sent after mail was enabled again, although
  `library.go:514-515` asks for a new Send.
- **A resumed job takes its delivery along** (`recovery.go:34`). ResumeRecovered
  asks for the destination of the failed job and not whether it was paused:
  Send, a pause, a failure and a capture lead to a job that is mailed without a
  new Send. `MailOnlyWhenAsked` therefore counts the successor of a job that Send
  reached as asked for; a resumed job that Send never reached is not mailed.
- **The budget of the sources** (`processor.go:152`). When the eight minutes end
  while the job's context is live, the error of a context reaches the worker,
  which records it as an internal error and does not retry it. `OriginalFailureKept`
  is said of runs whose submitted address failed with a category of its own.
- **A page recovered in the browser** (`processor.go:210`). Its failure is
  returned as it is, and the failure of the submitted address is not.
- **Crashes are not counted** (`store.go:532`). Reclaiming an expired lease does
  not look at attempt_count: a job whose worker dies every time is tried without
  end. Mishaps are bounded in the runs.
- **An index document that is always refused** (`workers.go:152`). The oldest
  dirty item is tried first and a failure leaves its place, so it keeps every
  other item from being indexed. Faults are bounded in the runs.
- **A refresh token that was never stored** (`auth.go:61`). When the answer of
  the provider is lost or `save` fails, the stored token may be one that is no
  longer accepted. `StoredTokenIsAccepted` is said of the other cases.

## 7. Not modelled

- HTML and PDF processing, fetching, sanitizing and formatting: data
  transformations without state that outlives a call. `Pipeline` and `SavedItems`
  meet them as outcomes.
- Prompts and bodies of requests to the AI, and the normalization of its fields.
- HTTP, configuration, user interface, browser extension: decoding and
  rendering around the operations modelled.
- Listing, searching and pagination: reads.
- `delivery_attempts`: rows that are only written.
- Idempotency records of CreateOrReuse and CreateRetry: a unique key and one
  transaction, in which the second insert finds the record of the first.
- The in-memory store: a second implementation of the operations of `JobStore`
  under one mutex, which only tests use.
- Imported bookmark files, and editions and edits in an archive: rows inserted
  under ids nobody else knows yet.
- Skew between the process's clock and the database's.
- Notes, folders, classifications and the texts themselves: data no transaction
  decides on.

## 8. Order of work

The parts where a mistake loses the owner's data or sends mail twice came first:
jobs table, worker with files, email, saved items and their index; then the
capture browser, the pipeline with its approvals, the readings, the sign-in and
the start of the server. What would come next:

1. Theorems with weaker hypotheses where section 4 has some: which restores and
   which uploads may be combined.
2. The SMTP dialogue as a module that implements the outcomes `Delivery` assumes.
3. The idempotency records, with an abstract specification of an idempotent call.
