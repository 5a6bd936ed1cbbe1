--------------------------- MODULE JobStoreProofs ---------------------------
(***************************************************************************)
(* The jobs table keeps its constraints, its PDFs and its leases in order  *)
(* for every number of jobs, leases and callers, and implements            *)
(* JobLifecycle.                                                           *)
(***************************************************************************)
EXTENDS JobStore, TLAPS

\* What every row satisfies.  The fifth conjunct is what makes the others
\* inductive: tries are counted only once there is a PDF.
RowGood(r) ==
    /\ SchemaHolds(r)
    /\ (r.status \in Published) <=> (r.artifact # NoArtifact)
    /\ r.retries <= DeliveryTries
    /\ r.status = "ready" /\ r.pending => r.retries < DeliveryTries
    /\ r.status \notin Published => r.retries = 0
    /\ r.status \in {"delivering", "delivered", "delivery_failed"} => ~r.paused

\* A statement other than a claim leaves the lease alone or drops it.
LeaseKept(r, n) ==
    \/ n.token = r.token /\ n.status = r.status
    \/ n.token = NoToken /\ n.status \notin {"processing", "delivering"}

Follows(r, n) == n \in Row /\ RowGood(n) /\ LeaseKept(r, n)

\* The inductive invariant.
StoreInv ==
    /\ StoreTypeOK
    /\ \A j \in JobIds : RowGood(jobs[j])
    /\ LeasesAreExclusive

USE DEF NoToken, NoName

-----------------------------------------------------------------------------
(* Rows: the types of their fields, and what each statement makes of them *)

LEMMA Names ==
  /\ {"queued", "processing", "delivering", "ready", "delivered",
      "delivery_failed", "failed"} \subseteq Statuses \cup {"none"}
  /\ {"none", "fetching"} \subseteq Stages \cup {"none"}
  /\ Stages \subseteq Stages \cup {"none"} /\ "none" \notin Stages
  /\ Failures = {"none", "processing_failed", "delivery_rejected", "delivery_timeout"}
  /\ LeaseTicks \in Nat /\ MailTicks \in Nat
  BY StoreAssumption DEF Statuses, Stages, Failures

LEMMA Fields ==
  ASSUME NEW r \in Row
  PROVE  /\ r.status \in Statuses \cup {"none"} /\ r.stage \in Stages \cup {"none"}
         /\ r.attempts \in Nat /\ r.token \in Nat /\ r.lease \in Nat
         /\ r.due \in Nat /\ r.version \in Nat /\ r.retries \in Nat
         /\ r.failure \in Failures /\ r.artifact \in Artifacts \cup {NoArtifact}
         /\ r.done \in BOOLEAN /\ r.dest \in BOOLEAN
         /\ r.pending \in BOOLEAN /\ r.paused \in BOOLEAN
         /\ r.attempts + 1 \in Nat /\ r.retries + 1 \in Nat
         /\ r.version + 1 \in Nat /\ r.version + 1 > 0
  <1>1. /\ r.status \in Statuses \cup {"none"} /\ r.stage \in Stages \cup {"none"}
        /\ r.attempts \in Nat /\ r.token \in Nat /\ r.lease \in Nat
        /\ r.due \in Nat /\ r.version \in Nat /\ r.retries \in Nat
        /\ r.failure \in Failures /\ r.artifact \in Artifacts \cup {NoArtifact}
    BY DEF Row
  <1>2. /\ r.done \in BOOLEAN /\ r.dest \in BOOLEAN
        /\ r.pending \in BOOLEAN /\ r.paused \in BOOLEAN
    BY DEF Row
  <1>. QED BY <1>1, <1>2

LEMMA NoRowGood == NoRow \in Row /\ RowGood(NoRow)
  BY DEF NoRow, Row, RowGood, SchemaHolds, NoArtifact, Artifacts, Statuses, Stages,
     Failures, Published, Terminal, DeliveryTries

LEMMA NewRowGood ==
  ASSUME NEW dest \in BOOLEAN
  PROVE  NewRow(dest) \in Row /\ RowGood(NewRow(dest)) /\ NewRow(dest).token = NoToken
         /\ NewRow(dest).status = "queued"
  <1> DEFINE n == NewRow(dest)
  <1>1. n \in Row
    BY NoRowGood, Names DEF NewRow, Row
  <1>2. /\ n.status = "queued" /\ n.stage = NoRow.stage /\ n.token = NoRow.token
        /\ n.version = 1 /\ n.failure = NoRow.failure /\ n.done = NoRow.done
        /\ n.artifact = NoRow.artifact /\ n.retries = NoRow.retries
    BY NoRowGood DEF NewRow, Row
  <1>3. /\ n.stage = "none" /\ n.token = NoToken /\ n.failure = "none" /\ ~n.done
        /\ n.artifact = NoArtifact /\ n.retries = 0
    BY <1>2 DEF NoRow
  <1> HIDE DEF n
  <1>4. RowGood(n)
    BY <1>2, <1>3 DEF RowGood, SchemaHolds, Published, DeliveryTries
  <1>. QED BY <1>1, <1>2, <1>3, <1>4 DEF n

LEMMA ClaimedGood ==
  ASSUME NEW r \in Row, RowGood(r), r.status = "queued", NEW t \in Nat \ {0}
  PROVE  Claimed(r, t) \in Row /\ RowGood(Claimed(r, t)) /\ Claimed(r, t).token = t
         /\ Claimed(r, t).status = "processing"
  <1> DEFINE n == Claimed(r, t)
  <1>1. n \in Row
    BY Fields, Names DEF Claimed, Row
  <1>2. /\ n.status = "processing" /\ n.stage = "fetching" /\ n.token = t
        /\ n.version = r.version + 1 /\ n.failure = r.failure /\ n.done = r.done
        /\ n.artifact = r.artifact /\ n.retries = r.retries
    BY DEF Claimed, Row
  <1> HIDE DEF n
  <1>3. SchemaHolds(n)
    BY <1>2, Fields DEF RowGood, SchemaHolds, Terminal
  <1>4. RowGood(n)
    BY <1>2, <1>3 DEF RowGood, Published
  <1>. QED BY <1>1, <1>2, <1>4 DEF n

LEMMA RenewedGood ==
  ASSUME NEW r \in Row, RowGood(r), r.status = "processing"
  PROVE  Follows(r, Renewed(r))
  <1> DEFINE n == Renewed(r)
  <1>0. r.lease + LeaseTicks \in Nat
    BY Fields, Names
  <1>1. n \in Row
    BY <1>0, Fields, Names DEF Renewed, Row
  <1>2. /\ n.status = r.status /\ n.stage = r.stage /\ n.token = r.token
        /\ n.version = r.version + 1 /\ n.failure = r.failure /\ n.done = r.done
        /\ n.artifact = r.artifact /\ n.retries = r.retries
    BY DEF Renewed, Row
  <1> HIDE DEF n
  <1>3. SchemaHolds(n)
    BY <1>2, Fields DEF RowGood, SchemaHolds, Terminal
  <1>4. RowGood(n)
    BY <1>2, <1>3 DEF RowGood, Published
  <1>. QED BY <1>1, <1>2, <1>4 DEF n, Follows, LeaseKept

LEMMA StagedGood ==
  ASSUME NEW r \in Row, RowGood(r), r.status = "processing", NEW stage \in Stages
  PROVE  Follows(r, Staged(r, stage))
  <1> DEFINE n == Staged(r, stage)
  <1>1. n \in Row
    BY Fields, Names DEF Staged, Row
  <1>2. /\ n.status = r.status /\ n.stage = stage /\ n.token = r.token
        /\ n.version = r.version + 1 /\ n.failure = r.failure /\ n.done = r.done
        /\ n.artifact = r.artifact /\ n.retries = r.retries
    BY DEF Staged, Row
  <1> HIDE DEF n
  <1>3. SchemaHolds(n)
    BY <1>2, Fields, Names DEF RowGood, SchemaHolds, Terminal
  <1>4. RowGood(n)
    BY <1>2, <1>3 DEF RowGood, Published
  <1>. QED BY <1>1, <1>2, <1>4 DEF n, Follows, LeaseKept

LEMMA CompletedGood ==
  ASSUME NEW r \in Row, RowGood(r), r.status = "processing",
         NEW a \in Artifacts, a # NoArtifact
  PROVE  Follows(r, Completed(r, a))
  <1> DEFINE n == Completed(r, a)
  <1>1. n \in Row
    BY Fields, Names DEF Completed, Leaseless, Row
  <1>2. /\ n.status = "ready" /\ n.stage = "none" /\ n.token = NoToken
        /\ n.version = r.version + 1 /\ n.failure = r.failure
        /\ n.artifact = a /\ n.retries = r.retries
    BY DEF Completed, Leaseless, Row
  <1> HIDE DEF n
  <1>3. SchemaHolds(n)
    BY <1>2, Fields DEF RowGood, SchemaHolds, Terminal
  <1>4. RowGood(n)
    BY <1>2, <1>3 DEF RowGood, Published, DeliveryTries
  <1>. QED BY <1>1, <1>2, <1>4 DEF n, Follows, LeaseKept

LEMMA RequeuedGood ==
  ASSUME NEW r \in Row, RowGood(r), r.status = "processing", NEW wait \in Nat
  PROVE  Follows(r, Requeued(r, wait))
  <1> DEFINE n == Requeued(r, wait)
  <1>1. n \in Row
    BY Fields, Names DEF Requeued, Leaseless, Row
  <1>2. /\ n.status = "queued" /\ n.stage = "none" /\ n.token = NoToken
        /\ n.version = r.version + 1 /\ n.failure = "none" /\ n.done = r.done
        /\ n.artifact = r.artifact /\ n.retries = r.retries
    BY DEF Requeued, Leaseless, Row
  <1> HIDE DEF n
  <1>3. SchemaHolds(n)
    BY <1>2, Fields DEF RowGood, SchemaHolds, Terminal
  <1>4. RowGood(n)
    BY <1>2, <1>3 DEF RowGood, Published
  <1>. QED BY <1>1, <1>2, <1>4 DEF n, Follows, LeaseKept

LEMMA FailedGood ==
  ASSUME NEW r \in Row, RowGood(r), r.status = "processing"
  PROVE  Follows(r, Failed(r))
  <1> DEFINE n == Failed(r)
  <1>1. n \in Row
    BY Fields, Names DEF Failed, Leaseless, Row
  <1>2. /\ n.status = "failed" /\ n.stage = "none" /\ n.token = NoToken
        /\ n.version = r.version + 1 /\ n.failure = "processing_failed"
        /\ n.artifact = r.artifact /\ n.retries = r.retries
    BY DEF Failed, Leaseless, Row
  <1> HIDE DEF n
  <1>3. SchemaHolds(n)
    BY <1>2, Fields DEF RowGood, SchemaHolds, Terminal
  <1>4. RowGood(n)
    BY <1>2, <1>3 DEF RowGood, Published
  <1>. QED BY <1>1, <1>2, <1>4 DEF n, Follows, LeaseKept

LEMMA ReclaimedGood ==
  ASSUME NEW r \in Row, RowGood(r), r.status = "processing"
  PROVE  Follows(r, Reclaimed(r))
  <1> DEFINE n == Reclaimed(r)
  <1>1. n \in Row
    BY Fields, Names, ZenonT(60) DEF Reclaimed, Leaseless, Row
  <1>2. /\ n.status = "queued" /\ n.stage = "none" /\ n.token = NoToken
        /\ n.version = r.version + 1 /\ n.failure = "none" /\ n.done = FALSE
        /\ n.artifact = r.artifact /\ n.retries = r.retries
    BY DEF Reclaimed, Leaseless, Row
  <1> HIDE DEF n
  <1>3. SchemaHolds(n)
    BY <1>2, Fields DEF RowGood, SchemaHolds, Terminal
  <1>4. RowGood(n)
    BY <1>2, <1>3 DEF RowGood, Published
  <1>. QED BY <1>1, <1>2, <1>4 DEF n, Follows, LeaseKept

LEMMA DeliveryExpiredGood ==
  ASSUME NEW r \in Row, RowGood(r), r.status = "delivering"
  PROVE  Follows(r, DeliveryExpired(r))
  <1> DEFINE n == DeliveryExpired(r)
  <1>1. n \in Row
    BY Fields, Names, ZenonT(60) DEF DeliveryExpired, Leaseless, Row
  <1>2. /\ n.status = "delivery_failed" /\ n.stage = "none" /\ n.token = NoToken
        /\ n.version = r.version + 1 /\ n.failure = "delivery_timeout"
        /\ n.artifact = r.artifact /\ n.retries = r.retries /\ n.paused = r.paused
    BY DEF DeliveryExpired, Leaseless, Row
  <1> HIDE DEF n
  <1>3. SchemaHolds(n)
    BY <1>2, Fields DEF RowGood, SchemaHolds, Terminal
  <1>4. RowGood(n)
    BY <1>2, <1>3 DEF RowGood, Published
  <1>. QED BY <1>1, <1>2, <1>4 DEF n, Follows, LeaseKept

LEMMA DeliveryClaimedGood ==
  ASSUME NEW r \in Row, RowGood(r), r.status = "ready", r.pending, ~r.paused,
         NEW t \in Nat \ {0}
  PROVE  DeliveryClaimed(r, t) \in Row /\ RowGood(DeliveryClaimed(r, t))
         /\ DeliveryClaimed(r, t).token = t /\ DeliveryClaimed(r, t).status = "delivering"
  <1> DEFINE n == DeliveryClaimed(r, t)
  <1>1. n \in Row
    BY Fields, Names DEF DeliveryClaimed, Row
  <1>2. /\ n.status = "delivering" /\ n.stage = r.stage /\ n.token = t
        /\ n.version = r.version + 1 /\ n.failure = r.failure /\ n.done = FALSE
        /\ n.artifact = r.artifact /\ n.retries = r.retries + 1 /\ n.paused = r.paused
    BY DEF DeliveryClaimed, Row
  <1> HIDE DEF n
  <1>3. SchemaHolds(n)
    BY <1>2, Fields DEF RowGood, SchemaHolds, Terminal
  <1>4. RowGood(n)
    BY <1>2, <1>3, Fields DEF RowGood, Published, DeliveryTries
  <1>. QED BY <1>1, <1>2, <1>4 DEF n, RowGood

LEMMA EmailRetriedGood ==
  ASSUME NEW r \in Row, RowGood(r), r.status \in {"ready", "delivered", "delivery_failed"}
  PROVE  Follows(r, EmailRetried(r))
  <1> DEFINE n == EmailRetried(r)
  <1>1. n \in Row
    BY Fields, Names DEF EmailRetried, Row
  <1>2. /\ n.status = "ready" /\ n.stage = r.stage /\ n.token = r.token
        /\ n.version = r.version + 1 /\ n.failure = "none" /\ n.done = r.done
        /\ n.artifact = r.artifact /\ n.retries = 0
    BY DEF EmailRetried, Row
  <1> HIDE DEF n
  <1>3. SchemaHolds(n)
    BY <1>2, Fields DEF RowGood, SchemaHolds, Terminal
  <1>4. RowGood(n)
    BY <1>2, <1>3 DEF RowGood, Published, DeliveryTries
  <1>. QED BY <1>1, <1>2, <1>4 DEF n, Follows, LeaseKept, RowGood, SchemaHolds

LEMMA JoinedGood ==
  ASSUME NEW r \in Row, RowGood(r)
  PROVE  Follows(r, Joined(r))
  <1> DEFINE n == Joined(r)
  <1>1. n \in Row
    BY Fields, Names DEF Joined, Row
  <1>2. /\ n.status = r.status /\ n.stage = r.stage /\ n.token = r.token
        /\ n.version = r.version /\ n.failure = r.failure /\ n.done = r.done
        /\ n.artifact = r.artifact /\ n.retries = r.retries /\ n.pending = r.pending
        /\ n.paused = FALSE
    BY DEF Joined, Row
  <1> HIDE DEF n
  <1>3. SchemaHolds(n)
    BY <1>2, Fields DEF RowGood, SchemaHolds, Terminal
  <1>4. RowGood(n)
    BY <1>2, <1>3 DEF RowGood, Published
  <1>. QED BY <1>1, <1>2, <1>4 DEF n, Follows, LeaseKept

LEMMA EmailRequestedGood ==
  ASSUME NEW r \in Row, RowGood(r), r.artifact # NoArtifact,
         r.status \notin {"processing", "delivering"}
  PROVE  Follows(r, EmailRequested(r))
  <1> DEFINE m == EmailRetried(r)
             n == EmailRequested(r)
  <1>1. r.status \in {"ready", "delivered", "delivery_failed"}
    BY DEF RowGood, Published
  <1>2. m \in Row /\ RowGood(m) /\ m.status = "ready" /\ m.token = NoToken
    <2>1. Follows(r, m) /\ r.token = NoToken
      BY <1>1, EmailRetriedGood DEF RowGood, SchemaHolds
    <2>2. m.status = "ready"
      BY DEF EmailRetried, Row
    <2>. QED BY <2>1, <2>2 DEF Follows, LeaseKept
  <1> HIDE DEF m
  <1>3. n = [m EXCEPT !.paused = FALSE, !.dest = TRUE]
    BY DEF m, EmailRequested
  <1> HIDE DEF n
  <1>4. n \in Row
    BY <1>2, <1>3, Fields DEF Row
  <1>5. /\ n.status = m.status /\ n.stage = m.stage /\ n.token = m.token
        /\ n.version = m.version /\ n.failure = m.failure /\ n.done = m.done
        /\ n.artifact = m.artifact /\ n.retries = m.retries /\ n.pending = m.pending
        /\ n.paused = FALSE
    BY <1>2, <1>3 DEF Row
  <1>6. RowGood(n)
    BY <1>2, <1>5 DEF RowGood, SchemaHolds, Published
  <1>. QED BY <1>2, <1>4, <1>5, <1>6 DEF n, Follows, LeaseKept

LEMMA DeliveryFinishedGood ==
  ASSUME NEW r \in Row, RowGood(r), r.status = "delivering", NEW outcome \in Outcomes
  PROVE  Follows(r, DeliveryFinished(r, outcome))
  <1> DEFINE n == DeliveryFinished(r, outcome)
             s == OutcomeStatus(r, outcome)
             f == OutcomeFailure(r, outcome)
             p == WillRetry(r, outcome)
             d == r.retries * MailBackoff
  <1>1. d \in Nat
    BY Fields, StoreAssumption
  <1>0. p \in BOOLEAN
    BY DEF WillRetry
  <1>2. p => r.retries < DeliveryTries /\ outcome = "transient_failure"
    BY DEF WillRetry
  <1>3. \/ s = "delivered" /\ f = "none"
        \/ p /\ s = "ready" /\ f = "none"
        \/ s = "delivery_failed" /\ f \in {"delivery_rejected", "delivery_timeout"}
    BY <1>2 DEF OutcomeStatus, OutcomeFailure
  <1> HIDE DEF s, f, p, d
  <1>4. n = [Leaseless(r, s) EXCEPT !.failure = f, !.pending = p, !.done = TRUE, !.due = d]
    BY DEF DeliveryFinished, s, f, p, d
  <1>5. s \in Statuses \cup {"none"} /\ f \in Failures
    BY <1>3, Names
  <1> HIDE DEF n
  <1>6. n \in Row
    <2> DEFINE m == Leaseless(r, s)
    <2>1. m \in Row
      BY <1>5, Fields, Names DEF Leaseless, Row
    <2> HIDE DEF m
    <2>2. n = [m EXCEPT !.failure = f, !.pending = p, !.done = TRUE, !.due = d]
      BY <1>4 DEF m
    <2>. QED BY <1>0, <1>1, <1>5, <2>1, <2>2 DEF Row
  <1>7. /\ n.status = s /\ n.stage = "none" /\ n.token = NoToken
        /\ n.version = r.version + 1 /\ n.failure = f
        /\ n.artifact = r.artifact /\ n.retries = r.retries
        /\ n.pending = p /\ n.paused = r.paused
    BY <1>4 DEF Leaseless, Row
  <1>8. SchemaHolds(n)
    BY <1>3, <1>7, Fields DEF RowGood, SchemaHolds, Terminal
  <1>9. RowGood(n)
    BY <1>2, <1>3, <1>7, <1>8 DEF RowGood, Published
  <1>. QED BY <1>3, <1>6, <1>7, <1>9 DEF n, Follows, LeaseKept

LEMMA SameGood ==
  ASSUME NEW r \in Row, RowGood(r)
  PROVE  Follows(r, r)
  BY DEF Follows, LeaseKept

LEMMA PausedGood ==
  ASSUME NEW r \in Row, RowGood(r)
  PROVE  Follows(r, Paused(r))
  <1>1. CASE r.dest /\ r.status \in {"queued", "processing", "ready", "failed"}
    <2> DEFINE n == [r EXCEPT !.paused = TRUE]
    <2>1. Paused(r) = n
      BY <1>1 DEF Paused
    <2>2. n \in Row
      BY Fields DEF Row
    <2>3. /\ n.status = r.status /\ n.stage = r.stage /\ n.token = r.token
          /\ n.version = r.version /\ n.failure = r.failure /\ n.done = r.done
          /\ n.artifact = r.artifact /\ n.retries = r.retries /\ n.pending = r.pending
      BY DEF Row
    <2> HIDE DEF n
    <2>4. RowGood(n)
      BY <1>1, <2>3 DEF RowGood, SchemaHolds, Published
    <2>. QED BY <2>1, <2>2, <2>3, <2>4 DEF Follows, LeaseKept
  <1>2. CASE ~(r.dest /\ r.status \in {"queued", "processing", "ready", "failed"})
    BY <1>2, SameGood DEF Paused
  <1>. QED BY <1>1, <1>2

LEMMA AgedGood ==
  ASSUME NEW r \in Row, RowGood(r)
  PROVE  Follows(r, Aged(r))
  <1> DEFINE n == Aged(r)
  <1>1. Earlier(r.lease) \in Nat /\ Earlier(r.due) \in Nat
    BY Fields DEF Earlier
  <1>2. n \in Row
    BY <1>1, Fields DEF Aged, Row
  <1>3. /\ n.status = r.status /\ n.stage = r.stage /\ n.token = r.token
        /\ n.version = r.version /\ n.failure = r.failure /\ n.done = r.done
        /\ n.artifact = r.artifact /\ n.retries = r.retries /\ n.pending = r.pending
        /\ n.paused = r.paused
    BY DEF Aged, Row
  <1> HIDE DEF n
  <1>4. RowGood(n)
    BY <1>3 DEF RowGood, SchemaHolds, Published
  <1>. QED BY <1>2, <1>3, <1>4 DEF n, Follows, LeaseKept

LEMMA SweptGood ==
  ASSUME NEW r \in Row, RowGood(r)
  PROVE  Follows(r, Swept(r)) /\ Follows(r, MailSwept(r))
  <1>1. CASE r.status = "delivering" /\ r.lease = 0
    BY <1>1, DeliveryExpiredGood DEF Swept, MailSwept
  <1>2. CASE r.status = "processing" /\ r.lease = 0
    <2>1. Swept(r) = Reclaimed(r) /\ MailSwept(r) = r
      BY <1>2 DEF Swept, MailSwept
    <2>. QED BY <1>2, <2>1, ReclaimedGood, SameGood
  <1>3. CASE ~(r.status \in {"delivering", "processing"} /\ r.lease = 0)
    <2>1. Swept(r) = r /\ MailSwept(r) = r
      BY <1>3 DEF Swept, MailSwept
    <2>. QED BY <2>1, SameGood
  <1>. QED BY <1>1, <1>2, <1>3

\* A PDF that is there has a name.
LEMMA ArtifactNamed ==
  ASSUME NEW r \in Row, RowGood(r), r.artifact # NoArtifact
  PROVE  r.artifact.name \in FileNames
  BY Fields DEF Artifacts

-----------------------------------------------------------------------------
(* Tables *)

LEMMA RowsOfTable ==
  ASSUME StoreInv, NEW j \in JobIds
  PROVE  jobs[j] \in Row /\ RowGood(jobs[j])
  BY DEF StoreInv, StoreTypeOK

\* A statement that claims nothing.
LEMMA RowsFollow ==
  ASSUME StoreInv,
         jobs' \in [JobIds -> Row],
         \A j \in JobIds : Follows(jobs[j], jobs'[j]),
         UNCHANGED tokenVars, lastJob' \in 0..MaxJobs, tasks' \subseteq Keys
  PROVE  StoreInv'
  <1>1. StoreTypeOK'
    BY DEF StoreInv, StoreTypeOK, tokenVars
  <1>2. \A j \in JobIds : RowGood(jobs'[j])
    BY DEF Follows
  <1>3. LeasesAreExclusive'
    BY DEF StoreInv, StoreTypeOK, LeasesAreExclusive, Follows, LeaseKept, tokenVars
  <1>. QED BY <1>1, <1>2, <1>3 DEF StoreInv

LEMMA OneRowFollows ==
  ASSUME StoreInv, NEW j \in JobIds, NEW STATE n, SetRow(j, n), Follows(jobs[j], n),
         UNCHANGED tokenVars, lastJob' \in 0..MaxJobs, tasks' \subseteq Keys
  PROVE  StoreInv'
  <1>1. jobs' = [jobs EXCEPT ![j] = n] /\ jobs \in [JobIds -> Row] /\ n \in Row
    BY DEF SetRow, StoreInv, StoreTypeOK, Follows
  <1>2. jobs' \in [JobIds -> Row]
    BY <1>1
  <1>3. ASSUME NEW i \in JobIds
        PROVE  Follows(jobs[i], jobs'[i])
    <2>1. CASE i = j
      BY <1>1, <2>1
    <2>2. CASE i # j
      <3>1. jobs'[i] = jobs[i]
        BY <1>1, <2>2
      <3>. QED BY <3>1, RowsOfTable, SameGood
    <2>. QED BY <2>1, <2>2
  <1>. QED BY <1>2, <1>3, RowsFollow

\* A statement that claims job j under a new token; the sweep before it has
\* dropped leases only.
LEMMA ClaimFollows ==
  ASSUME StoreInv, NEW j \in JobIds,
         jobs' \in [JobIds -> Row],
         \A i \in JobIds \ {j} : Follows(jobs[i], jobs'[i]),
         RowGood(jobs'[j]), jobs'[j].token = lastToken + 1,
         \/ jobs'[j].status = "processing" /\ mailTokens' = mailTokens
         \/ /\ jobs'[j].status = "delivering"
            /\ mailTokens' = mailTokens \cup {lastToken + 1},
         lastToken' = lastToken + 1, UNCHANGED <<lastJob, tasks>>
  PROVE  StoreInv'
  <1>1. lastToken \in Nat /\ mailTokens \subseteq 1..lastToken
    BY DEF StoreInv, StoreTypeOK
  <1>2. StoreTypeOK'
    <2>1. 1..lastToken \subseteq 1..(lastToken + 1) /\ lastToken + 1 \in 1..(lastToken + 1)
      BY <1>1
    <2>2. lastToken' \in Nat
      BY <1>1
    <2>3. mailTokens' \subseteq 1..(lastToken + 1)
      <3>1. mailTokens' = mailTokens \/ mailTokens' = mailTokens \cup {lastToken + 1}
        OBVIOUS
      <3>. QED BY <1>1, <2>1, <3>1, Zenon
    <2>. QED BY <2>2, <2>3 DEF StoreInv, StoreTypeOK
  <1>3. \A i \in JobIds : RowGood(jobs'[i])
    BY DEF Follows
  <1>4. \A i \in JobIds : jobs[i].token \in Nat /\ jobs[i].token <= lastToken
    BY RowsOfTable, Fields DEF StoreInv, LeasesAreExclusive
  <1>5. \A i \in JobIds \ {j} :
           /\ jobs'[i].token = jobs[i].token \/ jobs'[i].token = NoToken
           /\ jobs'[i].token <= lastToken
    BY <1>1, <1>4 DEF Follows, LeaseKept
  <1>6. \A i, k \in JobIds :
           jobs'[i].token = jobs'[k].token /\ i # k => jobs'[i].token = NoToken
    <2>1. ASSUME NEW i \in JobIds \ {j}, NEW k \in JobIds \ {j}, i # k,
                 jobs'[i].token = jobs'[k].token
          PROVE  jobs'[i].token = NoToken
      BY <1>5, <2>1 DEF StoreInv, LeasesAreExclusive
    <2>2. ASSUME NEW i \in JobIds \ {j}
          PROVE  jobs'[i].token # jobs'[j].token
      BY <1>1, <1>4, <1>5
    <2>. QED BY <2>1, <2>2
  <1>7. ASSUME NEW i \in JobIds
        PROVE  /\ jobs'[i].token <= lastToken'
               /\ jobs'[i].status = "delivering" => jobs'[i].token \in mailTokens'
               /\ jobs'[i].status = "processing" => jobs'[i].token \notin mailTokens'
    <2>1. CASE i = j
      BY <1>1, <2>1
    <2>2. CASE i # j
      <3>1. jobs'[i].token <= lastToken' /\ jobs'[i].token # lastToken + 1
        BY <1>1, <1>4, <1>5, <2>2
      <3>2. Follows(jobs[i], jobs'[i])
        BY <2>2
      <3>3. /\ jobs'[i].status = "delivering" => jobs'[i].token \in mailTokens
            /\ jobs'[i].status = "processing" => jobs'[i].token \notin mailTokens
        BY <3>2 DEF Follows, LeaseKept, StoreInv, LeasesAreExclusive
      <3>. QED BY <3>1, <3>3
    <2>. QED BY <2>1, <2>2
  <1>8. LeasesAreExclusive'
    BY <1>6, <1>7 DEF LeasesAreExclusive
  <1>. QED BY <1>2, <1>3, <1>8 DEF StoreInv

-----------------------------------------------------------------------------
(* Steps *)

LEMMA InitInv == StoreInit => StoreInv
  <1> SUFFICES ASSUME StoreInit PROVE StoreInv
    OBVIOUS
  <1>1. \A j \in JobIds : jobs[j] = NoRow
    BY DEF StoreInit
  <1>2. StoreTypeOK
    BY NoRowGood, StoreAssumption DEF StoreInit, StoreTypeOK
  <1>3. NoRow.token = 0 /\ NoRow.status = "none"
    BY DEF NoRow
  <1>4. LeasesAreExclusive
    BY <1>1, <1>3 DEF LeasesAreExclusive, StoreInit
  <1>. QED BY <1>1, <1>2, <1>4, NoRowGood DEF StoreInv

LEMMA CreateJobInv ==
  ASSUME StoreInv, NEW dest \in BOOLEAN, CreateJob(dest)
  PROVE  StoreInv'
  <1>1. lastJob + 1 \in JobIds /\ lastJob' \in 0..MaxJobs
    BY StoreAssumption DEF StoreInv, StoreTypeOK, CreateJob, JobIds
  <1>2. Follows(jobs[lastJob + 1], NewRow(dest))
    BY NewRowGood DEF Follows, LeaseKept
  <1>3. SetRow(lastJob + 1, NewRow(dest)) /\ UNCHANGED tokenVars /\ tasks' \subseteq Keys
    BY DEF CreateJob, StoreInv, StoreTypeOK
  <1> DEFINE k == lastJob + 1
  <1>4. PICK j \in JobIds : j = k
    BY <1>1
  <1>. QED BY <1>1, <1>2, <1>3, <1>4, OneRowFollows

LEMMA ClaimNextInv ==
  ASSUME StoreInv, NEW locked \in SUBSET JobIds, ClaimNext(locked)
  PROVE  StoreInv'
  <1> DEFINE swept == [j \in JobIds |-> Swept(jobs[j])]
  <1>1. PICK j \in Claimable(swept) \ locked :
           jobs' = [swept EXCEPT ![j] = Claimed(@, lastToken + 1)]
    BY DEF ClaimNext
  <1>2. \A i \in JobIds : swept[i] \in Row /\ RowGood(swept[i]) /\ Follows(jobs[i], swept[i])
    BY RowsOfTable, SweptGood DEF Follows
  <1>3. swept \in [JobIds -> Row]
    BY <1>2
  <1>4. j \in JobIds /\ swept[j].status = "queued"
    BY <1>1 DEF Claimable
  <1>5. lastToken + 1 \in Nat \ {0}
    BY DEF StoreInv, StoreTypeOK
  <1> HIDE DEF swept
  <1>6. jobs'[j] = Claimed(swept[j], lastToken + 1)
    BY <1>1, <1>3, <1>4
  <1>7. /\ jobs'[j] \in Row /\ RowGood(jobs'[j])
        /\ jobs'[j].token = lastToken + 1 /\ jobs'[j].status = "processing"
    BY <1>2, <1>4, <1>5, <1>6, ClaimedGood
  <1>8. \A i \in JobIds \ {j} : jobs'[i] = swept[i]
    BY <1>1, <1>3
  <1>9. jobs' \in [JobIds -> Row]
    BY <1>1, <1>3, <1>4, <1>6, <1>7
  <1>. QED BY <1>2, <1>4, <1>7, <1>8, <1>9, ClaimFollows DEF ClaimNext

LEMMA ClaimDeliveryInv ==
  ASSUME StoreInv, NEW j \in JobIds, ClaimDelivery(j)
  PROVE  StoreInv'
  <1> DEFINE swept == [i \in JobIds |-> MailSwept(jobs[i])]
  <1>1. /\ jobs' = [swept EXCEPT ![j] = DeliveryClaimed(@, lastToken + 1)]
        /\ swept[j].status = "ready" /\ swept[j].pending /\ ~swept[j].paused
    BY DEF ClaimDelivery
  <1>2. \A i \in JobIds : swept[i] \in Row /\ RowGood(swept[i]) /\ Follows(jobs[i], swept[i])
    BY RowsOfTable, SweptGood DEF Follows
  <1>3. swept \in [JobIds -> Row]
    BY <1>2
  <1>5. lastToken + 1 \in Nat \ {0}
    BY DEF StoreInv, StoreTypeOK
  <1> HIDE DEF swept
  <1>6. jobs'[j] = DeliveryClaimed(swept[j], lastToken + 1)
    BY <1>1, <1>3
  <1>7. /\ jobs'[j] \in Row /\ RowGood(jobs'[j])
        /\ jobs'[j].token = lastToken + 1 /\ jobs'[j].status = "delivering"
    BY <1>1, <1>2, <1>5, <1>6, DeliveryClaimedGood
  <1>8. \A i \in JobIds \ {j} : jobs'[i] = swept[i]
    BY <1>1, <1>3
  <1>9. jobs' \in [JobIds -> Row]
    BY <1>1, <1>3, <1>6, <1>7
  <1>. QED BY <1>2, <1>7, <1>8, <1>9, ClaimFollows DEF ClaimDelivery

\* A processing token that the table accepts belongs to a row in processing.
LEMMA LeaseHeldProcessing ==
  ASSUME StoreInv, NEW j \in JobIds, NEW token \in (1..lastToken) \ mailTokens,
         LeaseHeld(j, token, jobs[j].version)
  PROVE  jobs[j].status = "processing"
  BY DEF StoreInv, LeasesAreExclusive, LeaseHeld

LEMMA LeaseCallInv ==
  ASSUME StoreInv, NEW j \in JobIds, NEW token \in (1..lastToken) \ mailTokens,
         LeaseCall(j, token, jobs[j].version)
  PROVE  StoreInv'
  <1> DEFINE r == jobs[j]
  <1>1. r \in Row /\ RowGood(r)
    BY RowsOfTable
  <1>2. lastJob \in 0..MaxJobs /\ tasks \subseteq Keys
    BY DEF StoreInv, StoreTypeOK
  <1>3. CASE RenewLease(j, token, r.version)
    <2>1. r.status = "processing"
      BY <1>3, LeaseHeldProcessing DEF RenewLease
    <2>2. Follows(r, Renewed(r))
      BY <1>1, <2>1, RenewedGood
    <2>. QED BY <1>2, <1>3, <2>2, OneRowFollows DEF RenewLease
  <1>4. ASSUME NEW stage \in Stages, SetStage(j, token, r.version, stage)
        PROVE  StoreInv'
    <2>1. r.status = "processing"
      BY <1>4 DEF SetStage, ProcessingHeld
    <2>2. Follows(r, Staged(r, stage))
      BY <1>1, <2>1, StagedGood
    <2>. QED BY <1>2, <1>4, <2>2, OneRowFollows DEF SetStage
  <1>5. ASSUME NEW name \in FileNames, Complete(j, token, r.version, name)
        PROVE  StoreInv'
    <2> DEFINE a == [name |-> name, sum |-> token]
    <2>1. r.status = "processing"
      BY <1>5 DEF Complete, ProcessingHeld
    <2>2. a \in Artifacts /\ a # NoArtifact
      <3>1. name # NoName /\ token \in Nat
        BY StoreAssumption DEF StoreInv, StoreTypeOK
      <3>. QED BY <3>1 DEF Artifacts, NoArtifact
    <2>3. Follows(r, Completed(r, a))
      BY <1>1, <2>1, <2>2, CompletedGood
    <2>. QED BY <1>2, <1>5, <2>3, OneRowFollows DEF Complete
  <1>6. ASSUME NEW wait \in 0..MaxWait, Requeue(j, token, r.version, wait)
        PROVE  StoreInv'
    <2>1. r.status = "processing" /\ wait \in Nat
      BY <1>6, LeaseHeldProcessing, StoreAssumption DEF Requeue
    <2>2. Follows(r, Requeued(r, wait))
      BY <1>1, <2>1, RequeuedGood
    <2>. QED BY <1>2, <1>6, <2>2, OneRowFollows DEF Requeue
  <1>7. CASE Fail(j, token, r.version)
    <2>1. r.status = "processing"
      BY <1>7, LeaseHeldProcessing DEF Fail
    <2>2. Follows(r, Failed(r))
      BY <1>1, <2>1, FailedGood
    <2>. QED BY <1>2, <1>7, <2>2, OneRowFollows DEF Fail
  <1>. QED BY <1>3, <1>4, <1>5, <1>6, <1>7 DEF LeaseCall

LEMMA JobCallInv ==
  ASSUME StoreInv, NEW j \in JobIds, JobCall(j)
  PROVE  StoreInv'
  <1> DEFINE r == jobs[j]
  <1>1. r \in Row /\ RowGood(r)
    BY RowsOfTable
  <1>2. lastJob \in 0..MaxJobs /\ tasks \subseteq Keys
    BY DEF StoreInv, StoreTypeOK
  <1>3. CASE CreateRetry(j)
    <2>1. CASE r.status = "delivery_failed"
      <3>1. Follows(r, EmailRetried(r))
        BY <1>1, <2>1, EmailRetriedGood
      <3>. QED BY <1>2, <1>3, <2>1, <3>1, OneRowFollows DEF CreateRetry
    <2>2. CASE r.status # "delivery_failed"
      BY <1>3, <2>2, CreateJobInv DEF CreateRetry
    <2>. QED BY <2>1, <2>2
  <1>4. CASE RequestDelete(j)
    <2>1. Follows(r, NoRow)
      <3>1. NoRow.token = NoToken /\ NoRow.status = "none"
        BY DEF NoRow
      <3>. QED BY <3>1, NoRowGood DEF Follows, LeaseKept
    <2>2. tasks' \subseteq Keys
      <3>1. CASE r.artifact = NoArtifact
        BY <1>2, <1>4, <3>1 DEF RequestDelete
      <3>2. CASE r.artifact # NoArtifact
        <4>1. r.artifact.name \in FileNames
          BY <1>1, <3>2, ArtifactNamed
        <4>. QED BY <1>2, <1>4, <3>2, <4>1 DEF RequestDelete, Keys
      <3>. QED BY <3>1, <3>2
    <2>. QED BY <1>2, <1>4, <2>1, <2>2, OneRowFollows DEF RequestDelete
  <1>5. CASE ClaimDelivery(j)
    BY <1>5, ClaimDeliveryInv
  <1>6. CASE SendReady(j)
    <2>1. Follows(r, EmailRequested(r))
      BY <1>1, <1>6, EmailRequestedGood DEF SendReady
    <2>. QED BY <1>2, <1>6, <2>1, OneRowFollows DEF SendReady
  <1>7. CASE JoinJob(j)
    <2>1. Follows(r, Joined(r))
      BY <1>1, JoinedGood
    <2>. QED BY <1>2, <1>7, <2>1, OneRowFollows DEF JoinJob
  <1>8. ASSUME NEW token \in (1..lastToken) \ mailTokens, LeaseCall(j, token, r.version)
        PROVE  StoreInv'
    BY <1>8, LeaseCallInv
  <1>9. ASSUME NEW token \in mailTokens, NEW outcome \in Outcomes,
               FinishDelivery(j, token, outcome)
        PROVE  StoreInv'
    <2>1. Follows(r, DeliveryFinished(r, outcome))
      BY <1>1, <1>9, DeliveryFinishedGood DEF FinishDelivery, DeliveryHeld
    <2>. QED BY <1>2, <1>9, <2>1, OneRowFollows DEF FinishDelivery
  <1>. QED BY <1>3, <1>4, <1>5, <1>6, <1>7, <1>8, <1>9 DEF JobCall, MailCall

LEMMA NextInv == StoreInv /\ [StoreNext]_storeVars => StoreInv'
  <1> SUFFICES ASSUME StoreInv, [StoreNext]_storeVars PROVE StoreInv'
    OBVIOUS
  <1>1. lastJob \in 0..MaxJobs /\ tasks \subseteq Keys
    BY DEF StoreInv, StoreTypeOK
  <1>2. ASSUME NEW dest \in BOOLEAN, CreateJob(dest) PROVE StoreInv'
    BY <1>2, CreateJobInv
  <1>3. ASSUME NEW locked \in SUBSET JobIds, ClaimNext(locked) PROVE StoreInv'
    BY <1>3, ClaimNextInv
  <1>4. ASSUME NEW locked \in SUBSET JobIds, ClaimNothing(locked) PROVE StoreInv'
    <2>1. jobs' = [j \in JobIds |-> Swept(jobs[j])]
      BY <1>4 DEF ClaimNothing
    <2>2. \A j \in JobIds : jobs'[j] \in Row /\ Follows(jobs[j], jobs'[j])
      BY <2>1, RowsOfTable, SweptGood DEF Follows
    <2>. QED BY <1>1, <1>4, <2>1, <2>2, RowsFollow DEF ClaimNothing
  <1>5. ASSUME NEW locked \in SUBSET JobIds, ClaimNoDelivery(locked) PROVE StoreInv'
    <2>1. jobs' = [j \in JobIds |-> MailSwept(jobs[j])]
      BY <1>5 DEF ClaimNoDelivery
    <2>2. \A j \in JobIds : jobs'[j] \in Row /\ Follows(jobs[j], jobs'[j])
      BY <2>1, RowsOfTable, SweptGood DEF Follows
    <2>. QED BY <1>1, <1>5, <2>1, <2>2, RowsFollow DEF ClaimNoDelivery
  <1>6. CASE PausePendingDelivery
    <2>1. jobs' = [j \in JobIds |-> Paused(jobs[j])]
      BY <1>6 DEF PausePendingDelivery
    <2>2. \A j \in JobIds : jobs'[j] \in Row /\ Follows(jobs[j], jobs'[j])
      BY <2>1, RowsOfTable, PausedGood DEF Follows
    <2>. QED BY <1>1, <1>6, <2>1, <2>2, RowsFollow DEF PausePendingDelivery
  <1>7. ASSUME NEW key \in tasks, FinishTask(key) PROVE StoreInv'
    <2>1. \A j \in JobIds : Follows(jobs[j], jobs'[j])
      BY <1>7, RowsOfTable, SameGood DEF FinishTask
    <2>. QED BY <1>1, <1>7, <2>1, RowsFollow DEF FinishTask, StoreInv, StoreTypeOK
  <1>8. CASE Tick
    <2>1. jobs' = [j \in JobIds |-> Aged(jobs[j])]
      BY <1>8 DEF Tick
    <2>2. \A j \in JobIds : jobs'[j] \in Row /\ Follows(jobs[j], jobs'[j])
      BY <2>1, RowsOfTable, AgedGood DEF Follows
    <2>. QED BY <1>1, <1>8, <2>1, <2>2, RowsFollow DEF Tick
  <1>9. ASSUME NEW j \in JobIds, JobCall(j) PROVE StoreInv'
    BY <1>9, JobCallInv
  <1>10. CASE UNCHANGED storeVars
    BY <1>10 DEF StoreInv, StoreTypeOK, LeasesAreExclusive, storeVars
  <1>. QED
    BY <1>2, <1>3, <1>4, <1>5, <1>6, <1>7, <1>8, <1>9, <1>10 DEF StoreNext

-----------------------------------------------------------------------------
(* Theorems *)

LEMMA Invariance == StoreSpec => []StoreInv
  BY InitInv, NextInv, PTL DEF StoreSpec

\* The jobs table keeps its type for any number of jobs, leases and callers of
\* internal/postgres.
THEOREM TypeCorrect == StoreSpec => []StoreTypeOK
  <1>1. StoreInv => StoreTypeOK
    BY DEF StoreInv
  <1>. QED BY <1>1, Invariance, PTL

\* No statement of internal/postgres or internal/library ever runs into a CHECK
\* constraint of the jobs table.
THEOREM SchemaKept == StoreSpec => []SchemaNeverRejects
  <1>1. StoreInv => SchemaNeverRejects
    BY DEF StoreInv, RowGood, SchemaNeverRejects
  <1>. QED BY <1>1, Invariance, PTL

\* A job has its PDF exactly from Complete until RequestDelete.
THEOREM PdfWhenPublished == StoreSpec => []PublishedIffArtifact
  <1>1. StoreInv => PublishedIffArtifact
    BY DEF StoreInv, RowGood, PublishedIffArtifact
  <1>. QED BY <1>1, Invariance, PTL

\* A token of ClaimNext or ClaimDelivery opens one row and one kind of work.
THEOREM ExclusiveLeases == StoreSpec => []LeasesAreExclusive
  <1>1. StoreInv => LeasesAreExclusive
    BY DEF StoreInv
  <1>. QED BY <1>1, Invariance, PTL

\* A request for delivery is tried at most three times, and what waits in the
\* queue has a try left.
THEOREM BoundedTries == StoreSpec => []TriesBounded
  <1>1. StoreInv => TriesBounded
    BY DEF StoreInv, RowGood, TriesBounded
  <1>. QED BY <1>1, Invariance, PTL

\* A delivery that CreateRetry puts back in the queue can be claimed again.
THEOREM RetryNotPaused == StoreSpec => []RetriedMailIsNotPaused
  <1>1. StoreInv => RetriedMailIsNotPaused
    BY DEF StoreInv, RowGood, RetriedMailIsNotPaused
  <1>. QED BY <1>1, Invariance, PTL

-----------------------------------------------------------------------------
(***************************************************************************)
(* The jobs table implements JobLifecycle.  A transaction either leaves    *)
(* the phase and the PDF of every job alone or takes one job through one   *)
(* step of the lifecycle.                                                  *)
(***************************************************************************)

Waiting == {"queued", "processing"}

\* Nothing that the lifecycle shows of a job changes.
SamePhase(r, n) ==
    /\ n.artifact = r.artifact
    /\ (n.status \in Waiting) <=> (r.status \in Waiting)
    /\ (n.status \in Published) <=> (r.status \in Published)
    /\ (n.status = "failed") <=> (r.status = "failed")
    /\ (n.status = "none") <=> (r.status = "none")

\* Ids are used in order, and so are tokens.
InOrder ==
    /\ \A j \in JobIds : jobs[j].status # "none" => j <= lastJob
    /\ lastToken <= MaxTokens

LifeInv == StoreInv /\ InOrder

USE DEF Waiting

-----------------------------------------------------------------------------
(* Rows that keep their phase *)

LEMMA SameRow == ASSUME NEW r PROVE SamePhase(r, r)
  BY DEF SamePhase

LEMMA SamePhaseHeld ==
  ASSUME NEW r \in Row, r.status = "processing", NEW stage, NEW wait
  PROVE  /\ SamePhase(r, Renewed(r)) /\ SamePhase(r, Staged(r, stage))
         /\ SamePhase(r, Requeued(r, wait)) /\ SamePhase(r, Reclaimed(r))
  <1>1. SamePhase(r, Renewed(r))
    BY DEF SamePhase, Renewed, Row, Published
  <1>2. SamePhase(r, Staged(r, stage))
    BY DEF SamePhase, Staged, Row, Published
  <1>3. SamePhase(r, Requeued(r, wait))
    BY DEF SamePhase, Requeued, Leaseless, Row, Published
  <1>4. SamePhase(r, Reclaimed(r))
    BY DEF SamePhase, Reclaimed, Leaseless, Row, Published
  <1>. QED BY <1>1, <1>2, <1>3, <1>4

LEMMA SamePhaseMail ==
  ASSUME NEW r \in Row, r.status \in Published, NEW t
  PROVE  /\ SamePhase(r, DeliveryExpired(r)) /\ SamePhase(r, DeliveryClaimed(r, t))
         /\ SamePhase(r, EmailRetried(r)) /\ SamePhase(r, EmailRequested(r))
  <1>1. SamePhase(r, DeliveryExpired(r))
    BY DEF SamePhase, DeliveryExpired, Leaseless, Row, Published
  <1>2. SamePhase(r, DeliveryClaimed(r, t))
    BY DEF SamePhase, DeliveryClaimed, Row, Published
  <1>3. SamePhase(r, EmailRetried(r))
    BY DEF SamePhase, EmailRetried, Row, Published
  <1>4. SamePhase(r, EmailRequested(r))
    BY DEF SamePhase, EmailRequested, EmailRetried, Row, Published
  <1>. QED BY <1>1, <1>2, <1>3, <1>4

LEMMA SamePhaseFinished ==
  ASSUME NEW r \in Row, r.status = "delivering", NEW outcome \in Outcomes
  PROVE  SamePhase(r, DeliveryFinished(r, outcome))
  <1> DEFINE n == DeliveryFinished(r, outcome)
             s == OutcomeStatus(r, outcome)
  <1>1. s \in {"delivered", "ready", "delivery_failed"}
    BY DEF OutcomeStatus
  <1> HIDE DEF s
  <1>2. n.status = s /\ n.artifact = r.artifact
    BY DEF DeliveryFinished, Leaseless, Row, s
  <1> HIDE DEF n
  <1>3. SamePhase(r, n)
    BY <1>1, <1>2 DEF SamePhase, Published
  <1>. QED BY <1>3 DEF n

LEMMA SamePhaseOther ==
  ASSUME NEW r \in Row, NEW t
  PROVE  /\ SamePhase(r, Joined(r)) /\ SamePhase(r, Paused(r)) /\ SamePhase(r, Aged(r))
         /\ r.status = "queued" => SamePhase(r, Claimed(r, t))
  <1>1. SamePhase(r, Joined(r))
    BY DEF SamePhase, Joined, Row
  <1>2. SamePhase(r, Paused(r))
    <2>1. SamePhase(r, [r EXCEPT !.paused = TRUE])
      BY DEF SamePhase, Row
    <2>. QED BY <2>1, SameRow DEF Paused
  <1>3. SamePhase(r, Aged(r))
    BY DEF SamePhase, Aged, Row
  <1>4. r.status = "queued" => SamePhase(r, Claimed(r, t))
    BY DEF SamePhase, Claimed, Row, Published
  <1>. QED BY <1>1, <1>2, <1>3, <1>4

LEMMA SamePhaseSwept ==
  ASSUME NEW r \in Row
  PROVE  SamePhase(r, Swept(r)) /\ SamePhase(r, MailSwept(r))
  <1>1. CASE r.status = "delivering" /\ r.lease = 0
    BY <1>1, SamePhaseMail DEF Swept, MailSwept, Published
  <1>2. CASE r.status = "processing" /\ r.lease = 0
    <2>1. Swept(r) = Reclaimed(r) /\ MailSwept(r) = r
      BY <1>2 DEF Swept, MailSwept
    <2>. QED BY <1>2, <2>1, SamePhaseHeld, SameRow
  <1>3. CASE ~(r.status \in {"delivering", "processing"} /\ r.lease = 0)
    <2>1. Swept(r) = r /\ MailSwept(r) = r
      BY <1>3 DEF Swept, MailSwept
    <2>. QED BY <2>1, SameRow
  <1>. QED BY <1>1, <1>2, <1>3

-----------------------------------------------------------------------------
(* Steps of the table as steps of the lifecycle *)

\* A step that keeps every phase.
Keeps ==
    /\ \A j \in JobIds : SamePhase(jobs[j], jobs'[j])
    /\ lastJob' = lastJob

\* A step that changes row j and no other.
Changes(j) ==
    /\ j \in JobIds
    /\ \A i \in JobIds \ {j} : jobs'[i] = jobs[i]

LEMMA KeepsStutters ==
  ASSUME Keeps
  PROVE  UNCHANGED Lifecycle!lifecycleVars
  <1>1. \A j \in JobIds : PhaseOf(j)' = PhaseOf(j) /\ jobs'[j].artifact = jobs[j].artifact
    BY DEF Keeps, SamePhase, PhaseOf
  <1>. QED BY <1>1 DEF Lifecycle!lifecycleVars

\* The other jobs stay in their phases.
LEMMA OthersStay ==
  ASSUME NEW j, Changes(j), lastJob' = lastJob \/ (lastJob' = lastJob + 1 /\ j = lastJob + 1),
         LifeInv
  PROVE  /\ \A i \in JobIds \ {j} : PhaseOf(i)' = PhaseOf(i)
         /\ \A i \in JobIds \ {j} : jobs'[i].artifact = jobs[i].artifact
  <1>1. lastJob \in Nat /\ JobIds \subseteq Nat
    BY StoreAssumption DEF LifeInv, StoreInv, StoreTypeOK, JobIds
  <1>2. ASSUME NEW i \in JobIds \ {j}
        PROVE  jobs'[i] = jobs[i] /\ (i <= lastJob' <=> i <= lastJob)
    <2>1. jobs'[i] = jobs[i]
      BY <1>2, Zenon DEF Changes
    <2>2. /\ lastJob \in Nat /\ i \in Nat /\ i # j
          /\ lastJob' = lastJob \/ (lastJob' = lastJob + 1 /\ j = lastJob + 1)
      BY <1>1, <1>2
    <2>3. i <= lastJob' <=> i <= lastJob
      BY ONLY <2>2
    <2>. QED BY ONLY <2>1, <2>3
  <1>. QED BY <1>2 DEF PhaseOf

LEMMA CreateAccepts ==
  ASSUME LifeInv, NEW dest \in BOOLEAN, CreateJob(dest)
  PROVE  InOrder' /\ \E j \in JobIds : Lifecycle!Accept(j)
  <1>1. PICK k \in JobIds : k = lastJob + 1
    BY StoreAssumption DEF LifeInv, StoreInv, StoreTypeOK, CreateJob, JobIds
  <1>2. lastJob' = k /\ lastJob \in Nat /\ JobIds \subseteq Nat /\ lastToken' = lastToken
    BY <1>1, StoreAssumption DEF LifeInv, StoreInv, StoreTypeOK, CreateJob, JobIds, tokenVars
  <1>3. Changes(k) /\ jobs'[k] = NewRow(dest) /\ ~(k <= lastJob)
    BY <1>1, <1>2 DEF Changes, CreateJob, SetRow, LifeInv, StoreInv, StoreTypeOK
  <1>4. jobs[k].status = "none" /\ jobs[k].artifact = NoArtifact
    <2>1. jobs[k].status = "none" /\ RowGood(jobs[k])
      BY <1>1, <1>3 DEF LifeInv, InOrder, StoreInv
    <2>. QED BY <2>1 DEF RowGood, Published
  <1>5. NewRow(dest).status = "queued" /\ NewRow(dest).artifact = NoArtifact
    BY NoRowGood DEF NewRow, NoRow, Row
  <1>6. PhaseOf(k) = "absent"
    BY <1>3, <1>4 DEF PhaseOf, Published
  <1>7. PhaseOf(k)' = "waiting"
    BY <1>3, <1>5 DEF PhaseOf, Published
  <1>8. /\ \A i \in JobIds \ {k} : PhaseOf(i)' = PhaseOf(i)
        /\ \A i \in JobIds \ {k} : jobs'[i].artifact = jobs[i].artifact
    BY <1>1, <1>2, <1>3, OthersStay
  <1>9. Lifecycle!Accept(k)
    BY <1>1, <1>3, <1>4, <1>5, <1>6, <1>7, <1>8
       DEF Lifecycle!Accept, Lifecycle!Become
  <1>10. InOrder'
    <2>1. ASSUME NEW i \in JobIds, jobs'[i].status # "none"
          PROVE  i <= k
      BY <1>1, <1>2, <1>3, <2>1 DEF LifeInv, InOrder, Changes
    <2>. QED BY <1>2, <2>1 DEF LifeInv, InOrder
  <1>. QED BY <1>1, <1>9, <1>10

\* A step on row j alone that moves it to another phase.
LEMMA OneRowMoves ==
  ASSUME LifeInv, NEW j \in JobIds, NEW STATE n, SetRow(j, n), UNCHANGED <<lastJob, tokenVars>>,
         jobs[j].status # "none"
  PROVE  /\ Changes(j) /\ jobs'[j] = n /\ j <= lastJob /\ InOrder'
         /\ \A i \in JobIds \ {j} : PhaseOf(i)' = PhaseOf(i)
         /\ \A i \in JobIds \ {j} : jobs'[i].artifact = jobs[i].artifact
  <1>1. Changes(j) /\ jobs'[j] = n
    BY DEF Changes, SetRow, LifeInv, StoreInv, StoreTypeOK
  <1>2. j <= lastJob
    BY DEF LifeInv, InOrder
  <1>3. InOrder'
    BY <1>1, <1>2 DEF LifeInv, InOrder, Changes, tokenVars
  <1>. QED BY <1>1, <1>2, <1>3, OthersStay

LEMMA CompletePublishes ==
  ASSUME LifeInv, NEW j \in JobIds, NEW token \in (1..lastToken) \ mailTokens,
         NEW name \in FileNames, Complete(j, token, jobs[j].version, name)
  PROVE  InOrder' /\ Lifecycle!Publish(j)
  <1> DEFINE a == [name |-> name, sum |-> token]
             n == Completed(jobs[j], a)
  <1>1. jobs[j].status = "processing" /\ jobs[j] \in Row
    BY DEF Complete, ProcessingHeld, LifeInv, StoreInv, StoreTypeOK
  <1>2. n.status = "ready" /\ n.artifact = a
    BY <1>1 DEF Completed, Leaseless, Row
  <1>3. a \in [name : FileNames, sum : 1..MaxTokens]
    <2>1. token \in 1..MaxTokens
      BY StoreAssumption DEF LifeInv, InOrder, StoreInv, StoreTypeOK
    <2>. QED BY <2>1
  <1> HIDE DEF a
  <1>4. SetRow(j, n) /\ UNCHANGED <<lastJob, tokenVars>>
    BY DEF Complete, a
  <1> HIDE DEF n
  <1>5. /\ jobs'[j] = n /\ InOrder'
        /\ \A i \in JobIds \ {j} : PhaseOf(i)' = PhaseOf(i)
        /\ \A i \in JobIds \ {j} : jobs'[i].artifact = jobs[i].artifact
    BY <1>1, <1>4, OneRowMoves
  <1>6. PhaseOf(j) = "waiting" /\ PhaseOf(j)' = "published"
    BY <1>1, <1>2, <1>5 DEF PhaseOf, Published
  <1>. QED BY <1>2, <1>3, <1>5, <1>6 DEF Lifecycle!Publish, Lifecycle!Become

LEMMA FailGivesUp ==
  ASSUME LifeInv, NEW j \in JobIds, NEW token \in (1..lastToken) \ mailTokens,
         Fail(j, token, jobs[j].version)
  PROVE  InOrder' /\ Lifecycle!GiveUp(j)
  <1> DEFINE n == Failed(jobs[j])
  <1>1. jobs[j].status = "processing" /\ jobs[j] \in Row
    BY LeaseHeldProcessing DEF Fail, LifeInv, StoreInv, StoreTypeOK
  <1>2. n.status = "failed" /\ n.artifact = jobs[j].artifact
    BY <1>1 DEF Failed, Leaseless, Row
  <1>3. SetRow(j, n) /\ UNCHANGED <<lastJob, tokenVars>>
    BY DEF Fail
  <1> HIDE DEF n
  <1>4. /\ jobs'[j] = n /\ InOrder'
        /\ \A i \in JobIds \ {j} : PhaseOf(i)' = PhaseOf(i)
        /\ \A i \in JobIds \ {j} : jobs'[i].artifact = jobs[i].artifact
    BY <1>1, <1>3, OneRowMoves
  <1>5. PhaseOf(j) = "waiting" /\ PhaseOf(j)' = "failed"
    BY <1>1, <1>2, <1>4 DEF PhaseOf, Published
  <1>. QED BY <1>2, <1>4, <1>5 DEF Lifecycle!GiveUp, Lifecycle!Become

LEMMA DeleteRemoves ==
  ASSUME LifeInv, NEW j \in JobIds, RequestDelete(j)
  PROVE  InOrder' /\ Lifecycle!Remove(j)
  <1>1. jobs[j].status # "none" /\ jobs[j] \in Row
    BY DEF RequestDelete, Exists, LifeInv, StoreInv, StoreTypeOK
  <1>2. NoRow.status = "none" /\ NoRow.artifact = NoArtifact
    BY DEF NoRow
  <1>3. SetRow(j, NoRow) /\ UNCHANGED <<lastJob, tokenVars>>
    BY DEF RequestDelete
  <1>4. /\ jobs'[j] = NoRow /\ InOrder' /\ j <= lastJob /\ lastJob' = lastJob
        /\ \A i \in JobIds \ {j} : PhaseOf(i)' = PhaseOf(i)
        /\ \A i \in JobIds \ {j} : jobs'[i].artifact = jobs[i].artifact
    BY <1>1, <1>3, OneRowMoves
  <1>5. PhaseOf(j) \in {"waiting", "published", "failed"}
    <2>1. jobs[j].status \in Statuses
      BY <1>1, Fields
    <2>. QED BY <2>1 DEF PhaseOf, Published, Statuses
  <1>6. PhaseOf(j)' = "removed"
    BY <1>2, <1>4 DEF PhaseOf, Published
  <1>. QED BY <1>2, <1>4, <1>5, <1>6 DEF Lifecycle!Remove, Lifecycle!Become

-----------------------------------------------------------------------------
(* Every transaction *)

\* What has to be shown of a step.
Refines ==
    /\ InOrder'
    /\ [Lifecycle!Next]_(Lifecycle!lifecycleVars)

LEMMA MoveRefines ==
  ASSUME InOrder', NEW j \in JobIds,
         Lifecycle!Accept(j) \/ Lifecycle!Publish(j) \/ Lifecycle!GiveUp(j) \/ Lifecycle!Remove(j)
  PROVE  Refines
  BY DEF Refines, Lifecycle!Next

\* A step that keeps every phase, whether or not it hands out a token.
LEMMA KeepRefines ==
  ASSUME LifeInv, Keeps,
         lastToken' = lastToken \/ (lastToken < MaxTokens /\ lastToken' = lastToken + 1)
  PROVE  Refines
  <1>1. lastToken' <= MaxTokens
    BY StoreAssumption DEF LifeInv, InOrder, StoreInv, StoreTypeOK
  <1>2. \A j \in JobIds : jobs'[j].status # "none" => j <= lastJob'
    BY DEF Keeps, SamePhase, LifeInv, InOrder
  <1>. QED BY <1>1, <1>2, KeepsStutters DEF Refines, InOrder

LEMMA OneRowKeeps ==
  ASSUME LifeInv, NEW j \in JobIds, NEW STATE n, SetRow(j, n), SamePhase(jobs[j], n),
         UNCHANGED <<lastJob, tokenVars>>
  PROVE  Refines
  <1>1. \A i \in JobIds : jobs'[i] = IF i = j THEN n ELSE jobs[i]
    BY DEF SetRow, LifeInv, StoreInv, StoreTypeOK
  <1>2. Keeps
    BY <1>1, SameRow DEF Keeps
  <1>. QED BY <1>2, KeepRefines DEF tokenVars

LEMMA ClaimNextKeeps ==
  ASSUME LifeInv, NEW locked \in SUBSET JobIds, ClaimNext(locked)
  PROVE  Refines
  <1> DEFINE swept == [j \in JobIds |-> Swept(jobs[j])]
  <1>1. PICK j \in Claimable(swept) \ locked :
           jobs' = [swept EXCEPT ![j] = Claimed(@, lastToken + 1)]
    BY DEF ClaimNext
  <1>2. \A i \in JobIds : swept[i] \in Row /\ SamePhase(jobs[i], swept[i])
    BY RowsOfTable, SweptGood, SamePhaseSwept DEF Follows, LifeInv
  <1>3. j \in JobIds /\ swept[j].status = "queued"
    BY <1>1 DEF Claimable
  <1>4. swept \in [JobIds -> Row]
    BY <1>2
  <1> HIDE DEF swept
  <1>5. jobs'[j] = Claimed(swept[j], lastToken + 1)
    BY <1>1, <1>3, <1>4
  <1>6. \A i \in JobIds \ {j} : jobs'[i] = swept[i]
    BY <1>1, <1>4
  <1>7. SamePhase(swept[j], jobs'[j])
    BY <1>2, <1>3, <1>5, SamePhaseOther
  <1>8. \A i \in JobIds : SamePhase(jobs[i], jobs'[i])
    BY <1>2, <1>3, <1>6, <1>7 DEF SamePhase
  <1>9. Keeps
    BY <1>8 DEF Keeps, ClaimNext
  <1>. QED BY <1>9, KeepRefines DEF ClaimNext

LEMMA ClaimDeliveryKeeps ==
  ASSUME LifeInv, NEW j \in JobIds, ClaimDelivery(j)
  PROVE  Refines
  <1> DEFINE swept == [i \in JobIds |-> MailSwept(jobs[i])]
  <1>1. /\ jobs' = [swept EXCEPT ![j] = DeliveryClaimed(@, lastToken + 1)]
        /\ swept[j].status = "ready"
    BY DEF ClaimDelivery
  <1>2. \A i \in JobIds : swept[i] \in Row /\ SamePhase(jobs[i], swept[i])
    BY RowsOfTable, SweptGood, SamePhaseSwept DEF Follows, LifeInv
  <1>4. swept \in [JobIds -> Row]
    BY <1>2
  <1> HIDE DEF swept
  <1>5. jobs'[j] = DeliveryClaimed(swept[j], lastToken + 1)
    BY <1>1, <1>4
  <1>6. \A i \in JobIds \ {j} : jobs'[i] = swept[i]
    BY <1>1, <1>4
  <1>7. SamePhase(swept[j], jobs'[j])
    <2>1. swept[j].status \in Published
      BY <1>1 DEF Published
    <2>. QED BY <1>2, <1>5, <2>1, SamePhaseMail
  <1>8. \A i \in JobIds : SamePhase(jobs[i], jobs'[i])
    BY <1>2, <1>6, <1>7 DEF SamePhase
  <1>9. Keeps
    BY <1>8 DEF Keeps, ClaimDelivery
  <1>. QED BY <1>9, KeepRefines DEF ClaimDelivery

LEMMA LeaseCallRefines ==
  ASSUME LifeInv, NEW j \in JobIds, NEW token \in (1..lastToken) \ mailTokens,
         LeaseCall(j, token, jobs[j].version)
  PROVE  Refines
  <1> DEFINE r == jobs[j]
  <1>0. StoreInv /\ r \in Row
    BY DEF LifeInv, StoreInv, StoreTypeOK
  <1>1. CASE RenewLease(j, token, r.version)
    <2>1. SamePhase(r, Renewed(r))
      BY <1>0, <1>1, LeaseHeldProcessing, SamePhaseHeld DEF RenewLease
    <2>. QED BY <1>1, <2>1, OneRowKeeps DEF RenewLease
  <1>2. ASSUME NEW stage \in Stages, SetStage(j, token, r.version, stage)
        PROVE  Refines
    <2>1. SamePhase(r, Staged(r, stage))
      BY <1>0, <1>2, SamePhaseHeld DEF SetStage, ProcessingHeld
    <2>. QED BY <1>2, <2>1, OneRowKeeps DEF SetStage
  <1>3. ASSUME NEW name \in FileNames, Complete(j, token, r.version, name)
        PROVE  Refines
    BY <1>3, CompletePublishes, MoveRefines
  <1>4. ASSUME NEW wait \in 0..MaxWait, Requeue(j, token, r.version, wait)
        PROVE  Refines
    <2>1. SamePhase(r, Requeued(r, wait))
      BY <1>0, <1>4, LeaseHeldProcessing, SamePhaseHeld DEF Requeue
    <2>. QED BY <1>4, <2>1, OneRowKeeps DEF Requeue
  <1>5. CASE Fail(j, token, r.version)
    BY <1>5, FailGivesUp, MoveRefines
  <1>. QED BY <1>1, <1>2, <1>3, <1>4, <1>5 DEF LeaseCall

LEMMA JobCallRefines ==
  ASSUME LifeInv, NEW j \in JobIds, JobCall(j)
  PROVE  Refines
  <1> DEFINE r == jobs[j]
  <1>0. StoreInv /\ r \in Row /\ RowGood(r)
    BY DEF LifeInv, StoreInv, StoreTypeOK
  <1>1. CASE CreateRetry(j)
    <2>1. CASE r.status = "delivery_failed"
      <3>1. SamePhase(r, EmailRetried(r))
        BY <1>0, <2>1, SamePhaseMail DEF Published
      <3>. QED BY <1>1, <2>1, <3>1, OneRowKeeps DEF CreateRetry
    <2>2. CASE r.status # "delivery_failed"
      BY <1>1, <2>2, CreateAccepts, MoveRefines DEF CreateRetry
    <2>. QED BY <2>1, <2>2
  <1>2. CASE RequestDelete(j)
    BY <1>2, DeleteRemoves, MoveRefines
  <1>3. CASE ClaimDelivery(j)
    BY <1>3, ClaimDeliveryKeeps
  <1>4. CASE SendReady(j)
    <2>1. r.status \in Published
      BY <1>0, <1>4 DEF SendReady, RowGood
    <2>2. SamePhase(r, EmailRequested(r))
      BY <1>0, <2>1, SamePhaseMail
    <2>. QED BY <1>4, <2>2, OneRowKeeps DEF SendReady
  <1>5. CASE JoinJob(j)
    <2>1. SamePhase(r, Joined(r))
      BY <1>0, SamePhaseOther
    <2>. QED BY <1>5, <2>1, OneRowKeeps DEF JoinJob
  <1>6. ASSUME NEW token \in (1..lastToken) \ mailTokens, LeaseCall(j, token, r.version)
        PROVE  Refines
    BY <1>6, LeaseCallRefines
  <1>7. ASSUME NEW token \in mailTokens, NEW outcome \in Outcomes,
               FinishDelivery(j, token, outcome)
        PROVE  Refines
    <2>1. SamePhase(r, DeliveryFinished(r, outcome))
      BY <1>0, <1>7, SamePhaseFinished DEF FinishDelivery, DeliveryHeld
    <2>. QED BY <1>7, <2>1, OneRowKeeps DEF FinishDelivery
  <1>. QED BY <1>1, <1>2, <1>3, <1>4, <1>5, <1>6, <1>7 DEF JobCall, MailCall

LEMMA NextRefines == LifeInv /\ [StoreNext]_storeVars => Refines
  <1> SUFFICES ASSUME LifeInv, [StoreNext]_storeVars PROVE Refines
    OBVIOUS
  <1>0. \A j \in JobIds : jobs[j] \in Row
    BY DEF LifeInv, StoreInv, StoreTypeOK
  <1>1. ASSUME NEW dest \in BOOLEAN, CreateJob(dest) PROVE Refines
    BY <1>1, CreateAccepts, MoveRefines
  <1>2. ASSUME NEW locked \in SUBSET JobIds, ClaimNext(locked) PROVE Refines
    BY <1>2, ClaimNextKeeps
  <1>3. ASSUME NEW locked \in SUBSET JobIds, ClaimNothing(locked) PROVE Refines
    <2>1. Keeps
      BY <1>0, <1>3, SamePhaseSwept DEF ClaimNothing, Keeps
    <2>. QED BY <1>3, <2>1, KeepRefines DEF ClaimNothing, tokenVars
  <1>4. ASSUME NEW locked \in SUBSET JobIds, ClaimNoDelivery(locked) PROVE Refines
    <2>1. Keeps
      BY <1>0, <1>4, SamePhaseSwept DEF ClaimNoDelivery, Keeps
    <2>. QED BY <1>4, <2>1, KeepRefines DEF ClaimNoDelivery, tokenVars
  <1>5. CASE PausePendingDelivery
    <2>1. Keeps
      BY <1>0, <1>5, SamePhaseOther DEF PausePendingDelivery, Keeps
    <2>. QED BY <1>5, <2>1, KeepRefines DEF PausePendingDelivery, tokenVars
  <1>6. ASSUME NEW key \in tasks, FinishTask(key) PROVE Refines
    <2>1. Keeps
      BY <1>6, SameRow DEF FinishTask, Keeps
    <2>. QED BY <1>6, <2>1, KeepRefines DEF FinishTask, tokenVars
  <1>7. CASE Tick
    <2>1. Keeps
      BY <1>0, <1>7, SamePhaseOther DEF Tick, Keeps
    <2>. QED BY <1>7, <2>1, KeepRefines DEF Tick, tokenVars
  <1>8. ASSUME NEW j \in JobIds, JobCall(j) PROVE Refines
    BY <1>8, JobCallRefines
  <1>9. CASE UNCHANGED storeVars
    <2>1. Keeps
      BY <1>9, SameRow DEF storeVars, Keeps
    <2>. QED BY <1>9, <2>1, KeepRefines DEF storeVars
  <1>. QED
    BY <1>1, <1>2, <1>3, <1>4, <1>5, <1>6, <1>7, <1>8, <1>9 DEF StoreNext

LEMMA InitRefines == StoreInit => InOrder /\ Lifecycle!Init
  <1> SUFFICES ASSUME StoreInit PROVE InOrder /\ Lifecycle!Init
    OBVIOUS
  <1>1. \A j \in JobIds : jobs[j].status = "none" /\ jobs[j].artifact = NoArtifact
    BY DEF StoreInit, NoRow
  <1>2. InOrder
    BY <1>1, StoreAssumption DEF InOrder, StoreInit, NoToken
  <1>3. \A j \in JobIds : PhaseOf(j) = "absent"
    <2>1. \A j \in JobIds : ~(j <= lastJob)
      BY StoreAssumption DEF StoreInit, JobIds
    <2>. QED BY <1>1, <2>1 DEF PhaseOf, Published
  <1>. QED BY <1>1, <1>2, <1>3 DEF Lifecycle!Init

\* Every behaviour of the jobs table, for any number of jobs, leases and
\* callers, is a behaviour of JobLifecycle: the transactions of
\* internal/postgres and internal/library publish a job at most once, never
\* bring back what failed or was deleted and never change a stored PDF.
THEOREM TableImplementsLifecycle == StoreSpec => ImplementsLifecycle
  <1>1. StoreInit => LifeInv /\ Lifecycle!Init
    BY InitInv, InitRefines DEF LifeInv
  <1>2. LifeInv /\ [StoreNext]_storeVars =>
           LifeInv' /\ [Lifecycle!Next]_(Lifecycle!lifecycleVars)
    BY NextInv, NextRefines DEF LifeInv, Refines
  <1>. QED BY <1>1, <1>2, PTL DEF StoreSpec, ImplementsLifecycle, Lifecycle!Spec

=============================================================================
