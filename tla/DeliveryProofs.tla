--------------------------- MODULE DeliveryProofs ---------------------------
(***************************************************************************)
(* The relay never gets more messages for a job than were asked for,       *)
(* whatever mail workers die, are late or are told nothing.                *)
(*                                                                         *)
(* The argument counts who may still send.  A request that was accepted is *)
(* spent by the claim that takes the row out of the queue, and passes to   *)
(* the worker that claimed it; it comes back to the row only when a worker *)
(* that still holds the row reports that nothing was sent.                 *)
(***************************************************************************)
EXTENDS Delivery, JobStoreProofs, FiniteSetTheorems

MailerRow == [pc : {"idle", "claimed", "sent"}, job : JobIds \cup {NoJob}, token : Nat,
              outcome : Outcomes \cup {"none"}]

\* A mail worker that is at work has a token of ClaimDelivery for a job.
MailersKnown ==
    /\ mailer \in [Mailers -> MailerRow]
    /\ \A m \in Mailers :
          /\ mailer[m].pc # "idle" => mailer[m].job \in JobIds /\ mailer[m].token \in mailTokens
          /\ mailer[m].pc = "sent" => mailer[m].outcome \in Outcomes

PrepRow == [pc : {"idle", "begun", "looked", "granted"}, send : BOOLEAN,
            key : ActionKeys \cup {"none"}, pdf : BOOLEAN, active : BOOLEAN]

\* What prepare has seen of the item's job is about a job.
PrepsKnown ==
    /\ itemJob \in [Items -> JobIds \cup {NoJob}]
    /\ prep \in [Items -> PrepRow]
    /\ \A i \in Items : prep[i].pdf \/ prep[i].active => itemJob[i] \in JobIds

\* The row will be in the queue of deliveries without another request.
Queued(r) ==
    \/ r.status = "ready" /\ r.pending
    \/ r.status \in {"queued", "processing"} /\ r.dest

\* From r to n no delivery gets into the queue and none begins.
Calm(r, n) ==
    /\ Queued(n) => Queued(r)
    /\ n.status = "delivering" => r.status = "delivering" /\ n.token = r.token

\* Worker m holds the row of job j and will report that nothing was sent.
GivesBack(m, j) ==
    /\ mailer[m].pc = "sent" /\ mailer[m].outcome = "transient_failure"
    /\ mailer[m].job = j
    /\ jobs[j].status = "delivering" /\ mailer[m].token = jobs[j].token

Owed(j) == Queued(jobs[j]) \/ \E m \in Mailers : GivesBack(m, j)

\* Workers that may still send, in time or late.
Sending(j) == {m \in Mailers : mailer[m].pc = "claimed" /\ mailer[m].job = j}

Spendable(j) == Cardinality(Sending(j)) + (IF Owed(j) THEN 1 ELSE 0)

Budget ==
    /\ asks \in [JobIds -> Nat] /\ mails \in [JobIds -> Nat]
    /\ \A j \in JobIds : mails[j] + Spendable(j) <= asks[j]

\* The inductive invariant.
DeliveryInv == StoreInv /\ MailersKnown /\ PrepsKnown /\ Budget

USE DEF NoToken, NoJob

-----------------------------------------------------------------------------
(* Counting *)

LEMMA SendingFinite ==
  ASSUME NEW j
  PROVE  /\ IsFiniteSet(Sending(j)) /\ Cardinality(Sending(j)) \in Nat
         /\ IsFiniteSet(Sending(j))' /\ Cardinality(Sending(j))' \in Nat
<1>1. Sending(j) \subseteq Mailers /\ Sending(j)' \subseteq Mailers
  BY DEF Sending
<1>2. IsFiniteSet(Sending(j)) /\ IsFiniteSet(Sending(j)')
  BY <1>1, DeliveryAssumption, FS_Subset
<1>. QED BY <1>2, FS_CardinalityType

\* A step in which no worker moves and no row gets into the queue: what can be
\* sent is not more than before.
LEMMA NothingGained ==
  ASSUME NEW j \in JobIds, UNCHANGED mailer, Calm(jobs[j], jobs'[j])
  PROVE  Spendable(j)' <= Spendable(j)
<1>1. Sending(j)' = Sending(j)
  BY DEF Sending
<1>2. Owed(j)' => Owed(j)
  BY DEF Owed, GivesBack, Calm
<1>. QED BY <1>1, <1>2, SendingFinite DEF Spendable

\* Whatever becomes of the row, a step in which no worker moves adds at most
\* one message, which is what a request pays for.
LEMMA OneGained ==
  ASSUME NEW j \in JobIds, UNCHANGED mailer
  PROVE  Spendable(j)' <= Spendable(j) + 1
<1>1. Sending(j)' = Sending(j)
  BY DEF Sending
<1>. QED BY <1>1, SendingFinite DEF Spendable

LEMMA SpendableNat ==
  ASSUME NEW j
  PROVE  Spendable(j) \in Nat /\ Spendable(j)' \in Nat
  BY SendingFinite DEF Spendable

\* No step in which no worker moves and no request is accepted adds a message.
LEMMA CalmBudget ==
  ASSUME DeliveryInv, UNCHANGED <<mailer, asks, mails>>,
         \A j \in JobIds : Calm(jobs[j], jobs'[j])
  PROVE  Budget'
<1>1. ASSUME NEW j \in JobIds PROVE mails'[j] + Spendable(j)' <= asks'[j]
  <2>1. mails[j] + Spendable(j) <= asks[j] /\ mails[j] \in Nat /\ asks[j] \in Nat
    BY DEF DeliveryInv, Budget
  <2>. QED BY <2>1, NothingGained, SpendableNat
<1>. QED BY <1>1 DEF DeliveryInv, Budget

\* A request is accepted for job j, whose row may get into the queue.
LEMMA AskedBudget ==
  ASSUME DeliveryInv, UNCHANGED <<mailer, mails>>, NEW j \in JobIds, Asked(j),
         \A i \in JobIds \ {j} : Calm(jobs[i], jobs'[i])
  PROVE  Budget'
<1>0. asks \in [JobIds -> Nat] /\ mails \in [JobIds -> Nat]
  BY DEF DeliveryInv, Budget
<1>1. ASSUME NEW i \in JobIds PROVE mails'[i] + Spendable(i)' <= asks'[i]
  <2>1. mails[i] + Spendable(i) <= asks[i] /\ mails[i] \in Nat /\ asks[i] \in Nat
    BY DEF DeliveryInv, Budget
  <2>2. CASE i = j
    <3>1. asks'[i] = asks[i] + 1
      BY <1>0, <2>2 DEF Asked
    <3>. QED BY <2>1, <3>1, OneGained, SpendableNat
  <2>3. CASE i # j
    <3>1. asks'[i] = asks[i]
      BY <1>0, <2>3 DEF Asked
    <3>. QED BY <2>1, <2>3, <3>1, NothingGained, SpendableNat
  <2>. QED BY <2>2, <2>3
<1>2. asks' \in [JobIds -> Nat]
  BY <1>0 DEF Asked
<1>. QED BY <1>0, <1>1, <1>2 DEF Budget

-----------------------------------------------------------------------------
(* Rows *)

LEMMA CalmSame == ASSUME NEW r PROVE Calm(r, r)
  BY DEF Calm

LEMMA CalmWork ==
  ASSUME NEW r \in Row, r.status = "processing", NEW stage, NEW a, NEW wait
  PROVE  /\ Calm(r, Staged(r, stage)) /\ Calm(r, Completed(r, a)) /\ Calm(r, Failed(r))
         /\ Calm(r, Reclaimed(r)) /\ Calm(r, Requeued(r, wait))
<1>1. Calm(r, Staged(r, stage))
  BY DEF Calm, Queued, Staged, Row
<1>2. Calm(r, Completed(r, a))
  <2>1. /\ Completed(r, a).status = "ready" /\ Completed(r, a).pending = r.dest
    BY DEF Completed, Leaseless, Row
  <2>. QED BY <2>1 DEF Calm, Queued
<1>3. Calm(r, Failed(r))
  BY DEF Calm, Queued, Failed, Leaseless, Row
<1>4. Calm(r, Reclaimed(r))
  BY DEF Calm, Queued, Reclaimed, Leaseless, Row
<1>5. Calm(r, Requeued(r, wait))
  BY DEF Calm, Queued, Requeued, Leaseless, Row
<1>. QED BY <1>1, <1>2, <1>3, <1>4, <1>5

LEMMA CalmClaimed ==
  ASSUME NEW r \in Row, r.status = "queued", NEW t
  PROVE  Calm(r, Claimed(r, t))
  BY DEF Calm, Queued, Claimed, Row

LEMMA CalmOther ==
  ASSUME NEW r \in Row
  PROVE  /\ Calm(r, Aged(r)) /\ Calm(r, Paused(r))
         /\ Calm(r, Swept(r)) /\ Calm(r, MailSwept(r))
<1>1. Calm(r, Aged(r))
  BY DEF Calm, Queued, Aged, Row
<1>2. Calm(r, Paused(r))
  BY DEF Calm, Queued, Paused, Row
<1>3. CASE r.status = "delivering" /\ r.lease = 0
  <2>1. Calm(r, DeliveryExpired(r))
    BY DEF Calm, Queued, DeliveryExpired, Leaseless, Row
  <2>. QED BY <1>1, <1>2, <1>3, <2>1 DEF Swept, MailSwept
<1>4. CASE r.status = "processing" /\ r.lease = 0
  <2>1. Swept(r) = Reclaimed(r) /\ MailSwept(r) = r
    BY <1>4 DEF Swept, MailSwept
  <2>. QED BY <1>1, <1>2, <1>4, <2>1, CalmWork, CalmSame
<1>5. CASE ~(r.status \in {"delivering", "processing"} /\ r.lease = 0)
  <2>1. Swept(r) = r /\ MailSwept(r) = r
    BY <1>5 DEF Swept, MailSwept
  <2>. QED BY <1>1, <1>2, <2>1, CalmSame
<1>. QED BY <1>3, <1>4, <1>5

-----------------------------------------------------------------------------
(* Every step is a transaction of the jobs table, or none *)

\* A row in processing is held under a token that the table accepts of workers.
LEMMA WorkIsLeaseCall ==
  ASSUME DeliveryInv, NEW j \in JobIds, Work(j)
  PROVE  StoreNext \/ UNCHANGED storeVars
<1> DEFINE r == jobs[j]
<1>1. r \in Row /\ RowGood(r) /\ r.status = "processing"
  BY RowsOfTable DEF DeliveryInv, Work
<1>2. r.token \in (1..lastToken) \ mailTokens
  <2>0. r.token \in Nat
    BY <1>1, Fields
  <2>1. r.token # NoToken
    BY <1>1 DEF RowGood, SchemaHolds
  <2>2. r.token <= lastToken /\ r.token \notin mailTokens /\ lastToken \in Nat
    BY <1>1 DEF DeliveryInv, StoreInv, StoreTypeOK, LeasesAreExclusive
  <2>. QED BY <2>0, <2>1, <2>2
<1>3. CASE Process(j) \/ CompleteEnd(j) \/ TryAgain(j)
  <2>1. LeaseCall(j, r.token, r.version)
    BY <1>3 DEF Process, CompleteEnd, TryAgain, LeaseCall
  <2>. QED BY <1>2, <2>1 DEF StoreNext, JobCall
<1>4. CASE CompleteBegin(j) \/ CompleteAborted(j)
  BY <1>4 DEF CompleteBegin, CompleteAborted
<1>. QED BY <1>3, <1>4 DEF Work

LEMMA PrepareIsStoreStep ==
  ASSUME DeliveryInv, NEW i \in Items, Prepare(i)
  PROVE  StoreNext \/ UNCHANGED storeVars
<1>0. prep[i].send \in BOOLEAN
  BY DEF DeliveryInv, PrepsKnown, PrepRow
<1>1. ASSUME NEW key \in ActionKeys, NEW send \in BOOLEAN, PrepareBegin(i, key, send)
      PROVE  UNCHANGED storeVars
  BY <1>1 DEF PrepareBegin
<1>2. CASE PrepareLook(i)
  BY <1>2 DEF PrepareLook
<1>3. CASE PrepareReuse(i)
  <2>1. itemJob[i] \in JobIds
    BY <1>3 DEF PrepareReuse, DeliveryInv, PrepsKnown
  <2>. QED BY <1>3, <2>1 DEF PrepareReuse, StoreNext, JobCall
<1>4. CASE PrepareJoin(i)
  <2>1. itemJob[i] \in JobIds
    BY <1>4 DEF PrepareJoin, DeliveryInv, PrepsKnown
  <2>. QED BY <1>4, <2>1 DEF PrepareJoin, StoreNext, JobCall
<1>5. CASE PrepareNew(i)
  BY <1>0, <1>5 DEF PrepareNew, StoreNext
<1>6. CASE PrepareAborted(i)
  BY <1>6 DEF PrepareAborted
<1>. QED BY <1>1, <1>2, <1>3, <1>4, <1>5, <1>6 DEF Prepare

LEMMA MailIsStoreStep ==
  ASSUME DeliveryInv, NEW m \in Mailers,
         MailClaim(m) \/ MailPollEmpty(m) \/ MailSend(m) \/ MailFinish(m) \/ MailLost(m)
  PROVE  StoreNext \/ UNCHANGED storeVars
<1>1. CASE MailClaim(m)
  BY <1>1 DEF MailClaim, StoreNext, JobCall
<1>2. CASE MailPollEmpty(m)
  BY <1>2 DEF MailPollEmpty, StoreNext
<1>3. CASE MailSend(m) \/ MailLost(m)
  BY <1>3 DEF MailSend, MailLost
<1>4. CASE MailFinish(m)
  <2>1. mailer[m].job \in JobIds /\ mailer[m].token \in mailTokens
    BY <1>4 DEF MailFinish, DeliveryInv, MailersKnown
  <2>2. mailer[m].outcome \in Outcomes
    BY <1>4 DEF MailFinish, DeliveryInv, MailersKnown
  <2>. QED BY <1>4, <2>1, <2>2 DEF MailFinish, StoreNext, JobCall, MailCall
<1>. QED BY <1>1, <1>2, <1>3, <1>4

LEMMA DeliveryIsStoreStep ==
  ASSUME DeliveryInv, [Next]_vars
  PROVE  [StoreNext]_storeVars
<1>1. ASSUME NEW i \in Items, Prepare(i) PROVE [StoreNext]_storeVars
  BY <1>1, PrepareIsStoreStep
<1>2. ASSUME NEW j \in JobIds, RetryDelivery(j) PROVE StoreNext
  BY <1>2 DEF RetryDelivery, StoreNext, JobCall
<1>3. ASSUME NEW j \in JobIds, Work(j) PROVE [StoreNext]_storeVars
  BY <1>3, WorkIsLeaseCall
<1>4. CASE ClaimJob
  BY <1>4 DEF ClaimJob, StoreNext
<1>5. CASE Disable \/ Enable \/ EnableFails
  BY <1>5 DEF Disable, Enable, EnableFails, Pause, StoreNext
<1>6. ASSUME NEW m \in Mailers,
             MailClaim(m) \/ MailPollEmpty(m) \/ MailSend(m) \/ MailFinish(m) \/ MailLost(m)
      PROVE  [StoreNext]_storeVars
  BY <1>6, MailIsStoreStep
<1>7. CASE Pass
  BY <1>7 DEF Pass, StoreNext
<1>8. CASE UNCHANGED vars
  BY <1>8 DEF vars
<1>. QED BY <1>1, <1>2, <1>3, <1>4, <1>5, <1>6, <1>7, <1>8 DEF Next

-----------------------------------------------------------------------------
(* What a step makes of the workers, of the requests and of the budget *)

LEMMA MailersStay ==
  ASSUME MailersKnown, UNCHANGED mailer, mailTokens \subseteq mailTokens'
  PROVE  MailersKnown'
  BY DEF MailersKnown

LEMMA PrepsStay ==
  ASSUME PrepsKnown, UNCHANGED <<itemJob, prep>>
  PROVE  PrepsKnown'
  BY DEF PrepsKnown

LEMMA OneRowCalm ==
  ASSUME StoreInv, NEW j \in JobIds, NEW STATE n, SetRow(j, n)
  PROVE  \A i \in JobIds \ {j} : Calm(jobs[i], jobs'[i])
<1>1. \A i \in JobIds \ {j} : jobs'[i] = jobs[i]
  BY DEF SetRow, StoreInv, StoreTypeOK
<1>. QED BY <1>1, CalmSame

\* The end of prepare: whatever job was found or made is one of the table.
LEMMA PrepEndKnown ==
  ASSUME PrepsKnown, NEW i \in Items, prep' = [prep EXCEPT ![i] = NoPrep],
         \/ UNCHANGED itemJob
         \/ \E j \in JobIds : itemJob' = [itemJob EXCEPT ![i] = j]
  PROVE  PrepsKnown'
<1>1. NoPrep \in PrepRow /\ ~NoPrep.pdf /\ ~NoPrep.active
  BY DEF NoPrep, PrepRow
<1>2. prep \in [Items -> PrepRow]
  BY DEF PrepsKnown
<1>3. prep' \in [Items -> PrepRow]
  BY <1>1, <1>2
<1>4. itemJob' \in [Items -> JobIds \cup {NoJob}]
  BY DEF PrepsKnown
<1>5. ASSUME NEW k \in Items, prep'[k].pdf \/ prep'[k].active PROVE itemJob'[k] \in JobIds
  <2>1. k # i
    BY <1>1, <1>2, <1>5
  <2>2. prep'[k] = prep[k] /\ itemJob'[k] = itemJob[k]
    BY <1>2, <2>1 DEF PrepsKnown
  <2>. QED BY <1>5, <2>2 DEF PrepsKnown
<1>. QED BY <1>3, <1>4, <1>5 DEF PrepsKnown

LEMMA PrepareDoneKnown ==
  ASSUME PrepsKnown, NEW i \in Items, PrepareDone(i),
         \/ UNCHANGED itemJob
         \/ \E j \in JobIds : itemJob' = [itemJob EXCEPT ![i] = j]
  PROVE  PrepsKnown'
  BY PrepEndKnown DEF PrepareDone

LEMMA PrepareSteps ==
  ASSUME DeliveryInv, NEW i \in Items, Prepare(i)
  PROVE  MailersKnown' /\ PrepsKnown' /\ Budget'
<1>0. /\ StoreInv /\ MailersKnown /\ PrepsKnown /\ prep[i] \in PrepRow /\ prep[i].send \in BOOLEAN
      /\ itemJob[i] \in JobIds \cup {NoJob}
  BY DEF DeliveryInv, PrepsKnown, PrepRow
<1>1. ASSUME NEW key \in ActionKeys, NEW send \in BOOLEAN, PrepareBegin(i, key, send)
      PROVE  MailersKnown' /\ PrepsKnown' /\ Budget'
  <2> DEFINE n == [pc |-> "begun", send |-> send, key |-> key, active |-> FALSE,
                   pdf |-> itemJob[i] # NoJob /\ jobs[itemJob[i]].artifact # NoArtifact]
  <2>1. prep' = [prep EXCEPT ![i] = n] /\ UNCHANGED <<storeVars, itemJob, mailer, asks, mails>>
    BY <1>1 DEF PrepareBegin
  <2>2. n \in PrepRow /\ (n.pdf \/ n.active => itemJob[i] \in JobIds)
    BY <1>0 DEF PrepRow
  <2> HIDE DEF n
  <2>3. PrepsKnown'
    BY <1>0, <2>1, <2>2 DEF PrepsKnown
  <2>4. MailersKnown'
    BY <1>0, <2>1, MailersStay DEF storeVars
  <2>5. Budget'
    BY <2>1, CalmSame, CalmBudget DEF storeVars
  <2>. QED BY <2>3, <2>4, <2>5
<1>2. CASE PrepareLook(i)
  <2> DEFINE b == itemJob[i] # NoJob /\ jobs[itemJob[i]].status \in {"queued", "processing"}
             n == [prep[i] EXCEPT !.pc = "looked", !.active = b]
  <2>1. prep' = [prep EXCEPT ![i] = n] /\ UNCHANGED <<storeVars, itemJob, mailer, asks, mails>>
    BY <1>0, <1>2 DEF PrepareLook, PrepsKnown
  <2>2. n \in PrepRow
    BY <1>0 DEF PrepRow
  <2>3. n.pdf = prep[i].pdf /\ n.active = b
    BY <1>0 DEF PrepRow
  <2>4. n.pdf \/ n.active => itemJob[i] \in JobIds
    BY <1>0, <2>3 DEF PrepsKnown
  <2> HIDE DEF n, b
  <2>5. PrepsKnown'
    BY <1>0, <2>1, <2>2, <2>4 DEF PrepsKnown
  <2>6. MailersKnown'
    BY <1>0, <2>1, MailersStay DEF storeVars
  <2>7. Budget'
    BY <2>1, CalmSame, CalmBudget DEF storeVars
  <2>. QED BY <2>5, <2>6, <2>7
<1>3. CASE PrepareReuse(i)
  <2> DEFINE j == itemJob[i]
  <2>1. j \in JobIds
    BY <1>3 DEF PrepareReuse, DeliveryInv, PrepsKnown
  <2>2. PrepsKnown'
    BY <1>0, <1>3, PrepareDoneKnown DEF PrepareReuse
  <2>3. UNCHANGED <<mailer, mails>> /\ UNCHANGED tokenVars
    BY <1>3 DEF PrepareReuse, PrepareDone, SendReady, storeVars, tokenVars
  <2>4. MailersKnown'
    BY <1>0, <2>3, MailersStay DEF tokenVars
  <2>5. \A k \in JobIds \ {j} : Calm(jobs[k], jobs'[k])
    <3>1. CASE SendReady(j)
      BY <1>0, <2>1, <3>1, OneRowCalm DEF SendReady
    <3>2. CASE UNCHANGED storeVars
      BY <3>2, CalmSame DEF storeVars
    <3>. QED BY <1>3, <3>1, <3>2 DEF PrepareReuse
  <2>6. CASE prep[i].send
    <3>1. Asked(j)
      BY <1>3, <2>6 DEF PrepareReuse
    <3>. QED BY <2>1, <2>2, <2>3, <2>4, <2>5, <3>1, AskedBudget
  <2>7. CASE ~prep[i].send
    <3>1. UNCHANGED <<storeVars, asks>>
      BY <1>3, <2>7 DEF PrepareReuse
    <3>2. Budget'
      BY <2>3, <3>1, CalmSame, CalmBudget DEF storeVars
    <3>. QED BY <2>2, <2>4, <3>2
  <2>. QED BY <2>6, <2>7
<1>4. CASE PrepareJoin(i)
  <2> DEFINE j == itemJob[i]
  <2>1. j \in JobIds
    BY <1>4 DEF PrepareJoin, DeliveryInv, PrepsKnown
  <2>2. PrepsKnown'
    BY <1>0, <1>4, PrepareDoneKnown DEF PrepareJoin
  <2>3. UNCHANGED <<mailer, mails>> /\ UNCHANGED tokenVars
    BY <1>4 DEF PrepareJoin, PrepareDone, JoinJob, storeVars, tokenVars
  <2>4. MailersKnown'
    BY <1>0, <2>3, MailersStay DEF tokenVars
  <2>5. CASE prep[i].send
    <3>1. Asked(j) /\ JoinJob(j)
      BY <1>4, <2>5 DEF PrepareJoin
    <3>2. \A k \in JobIds \ {j} : Calm(jobs[k], jobs'[k])
      BY <1>0, <2>1, <3>1, OneRowCalm DEF JoinJob
    <3>. QED BY <2>1, <2>2, <2>3, <2>4, <3>1, <3>2, AskedBudget
  <2>6. CASE ~prep[i].send
    <3>1. UNCHANGED <<storeVars, asks>>
      BY <1>4, <2>6 DEF PrepareJoin
    <3>2. Budget'
      BY <2>3, <3>1, CalmSame, CalmBudget DEF storeVars
    <3>. QED BY <2>2, <2>4, <3>2
  <2>. QED BY <2>5, <2>6
<1>5. CASE PrepareNew(i)
  <2> DEFINE j == lastJob + 1
  <2>1. CreateJob(prep[i].send) /\ PrepareDone(i) /\ itemJob' = [itemJob EXCEPT ![i] = j]
    BY <1>5 DEF PrepareNew
  <2>2. j \in JobIds
    BY <1>0, <2>1, StoreAssumption DEF CreateJob, StoreInv, StoreTypeOK, JobIds
  <2> HIDE DEF j
  <2>3. PrepsKnown'
    BY <1>0, <2>1, <2>2, PrepareDoneKnown
  <2>4. UNCHANGED <<mailer, mails>> /\ UNCHANGED tokenVars /\ SetRow(j, NewRow(prep[i].send))
    BY <2>1 DEF PrepareDone, CreateJob, j
  <2>5. MailersKnown'
    BY <1>0, <2>4, MailersStay DEF tokenVars
  <2>6. \A k \in JobIds \ {j} : Calm(jobs[k], jobs'[k])
    BY <1>0, <2>2, <2>4, OneRowCalm
  <2>7. CASE prep[i].send
    <3>1. Asked(j)
      BY <1>5, <2>7 DEF PrepareNew, j
    <3>. QED BY <2>2, <2>3, <2>4, <2>5, <2>6, <3>1, AskedBudget
  <2>8. CASE ~prep[i].send
    <3>1. UNCHANGED asks /\ jobs'[j] = NewRow(FALSE)
      <4>1. prep[i].send = FALSE
        BY <1>0, <2>8
      <4>. QED BY <1>0, <1>5, <2>2, <2>4, <4>1 DEF PrepareNew, SetRow, StoreInv, StoreTypeOK
    <3>2. Calm(jobs[j], jobs'[j])
      BY <3>1 DEF NewRow, NoRow, Calm, Queued
    <3>3. Budget'
      BY <2>4, <2>6, <3>1, <3>2, CalmBudget
    <3>. QED BY <2>3, <2>5, <3>3
  <2>. QED BY <2>7, <2>8
<1>6. CASE PrepareAborted(i)
  <2>1. /\ prep' = [prep EXCEPT ![i] = NoPrep]
        /\ UNCHANGED <<storeVars, itemJob, mailer, asks, mails>>
    BY <1>6 DEF PrepareAborted
  <2>2. PrepsKnown'
    BY <1>0, <2>1, PrepEndKnown
  <2>3. MailersKnown'
    BY <1>0, <2>1, MailersStay DEF storeVars
  <2>4. Budget'
    BY <2>1, CalmSame, CalmBudget DEF storeVars
  <2>. QED BY <2>2, <2>3, <2>4
<1>. QED BY <1>1, <1>2, <1>3, <1>4, <1>5, <1>6 DEF Prepare

LEMMA RetrySteps ==
  ASSUME DeliveryInv, NEW j \in JobIds, RetryDelivery(j)
  PROVE  MailersKnown' /\ PrepsKnown' /\ Budget'
<1>0. StoreInv /\ MailersKnown /\ PrepsKnown
  BY DEF DeliveryInv
<1>1. SetRow(j, EmailRetried(jobs[j])) /\ UNCHANGED tokenVars
  BY DEF RetryDelivery, CreateRetry
<1>2. UNCHANGED <<itemJob, prep, mailer, mails>> /\ Asked(j)
  BY DEF RetryDelivery
<1>3. \A k \in JobIds \ {j} : Calm(jobs[k], jobs'[k])
  BY <1>0, <1>1, OneRowCalm
<1>. QED BY <1>0, <1>1, <1>2, <1>3, MailersStay, PrepsStay, AskedBudget DEF tokenVars

\* Steps of the table that nobody asked for and no mail worker takes.
LEMMA TableSteps ==
  ASSUME DeliveryInv, UNCHANGED <<itemJob, prep, mailer, asks, mails>>,
         \/ \E locked \in SUBSET JobIds : ClaimNext(locked)
         \/ \E locked \in SUBSET JobIds : ClaimNothing(locked) \/ ClaimNoDelivery(locked)
         \/ PausePendingDelivery
         \/ Tick
         \/ UNCHANGED storeVars
  PROVE  MailersKnown' /\ PrepsKnown' /\ Budget'
<1>0. StoreInv /\ MailersKnown /\ PrepsKnown
  BY DEF DeliveryInv
<1>1. \A j \in JobIds : jobs[j] \in Row /\ RowGood(jobs[j])
  BY <1>0, RowsOfTable
<1>2. mailTokens' = mailTokens
  BY DEF ClaimNext, ClaimNothing, ClaimNoDelivery, PausePendingDelivery, Tick, storeVars,
         tokenVars
<1>3. \A j \in JobIds : Calm(jobs[j], jobs'[j])
  <2>1. ASSUME NEW locked \in SUBSET JobIds, ClaimNext(locked)
        PROVE  \A j \in JobIds : Calm(jobs[j], jobs'[j])
    <3> DEFINE swept == [k \in JobIds |-> Swept(jobs[k])]
    <3>1. PICK j \in JobIds : /\ swept[j].status = "queued"
                              /\ jobs' = [swept EXCEPT ![j] = Claimed(@, lastToken + 1)]
      BY <2>1 DEF ClaimNext, Claimable
    <3>2. \A k \in JobIds : swept[k] \in Row /\ Calm(jobs[k], swept[k])
      BY <1>1, SweptGood, CalmOther DEF Follows
    <3>3. Calm(swept[j], jobs'[j])
      BY <3>1, <3>2, CalmClaimed
    <3>4. Calm(jobs[j], jobs'[j])
      BY <3>2, <3>3 DEF Calm
    <3>5. \A k \in JobIds \ {j} : jobs'[k] = swept[k]
      BY <3>1
    <3>. QED BY <3>2, <3>4, <3>5
  <2>2. ASSUME NEW locked \in SUBSET JobIds, ClaimNothing(locked) \/ ClaimNoDelivery(locked)
        PROVE  \A j \in JobIds : Calm(jobs[j], jobs'[j])
    BY <1>1, <2>2, CalmOther DEF ClaimNothing, ClaimNoDelivery
  <2>3. CASE PausePendingDelivery \/ Tick
    BY <1>1, <2>3, CalmOther DEF PausePendingDelivery, Tick
  <2>4. CASE UNCHANGED storeVars
    BY <2>4, CalmSame DEF storeVars
  <2>. QED BY <2>1, <2>2, <2>3, <2>4
<1>. QED BY <1>0, <1>2, <1>3, MailersStay, PrepsStay, CalmBudget

\* What a worker's step writes: the row of its job, or nothing.
LEMMA WorkWrites ==
  ASSUME StoreInv, NEW j \in JobIds, Work(j)
  PROVE  \/ UNCHANGED storeVars
         \/ \E stage \in Stages : SetRow(j, Staged(jobs[j], stage))
         \/ /\ CompleteEnd(j)
            /\ \E a \in Artifacts : SetRow(j, Completed(jobs[j], a))
         \/ \E wait \in 0..MaxWait : SetRow(j, Requeued(jobs[j], wait))
         \/ SetRow(j, Failed(jobs[j]))
<1> DEFINE r == jobs[j]
<1>1. CASE Process(j)
  BY <1>1 DEF Process, SetStage, Fail
<1>2. CASE CompleteBegin(j) \/ CompleteAborted(j)
  BY <1>2 DEF CompleteBegin, CompleteAborted
<1>3. CASE CompleteEnd(j)
  <2>1. PICK name \in FileNames : Complete(j, r.token, r.version, name)
    BY <1>3 DEF CompleteEnd
  <2>2. r \in Row /\ r.token \in Nat
    BY RowsOfTable, Fields
  <2>3. [name |-> name, sum |-> r.token] \in Artifacts
    BY <2>2 DEF Artifacts
  <2>4. SetRow(j, Completed(r, [name |-> name, sum |-> r.token]))
    BY <2>1 DEF Complete
  <2>. QED BY <1>3, <2>3, <2>4
<1>4. CASE TryAgain(j)
  BY <1>4 DEF TryAgain, Requeue, Fail
<1>. QED BY <1>1, <1>2, <1>3, <1>4 DEF Work

LEMMA RowSet ==
  ASSUME StoreInv, NEW j \in JobIds, NEW STATE n, SetRow(j, n)
  PROVE  jobs'[j] = n /\ \A i \in JobIds \ {j} : jobs'[i] = jobs[i]
  BY DEF SetRow, StoreInv, StoreTypeOK

\* The request that waited for the job's row still wants to join.
LEMMA Grants ==
  ASSUME PrepsKnown, NEW j \in JobIds, CompleteAborted(j)
  PROVE  /\ PrepsKnown'
         /\ \A k \in Items : /\ prep'[k].active = prep[k].active
                             /\ prep'[k].pc = "idle" => prep[k].pc = "idle"
<1>1. PICK i \in Items : prep' = [prep EXCEPT ![i].pc = "granted"]
  BY DEF CompleteAborted
<1> DEFINE n == [prep[i] EXCEPT !.pc = "granted"]
<1>2. prep \in [Items -> PrepRow] /\ prep[i] \in PrepRow /\ UNCHANGED itemJob
  BY DEF PrepsKnown, CompleteAborted
<1>3. n \in PrepRow /\ n.pc = "granted" /\ n.active = prep[i].active /\ n.pdf = prep[i].pdf
  BY <1>2 DEF PrepRow
<1>4. prep' = [prep EXCEPT ![i] = n]
  BY <1>1, <1>2
<1> HIDE DEF n
<1>5. PrepsKnown'
  BY <1>2, <1>3, <1>4 DEF PrepsKnown
<1>. QED BY <1>2, <1>3, <1>4, <1>5

LEMMA WorkSteps ==
  ASSUME DeliveryInv, NEW j \in JobIds, Work(j)
  PROVE  MailersKnown' /\ PrepsKnown' /\ Budget'
<1> DEFINE r == jobs[j]
<1>0. StoreInv /\ MailersKnown /\ PrepsKnown /\ r \in Row /\ r.status = "processing"
  BY RowsOfTable DEF DeliveryInv, Work
<1>1. UNCHANGED <<itemJob, mailer, asks, mails>> /\ UNCHANGED mailTokens
  BY DEF Work, Process, CompleteBegin, CompleteEnd, CompleteAborted, TryAgain, CompleteGoesTo,
         SetStage, Complete, Requeue, Fail, deliveryVars, tokenVars, storeVars
<1>2. \A i \in JobIds : Calm(jobs[i], jobs'[i])
  <2>1. CASE UNCHANGED storeVars
    BY <2>1, CalmSame DEF storeVars
  <2>2. ASSUME NEW stage \in Stages, SetRow(j, Staged(r, stage))
        PROVE  \A i \in JobIds : Calm(jobs[i], jobs'[i])
    BY <1>0, <2>2, RowSet, CalmWork, CalmSame
  <2>3. ASSUME NEW a \in Artifacts, SetRow(j, Completed(r, a))
        PROVE  \A i \in JobIds : Calm(jobs[i], jobs'[i])
    BY <1>0, <2>3, RowSet, CalmWork, CalmSame
  <2>4. ASSUME NEW wait \in 0..MaxWait, SetRow(j, Requeued(r, wait))
        PROVE  \A i \in JobIds : Calm(jobs[i], jobs'[i])
    BY <1>0, <2>4, RowSet, CalmWork, CalmSame
  <2>5. CASE SetRow(j, Failed(r))
    BY <1>0, <2>5, RowSet, CalmWork, CalmSame
  <2>. QED BY <1>0, <2>1, <2>2, <2>3, <2>4, <2>5, WorkWrites
<1>3. PrepsKnown'
  <2>1. CASE UNCHANGED prep
    BY <1>0, <1>1, <2>1, PrepsStay
  <2>2. CASE CompleteAborted(j)
    BY <1>0, <2>2, Grants
  <2>. QED BY <2>1, <2>2 DEF Work, Process, CompleteBegin, CompleteEnd, TryAgain, CompleteGoesTo,
                             deliveryVars
<1>. QED BY <1>0, <1>1, <1>2, <1>3, MailersStay, CalmBudget

-----------------------------------------------------------------------------
(* Mail workers *)

\* One worker moves; what it is told is about a job and a token of the table.
LEMMA OneMailerKnown ==
  ASSUME MailersKnown, NEW m \in Mailers, NEW STATE n, SetMailer(m, n), n \in MailerRow,
         n.pc # "idle" => n.job \in JobIds /\ n.token \in mailTokens',
         n.pc = "sent" => n.outcome \in Outcomes, mailTokens \subseteq mailTokens'
  PROVE  MailersKnown'
<1>1. mailer' = [mailer EXCEPT ![m] = n]
  BY DEF SetMailer
<1>. QED BY <1>1 DEF MailersKnown

\* A claim takes the row out of the queue and gives its message to the worker.
LEMMA ClaimSteps ==
  ASSUME DeliveryInv, NEW m \in Mailers, MailClaim(m)
  PROVE  MailersKnown' /\ PrepsKnown' /\ Budget'
<1>0. StoreInv /\ MailersKnown /\ PrepsKnown /\ lastToken \in Nat /\ mailTokens \subseteq 1..lastToken
  BY DEF DeliveryInv, StoreInv, StoreTypeOK
<1>1. PICK j \in JobIds :
        /\ ClaimDelivery(j)
        /\ SetMailer(m, [pc |-> "claimed", job |-> j, token |-> lastToken + 1, outcome |-> "none"])
  BY DEF MailClaim
<1> DEFINE n == [pc |-> "claimed", job |-> j, token |-> lastToken + 1, outcome |-> "none"]
           swept == [i \in JobIds |-> MailSwept(jobs[i])]
<1>2. /\ UNCHANGED <<itemJob, prep, asks, mails>>
      /\ mailTokens' = mailTokens \cup {lastToken + 1}
      /\ mailer' = [mailer EXCEPT ![m] = n] /\ mailer[m].pc = "idle"
      /\ mailer \in [Mailers -> MailerRow]
  BY <1>0, <1>1 DEF MailClaim, ClaimDelivery, SetMailer, MailersKnown
<1>3. n \in MailerRow
  BY <1>0 DEF MailerRow
<1>4. MailersKnown'
  <2>1. n.job \in JobIds /\ n.token \in mailTokens' /\ n.pc = "claimed"
    BY <1>2
  <2>2. SetMailer(m, n)
    BY <1>1
  <2> HIDE DEF n
  <2>. QED BY <1>0, <1>2, <1>3, <2>1, <2>2, OneMailerKnown
<1>5. PrepsKnown'
  BY <1>0, <1>2, PrepsStay
<1>6. \A i \in JobIds : jobs[i] \in Row /\ RowGood(jobs[i]) /\ swept[i] \in Row /\ Calm(jobs[i], swept[i])
  BY <1>0, RowsOfTable, SweptGood, CalmOther DEF Follows
<1>7. /\ jobs' = [swept EXCEPT ![j] = DeliveryClaimed(@, lastToken + 1)]
      /\ swept[j].status = "ready" /\ swept[j].pending
  BY <1>1 DEF ClaimDelivery
<1>8. Queued(jobs[j])
  BY <1>6, <1>7 DEF Calm, Queued
<1>9. jobs'[j].status = "delivering" /\ jobs'[j].token = lastToken + 1
  <2>1. jobs'[j] = DeliveryClaimed(swept[j], lastToken + 1)
    BY <1>7
  <2> HIDE DEF swept
  <2>. QED BY <1>6, <2>1 DEF DeliveryClaimed, Row
<1>10. \A i \in JobIds \ {j} : Calm(jobs[i], jobs'[i])
  <2>1. \A i \in JobIds \ {j} : jobs'[i] = swept[i]
    BY <1>7
  <2>. QED BY <1>6, <2>1
<1> HIDE DEF swept
<1>11. Sending(j)' = Sending(j) \cup {m} /\ m \notin Sending(j)
  BY <1>2 DEF Sending
<1>12. Cardinality(Sending(j))' = Cardinality(Sending(j)) + 1
  BY <1>11, SendingFinite, FS_AddElement
<1>13. ~Owed(j)'
  <2>1. ~Queued(jobs'[j])
    BY <1>9 DEF Queued
  <2>2. ASSUME NEW k \in Mailers, GivesBack(k, j)' PROVE FALSE
    <3>1. k # m
      BY <1>2, <2>2 DEF GivesBack
    <3>2. mailer'[k] = mailer[k]
      BY <1>2, <3>1
    <3>3. mailer[k].token \in mailTokens
      BY <1>0, <2>2, <3>2 DEF GivesBack, MailersKnown
    <3>. QED BY <1>0, <1>9, <2>2, <3>2, <3>3 DEF GivesBack
  <2>. QED BY <2>1, <2>2 DEF Owed
<1>14. Owed(j)
  BY <1>8 DEF Owed
<1>15. Spendable(j)' = Spendable(j)
  BY <1>12, <1>13, <1>14, SendingFinite DEF Spendable
<1>16. ASSUME NEW i \in JobIds \ {j} PROVE Spendable(i)' <= Spendable(i)
  <2>1. Sending(i)' = Sending(i)
    BY <1>2 DEF Sending
  <2>2. Owed(i)' => Owed(i)
    <3>1. \A k \in Mailers : GivesBack(k, i)' => GivesBack(k, i)
      BY <1>2, <1>10 DEF GivesBack, Calm
    <3>. QED BY <1>10, <3>1 DEF Owed, Calm
  <2>. QED BY <2>1, <2>2, SendingFinite DEF Spendable
<1>17. Budget'
  <2>1. \A i \in JobIds : mails[i] + Spendable(i) <= asks[i] /\ mails[i] \in Nat /\ asks[i] \in Nat
    BY DEF DeliveryInv, Budget
  <2>2. \A i \in JobIds : mails'[i] + Spendable(i)' <= asks'[i]
    BY <1>2, <1>15, <1>16, <2>1, SpendableNat
  <2>. QED BY <1>2, <2>2 DEF DeliveryInv, Budget
<1>. QED BY <1>4, <1>5, <1>17

\* A worker that may send leaves the count when it has tried, in time or late.
LEMMA SendSteps ==
  ASSUME DeliveryInv, NEW m \in Mailers, MailSend(m)
  PROVE  MailersKnown' /\ PrepsKnown' /\ Budget'
<1> DEFINE c == mailer[m]
<1>0. StoreInv /\ MailersKnown /\ PrepsKnown /\ mailer \in [Mailers -> MailerRow]
  BY DEF DeliveryInv, MailersKnown
<1>j. PICK j \in JobIds : j = mailer[m].job
  BY DEF MailSend, DeliveryInv, MailersKnown
<1>1. c.pc = "claimed" /\ c \in MailerRow /\ c.job = j /\ c.token \in mailTokens
  BY <1>j DEF MailSend, DeliveryInv, MailersKnown
<1>2. PICK outcome \in Outcomes, a \in {0, 1} :
        /\ SetMailer(m, [c EXCEPT !.pc = "sent", !.outcome = outcome])
        /\ mails' = [mails EXCEPT ![j] = @ + a]
        /\ outcome = "transient_failure" => a = 0
  <2>1. PICK outcome \in Outcomes :
          /\ SetMailer(m, [c EXCEPT !.pc = "sent", !.outcome = outcome])
          /\ \E n \in MayHaveSent(outcome) : mails' = [mails EXCEPT ![j] = @ + n]
    BY <1>1 DEF MailSend
  <2>2. PICK n \in MayHaveSent(outcome) : mails' = [mails EXCEPT ![j] = @ + n]
    BY <2>1
  <2>3. n \in {0, 1} /\ (outcome = "transient_failure" => n = 0)
    BY <2>2 DEF MayHaveSent
  <2>. QED BY <2>1, <2>2, <2>3
<1> DEFINE n == [c EXCEPT !.pc = "sent", !.outcome = outcome]
<1>3. /\ UNCHANGED <<storeVars, itemJob, prep, asks>>
      /\ mailer' = [mailer EXCEPT ![m] = n] /\ UNCHANGED <<jobs, mailTokens>>
  BY <1>2 DEF MailSend, SetMailer, storeVars
<1>4. n \in MailerRow /\ n.pc = "sent" /\ n.job = j /\ n.token = c.token /\ n.outcome = outcome
  BY <1>1 DEF MailerRow
<1>5. MailersKnown'
  <2> SUFFICES ASSUME SetMailer(m, n) PROVE MailersKnown'
    BY <1>2
  <2> HIDE DEF n
  <2>. QED BY <1>0, <1>1, <1>2, <1>3, <1>4, OneMailerKnown
<1>6. PrepsKnown'
  BY <1>0, <1>3, PrepsStay
<1> HIDE DEF n
<1>7. Sending(j)' = Sending(j) \ {m} /\ m \in Sending(j)
  BY <1>0, <1>1, <1>3, <1>4 DEF Sending
<1>8. Cardinality(Sending(j))' = Cardinality(Sending(j)) - 1
  BY <1>7, SendingFinite, FS_RemoveElement
<1>9. outcome # "transient_failure" => (Owed(j)' => Owed(j))
  <2>1. ASSUME outcome # "transient_failure", NEW k \in Mailers, GivesBack(k, j)'
        PROVE  GivesBack(k, j)
    <3>1. k # m
      BY <1>0, <1>3, <1>4, <2>1 DEF GivesBack
    <3>2. mailer'[k] = mailer[k]
      BY <1>0, <1>3, <3>1
    <3>. QED BY <1>3, <2>1, <3>2 DEF GivesBack
  <2>. QED BY <1>3, <2>1 DEF Owed
<1>10. ASSUME NEW i \in JobIds PROVE mails'[i] + Spendable(i)' <= asks'[i]
  <2>1. mails[i] + Spendable(i) <= asks[i] /\ mails \in [JobIds -> Nat] /\ asks[i] \in Nat
    BY DEF DeliveryInv, Budget
  <2>2. CASE i = j
    <3>1. mails'[i] = mails[i] + a
      BY <1>2, <2>1, <2>2
    <3>2. CASE outcome = "transient_failure"
      <4>1. Spendable(j)' <= Spendable(j)
        BY <1>8, SendingFinite DEF Spendable
      <4>. QED BY <1>2, <1>3, <2>1, <2>2, <3>1, <3>2, <4>1, SpendableNat
    <3>3. CASE outcome # "transient_failure"
      <4>1. Spendable(j)' <= Spendable(j) - 1
        BY <1>8, <1>9, <3>3, SendingFinite DEF Spendable
      <4>. QED BY <1>2, <1>3, <2>1, <2>2, <3>1, <4>1, SpendableNat
    <3>. QED BY <3>2, <3>3
  <2>3. CASE i # j
    <3>1. mails'[i] = mails[i]
      BY <1>2, <2>1, <2>3
    <3>2. Sending(i)' = Sending(i)
      BY <1>0, <1>1, <1>3, <1>4, <2>3 DEF Sending
    <3>3. Owed(i)' => Owed(i)
      BY <1>0, <1>3, <1>4, <2>3 DEF Owed, GivesBack
    <3>4. Spendable(i)' <= Spendable(i)
      BY <3>2, <3>3, SendingFinite DEF Spendable
    <3>. QED BY <1>3, <2>1, <3>1, <3>4, SpendableNat
  <2>. QED BY <2>2, <2>3
<1>11. mails' \in [JobIds -> Nat] /\ asks' \in [JobIds -> Nat]
  <2>1. mails \in [JobIds -> Nat] /\ asks \in [JobIds -> Nat]
    BY DEF DeliveryInv, Budget
  <2>2. mails[j] + a \in Nat
    BY <1>2, <2>1
  <2>. QED BY <1>2, <1>3, <2>1, <2>2
<1>. QED BY <1>5, <1>6, <1>10, <1>11 DEF Budget

\* A worker that stops, and one that has nothing to give back, adds nothing.
LEMMA MailerRests ==
  ASSUME DeliveryInv, NEW m \in Mailers, SetMailer(m, NoMail),
         UNCHANGED <<itemJob, prep, asks, mails, mailTokens>>,
         \A i \in JobIds : Owed(i)' => Owed(i)
  PROVE  MailersKnown' /\ PrepsKnown' /\ Budget'
<1>0. MailersKnown /\ PrepsKnown /\ mailer \in [Mailers -> MailerRow]
  BY DEF DeliveryInv, MailersKnown
<1>1. NoMail \in MailerRow /\ NoMail.pc = "idle"
  BY DEF NoMail, MailerRow
<1>2. MailersKnown'
  BY <1>0, <1>1, OneMailerKnown
<1>3. \A i \in JobIds : Sending(i)' \subseteq Sending(i)
  BY <1>0, <1>1 DEF Sending, SetMailer
<1>4. ASSUME NEW i \in JobIds PROVE mails'[i] + Spendable(i)' <= asks'[i]
  <2>1. Cardinality(Sending(i))' <= Cardinality(Sending(i))
    BY <1>3, SendingFinite, FS_Subset
  <2>2. Spendable(i)' <= Spendable(i)
    BY <2>1, SendingFinite DEF Spendable
  <2>. QED BY <2>2, SpendableNat DEF DeliveryInv, Budget
<1>. QED BY <1>0, <1>2, <1>4, PrepsStay DEF DeliveryInv, Budget

LEMMA FinishSteps ==
  ASSUME DeliveryInv, NEW m \in Mailers, MailFinish(m) \/ MailLost(m)
  PROVE  MailersKnown' /\ PrepsKnown' /\ Budget'
<1> DEFINE c == mailer[m]
<1>0. StoreInv /\ mailer \in [Mailers -> MailerRow] /\ NoMail.pc = "idle"
  BY DEF DeliveryInv, MailersKnown, NoMail
<1>1. /\ SetMailer(m, NoMail) /\ UNCHANGED <<itemJob, prep, asks, mails, mailTokens>>
  BY DEF MailFinish, MailLost, FinishDelivery, storeVars, tokenVars
<1>2. ASSUME NEW i \in JobIds, Calm(jobs[i], jobs'[i]) PROVE Owed(i)' => Owed(i)
  <2>1. \A k \in Mailers : GivesBack(k, i)' => GivesBack(k, i)
    BY <1>0, <1>1, <1>2 DEF GivesBack, Calm, SetMailer
  <2>. QED BY <1>2, <2>1 DEF Owed, Calm
<1>3. CASE UNCHANGED storeVars
  <2>1. \A i \in JobIds : Calm(jobs[i], jobs'[i])
    BY <1>3, CalmSame DEF storeVars
  <2>. QED BY <1>1, <1>2, <2>1, MailerRests
<1>4. CASE MailFinish(m) /\ FinishDelivery(c.job, c.token, c.outcome)
  <2>j. PICK j \in JobIds : j = mailer[m].job
    BY <1>4 DEF MailFinish, DeliveryInv, MailersKnown
  <2>0. c.pc = "sent" /\ c.job = j
    BY <1>4, <2>j DEF MailFinish
  <2> DEFINE r == jobs[j]
             n == DeliveryFinished(r, c.outcome)
  <2>1. /\ r \in Row /\ r.status = "delivering" /\ r.token = c.token
        /\ SetRow(j, n) /\ jobs'[j] = n
    BY <1>0, <1>4, <2>0, RowsOfTable
       DEF FinishDelivery, DeliveryHeld, SetRow, StoreInv, StoreTypeOK
  <2>2. \A i \in JobIds \ {j} : Calm(jobs[i], jobs'[i])
    BY <1>0, <2>0, <2>1, OneRowCalm
  <2>3. /\ n.status = OutcomeStatus(r, c.outcome) /\ n.pending = WillRetry(r, c.outcome)
    BY <2>1 DEF DeliveryFinished, Leaseless, Row
  <2>4. Queued(n) => c.outcome = "transient_failure"
    BY <2>3 DEF Queued, OutcomeStatus, WillRetry
  <2>5. n.status # "delivering"
    BY <2>3 DEF OutcomeStatus
  <2> HIDE DEF n
  <2>6. Owed(j)' => Owed(j)
    <3>1. CASE c.outcome = "transient_failure"
      <4>1. GivesBack(m, j)
        BY <2>0, <2>1, <3>1 DEF GivesBack
      <4>. QED BY <4>1 DEF Owed
    <3>2. CASE c.outcome # "transient_failure"
      <4>1. ~Queued(jobs[j])'
        BY <2>1, <2>4, <3>2
      <4>2. jobs'[j].status # "delivering"
        BY <2>1, <2>5
      <4>. QED BY <4>1, <4>2 DEF Owed, GivesBack
    <3>. QED BY <3>1, <3>2
  <2>. QED BY <1>1, <1>2, <2>2, <2>6, MailerRests
<1>. QED BY <1>3, <1>4 DEF MailFinish, MailLost

-----------------------------------------------------------------------------
(* A request that joins a generation *)

Unfinished == {"queued", "processing", "failed"}

Settled(r) == r.status = "ready" /\ r.dest => r.pending

\* The inductive invariant of AskedMailIsQueued: what prepare has seen in
\* progress has not ended as a PDF since.
JoinsHold ==
    /\ AskedMailIsQueued
    /\ \A i \in Items : prep[i].active =>
          prep[i].pc # "idle" /\ jobs[itemJob[i]].status \in Unfinished

\* From r to n no finished PDF is left without its delivery, and none is made.
Steady(r, n) ==
    /\ Settled(r) => Settled(n)
    /\ r.status \in Unfinished => n.status \in Unfinished

\* The row of j is steady, or ends as a PDF while nobody is about to join it.
Kept(j) ==
    \/ Steady(jobs[j], jobs'[j])
    \/ Settled(jobs'[j]) /\ \A i \in Items : itemJob[i] = j => ~prep'[i].active

\* Who is about to join after the step joins a job that is unfinished before it.
Joiners ==
    \A i \in Items : prep'[i].active =>
        /\ prep'[i].pc # "idle" /\ itemJob'[i] = itemJob[i]
        /\ itemJob[i] \in JobIds /\ jobs[itemJob[i]].status \in Unfinished

LEMMA JoinsKept ==
  ASSUME JoinsHold, Joiners, \A j \in JobIds : Kept(j)
  PROVE  JoinsHold'
<1>1. ASSUME NEW j \in JobIds PROVE Settled(jobs'[j])
  <2>1. Settled(jobs[j])
    BY DEF JoinsHold, AskedMailIsQueued, Settled
  <2>. QED BY <2>1 DEF Kept, Steady
<1>2. AskedMailIsQueued'
  BY <1>1 DEF AskedMailIsQueued, Settled
<1>3. ASSUME NEW i \in Items, prep'[i].active
      PROVE  prep'[i].pc # "idle" /\ jobs'[itemJob'[i]].status \in Unfinished
  BY <1>3 DEF Joiners, Kept, Steady
<1>. QED BY <1>2, <1>3 DEF JoinsHold

LEMMA SteadySame == ASSUME NEW r PROVE Steady(r, r)
  BY DEF Steady

LEMMA SteadyWork ==
  ASSUME NEW r \in Row, r.status = "processing", NEW stage, NEW wait
  PROVE  /\ Steady(r, Staged(r, stage)) /\ Steady(r, Failed(r))
         /\ Steady(r, Requeued(r, wait)) /\ Steady(r, Reclaimed(r))
<1>1. Steady(r, Staged(r, stage))
  BY DEF Steady, Settled, Unfinished, Staged, Row
<1>2. Steady(r, Failed(r))
  BY DEF Steady, Settled, Unfinished, Failed, Leaseless, Row
<1>3. Steady(r, Requeued(r, wait))
  BY DEF Steady, Settled, Unfinished, Requeued, Leaseless, Row
<1>4. Steady(r, Reclaimed(r))
  BY DEF Steady, Settled, Unfinished, Reclaimed, Leaseless, Row
<1>. QED BY <1>1, <1>2, <1>3, <1>4

LEMMA CompletedSettled ==
  ASSUME NEW r \in Row, NEW a
  PROVE  Settled(Completed(r, a))
<1>1. Completed(r, a).pending = r.dest /\ Completed(r, a).dest = r.dest
  BY DEF Completed, Leaseless, Row
<1>. QED BY <1>1 DEF Settled

LEMMA SteadyClaims ==
  ASSUME NEW r \in Row, NEW t
  PROVE  /\ r.status = "queued" => Steady(r, Claimed(r, t))
         /\ r.status = "ready" => Steady(r, DeliveryClaimed(r, t))
<1>1. r.status = "queued" => Steady(r, Claimed(r, t))
  BY DEF Steady, Settled, Unfinished, Claimed, Row
<1>2. r.status = "ready" => Steady(r, DeliveryClaimed(r, t))
  BY DEF Steady, Settled, Unfinished, DeliveryClaimed, Row
<1>. QED BY <1>1, <1>2

LEMMA SteadyOther ==
  ASSUME NEW r \in Row
  PROVE  /\ Steady(r, Aged(r)) /\ Steady(r, Paused(r))
         /\ Steady(r, Swept(r)) /\ Steady(r, MailSwept(r))
<1>1. Steady(r, Aged(r))
  BY DEF Steady, Settled, Unfinished, Aged, Row
<1>2. Steady(r, Paused(r))
  BY DEF Steady, Settled, Unfinished, Paused, Row
<1>3. CASE r.status = "delivering" /\ r.lease = 0
  <2>1. Steady(r, DeliveryExpired(r))
    BY <1>3 DEF Steady, Settled, Unfinished, DeliveryExpired, Leaseless, Row
  <2>. QED BY <1>1, <1>2, <1>3, <2>1 DEF Swept, MailSwept
<1>4. CASE r.status = "processing" /\ r.lease = 0
  <2>1. Swept(r) = Reclaimed(r) /\ MailSwept(r) = r
    BY <1>4 DEF Swept, MailSwept
  <2>. QED BY <1>1, <1>2, <1>4, <2>1, SteadyWork, SteadySame
<1>5. CASE ~(r.status \in {"delivering", "processing"} /\ r.lease = 0)
  <2>1. Swept(r) = r /\ MailSwept(r) = r
    BY <1>5 DEF Swept, MailSwept
  <2>. QED BY <1>1, <1>2, <2>1, SteadySame
<1>. QED BY <1>3, <1>4, <1>5

LEMMA SteadyMail ==
  ASSUME NEW r \in Row, NEW outcome
  PROVE  /\ r.status = "delivering" => Steady(r, DeliveryFinished(r, outcome))
         /\ r.status \notin Unfinished => Steady(r, EmailRetried(r)) /\ Steady(r, EmailRequested(r))
         /\ r.status \in Unfinished => Steady(r, Joined(r))
<1>1. r.status = "delivering" => Steady(r, DeliveryFinished(r, outcome))
  <2> DEFINE n == DeliveryFinished(r, outcome)
  <2>1. n.status = OutcomeStatus(r, outcome) /\ n.pending = WillRetry(r, outcome)
    BY DEF DeliveryFinished, Leaseless, Row
  <2>2. n.status = "ready" => n.pending
    BY <2>1 DEF OutcomeStatus
  <2>. QED BY <2>2 DEF Steady, Settled, Unfinished
<1>2. Settled(EmailRetried(r)) /\ Settled(EmailRequested(r))
  BY DEF Settled, EmailRequested, EmailRetried, Row
<1>3. r.status \in Unfinished => Steady(r, Joined(r))
  BY DEF Steady, Settled, Unfinished, Joined, Row
<1>. QED BY <1>1, <1>2, <1>3 DEF Steady

\* A step writes one row.
LEMMA OneRowKept ==
  ASSUME StoreInv, NEW j \in JobIds, NEW STATE n, SetRow(j, n), Steady(jobs[j], n)
  PROVE  \A k \in JobIds : Kept(k)
  BY RowSet, SteadySame DEF Kept

LEMMA NoRowKept ==
  ASSUME UNCHANGED jobs
  PROVE  \A k \in JobIds : Kept(k)
  BY SteadySame DEF Kept

LEMMA SameJoiners ==
  ASSUME DeliveryInv, JoinsHold, UNCHANGED <<itemJob, prep>>
  PROVE  Joiners
  BY DEF DeliveryInv, PrepsKnown, JoinsHold, Joiners

\* prepare ends, or is rolled back.
LEMMA DoneJoiners ==
  ASSUME DeliveryInv, JoinsHold, NEW i \in Items, prep' = [prep EXCEPT ![i] = NoPrep],
         \A k \in Items \ {i} : itemJob'[k] = itemJob[k]
  PROVE  Joiners
<1>1. ~NoPrep.active /\ prep \in [Items -> PrepRow]
  BY DEF NoPrep, DeliveryInv, PrepsKnown
<1>2. ASSUME NEW k \in Items, prep'[k].active
      PROVE  /\ prep'[k].pc # "idle" /\ itemJob'[k] = itemJob[k]
             /\ itemJob[k] \in JobIds /\ jobs[itemJob[k]].status \in Unfinished
  <2>1. k # i /\ prep'[k] = prep[k]
    BY <1>1, <1>2
  <2>. QED BY <1>2, <2>1 DEF DeliveryInv, PrepsKnown, JoinsHold
<1>. QED BY <1>2 DEF Joiners

LEMMA PrepareJoins ==
  ASSUME DeliveryInv, JoinsHold, NEW i \in Items, Prepare(i)
  PROVE  Joiners /\ \A j \in JobIds : Kept(j)
<1>0. /\ StoreInv /\ PrepsKnown /\ prep[i] \in PrepRow /\ prep \in [Items -> PrepRow]
      /\ \A j \in JobIds : jobs[j] \in Row /\ RowGood(jobs[j])
  BY RowsOfTable DEF DeliveryInv, PrepsKnown
<1>1. ASSUME NEW key \in ActionKeys, NEW send \in BOOLEAN, PrepareBegin(i, key, send)
      PROVE  Joiners /\ \A j \in JobIds : Kept(j)
  <2> DEFINE n == [pc |-> "begun", send |-> send, key |-> key, active |-> FALSE,
                   pdf |-> itemJob[i] # NoJob /\ jobs[itemJob[i]].artifact # NoArtifact]
  <2>1. prep' = [prep EXCEPT ![i] = n] /\ UNCHANGED <<storeVars, itemJob>>
    BY <1>1 DEF PrepareBegin
  <2>2. ~n.active
    OBVIOUS
  <2> HIDE DEF n
  <2>3. \A k \in Items : prep'[k].active => prep'[k] = prep[k] /\ prep[k].active
    BY <1>0, <2>1, <2>2
  <2>4. Joiners
    BY <2>1, <2>3 DEF Joiners, JoinsHold, DeliveryInv, PrepsKnown
  <2>. QED BY <2>1, <2>4, NoRowKept DEF storeVars
<1>2. CASE PrepareLook(i)
  <2> DEFINE b == itemJob[i] # NoJob /\ jobs[itemJob[i]].status \in {"queued", "processing"}
             n == [prep[i] EXCEPT !.pc = "looked", !.active = b]
  <2>1. prep' = [prep EXCEPT ![i] = n] /\ UNCHANGED <<storeVars, itemJob>>
    BY <1>0, <1>2 DEF PrepareLook
  <2>2. n.active = b /\ n.pc = "looked"
    BY <1>0 DEF PrepRow
  <2>3. b => itemJob[i] \in JobIds /\ jobs[itemJob[i]].status \in Unfinished
    BY <1>0 DEF PrepsKnown, Unfinished
  <2> HIDE DEF n, b
  <2>4. prep'[i] = n /\ \A k \in Items \ {i} : prep'[k] = prep[k]
    BY <1>0, <2>1
  <2>5. Joiners
    BY <2>1, <2>2, <2>3, <2>4 DEF Joiners, JoinsHold, DeliveryInv, PrepsKnown
  <2>. QED BY <2>1, <2>5, NoRowKept DEF storeVars
<1>3. CASE PrepareReuse(i)
  <2> DEFINE j == itemJob[i]
  <2>1. j \in JobIds
    BY <1>3 DEF PrepareReuse, DeliveryInv, PrepsKnown
  <2>2. Joiners
    BY <1>3, DoneJoiners DEF PrepareReuse, PrepareDone
  <2>3. CASE SendReady(j)
    <3>1. jobs[j].status \notin Unfinished
      <4>1. RowGood(jobs[j]) /\ jobs[j].artifact # NoArtifact
        BY <1>0, <2>1, <2>3 DEF SendReady
      <4>2. jobs[j].status \in Published
        BY <4>1 DEF RowGood
      <4>. QED BY <4>2 DEF Published, Unfinished
    <3>2. SetRow(j, EmailRequested(jobs[j])) /\ Steady(jobs[j], EmailRequested(jobs[j]))
      BY <1>0, <2>1, <2>3, <3>1, SteadyMail DEF SendReady
    <3>. QED BY <1>0, <2>1, <2>2, <3>2, OneRowKept
  <2>4. CASE UNCHANGED storeVars
    BY <2>2, <2>4, NoRowKept DEF storeVars
  <2>. QED BY <1>3, <2>3, <2>4 DEF PrepareReuse
<1>4. CASE PrepareJoin(i)
  <2> DEFINE j == itemJob[i]
  <2>1. j \in JobIds /\ jobs[j].status \in Unfinished
    BY <1>4 DEF PrepareJoin, DeliveryInv, PrepsKnown, JoinsHold
  <2>2. Joiners
    BY <1>4, DoneJoiners DEF PrepareJoin, PrepareDone
  <2>3. CASE JoinJob(j)
    <3>1. SetRow(j, Joined(jobs[j])) /\ Steady(jobs[j], Joined(jobs[j]))
      BY <1>0, <2>1, <2>3, SteadyMail DEF JoinJob
    <3>. QED BY <1>0, <2>1, <2>2, <3>1, OneRowKept
  <2>4. CASE UNCHANGED storeVars
    BY <2>2, <2>4, NoRowKept DEF storeVars
  <2>. QED BY <1>4, <2>3, <2>4 DEF PrepareJoin
<1>5. CASE PrepareNew(i)
  <2> DEFINE j == lastJob + 1
             n == NewRow(prep[i].send)
  <2>1. SetRow(j, n) /\ itemJob' = [itemJob EXCEPT ![i] = j]
    BY <1>5 DEF PrepareNew, CreateJob
  <2>2. j \in JobIds
    BY <1>0, <1>5, StoreAssumption DEF PrepareNew, CreateJob, StoreInv, StoreTypeOK, JobIds
  <2>3. Steady(jobs[j], n)
    BY DEF Steady, Settled, Unfinished, NewRow, NoRow
  <2> HIDE DEF j, n
  <2>4. Joiners
    BY <1>0, <1>5, <2>1, DoneJoiners DEF PrepareNew, PrepareDone, PrepsKnown
  <2>. QED BY <1>0, <2>1, <2>2, <2>3, <2>4, OneRowKept
<1>6. CASE PrepareAborted(i)
  BY <1>6, DoneJoiners, NoRowKept DEF PrepareAborted, storeVars
<1>. QED BY <1>1, <1>2, <1>3, <1>4, <1>5, <1>6 DEF Prepare

\* Complete ends only while no prepare holds an item that shows the job.
LEMMA WorkJoins ==
  ASSUME DeliveryInv, JoinsHold, NEW j \in JobIds, Work(j)
  PROVE  Joiners /\ \A k \in JobIds : Kept(k)
<1> DEFINE r == jobs[j]
<1>0. StoreInv /\ r \in Row /\ r.status = "processing"
  BY RowsOfTable DEF DeliveryInv, Work
<1>1. UNCHANGED itemJob /\ (UNCHANGED prep \/ CompleteAborted(j))
  BY DEF Work, Process, CompleteBegin, CompleteEnd, CompleteAborted, TryAgain, CompleteGoesTo,
         deliveryVars
<1>2. Joiners
  <2>1. CASE UNCHANGED prep
    BY <1>1, <2>1, SameJoiners
  <2>2. CASE CompleteAborted(j)
    BY <1>1, <2>2, Grants DEF DeliveryInv, PrepsKnown, JoinsHold, Joiners
  <2>. QED BY <1>1, <2>1, <2>2
<1>3. CASE UNCHANGED storeVars
  BY <1>2, <1>3, NoRowKept DEF storeVars
<1>4. ASSUME NEW stage \in Stages, SetRow(j, Staged(r, stage))
      PROVE  \A k \in JobIds : Kept(k)
  BY <1>0, <1>4, SteadyWork, OneRowKept
<1>5. ASSUME NEW a \in Artifacts, CompleteEnd(j), SetRow(j, Completed(r, a))
      PROVE  \A k \in JobIds : Kept(k)
  <2>1. UNCHANGED prep
    BY <1>5 DEF CompleteEnd, CompleteGoesTo
  <2>2. \A i \in Items : itemJob[i] = j => ~prep'[i].active
    BY <1>5, <2>1 DEF CompleteEnd, ItemFree, JoinsHold
  <2>3. Settled(jobs'[j]) /\ \A k \in JobIds \ {j} : jobs'[k] = jobs[k]
    BY <1>0, <1>5, RowSet, CompletedSettled
  <2>. QED BY <2>2, <2>3, SteadySame DEF Kept
<1>6. ASSUME NEW wait \in 0..MaxWait, SetRow(j, Requeued(r, wait))
      PROVE  \A k \in JobIds : Kept(k)
  BY <1>0, <1>6, SteadyWork, OneRowKept
<1>7. CASE SetRow(j, Failed(r))
  BY <1>0, <1>2, <1>7, SteadyWork, OneRowKept
<1>. QED BY <1>0, <1>2, <1>3, <1>4, <1>5, <1>6, <1>7, WorkWrites

LEMMA MailJoins ==
  ASSUME DeliveryInv, JoinsHold, NEW m \in Mailers,
         MailClaim(m) \/ MailSend(m) \/ MailFinish(m) \/ MailLost(m)
  PROVE  Joiners /\ \A j \in JobIds : Kept(j)
<1>0. StoreInv /\ \A j \in JobIds : jobs[j] \in Row /\ RowGood(jobs[j])
  BY RowsOfTable DEF DeliveryInv
<1>1. Joiners
  BY SameJoiners DEF MailClaim, MailSend, MailFinish, MailLost
<1>2. CASE MailClaim(m)
  <2> DEFINE swept == [k \in JobIds |-> MailSwept(jobs[k])]
  <2>1. PICK j \in JobIds : /\ swept[j].status = "ready"
                            /\ jobs' = [swept EXCEPT ![j] = DeliveryClaimed(@, lastToken + 1)]
    BY <1>2 DEF MailClaim, ClaimDelivery
  <2>2. \A k \in JobIds : swept[k] \in Row /\ Steady(jobs[k], swept[k])
    BY <1>0, SweptGood, SteadyOther DEF Follows
  <2>3. jobs'[j] = DeliveryClaimed(swept[j], lastToken + 1)
    BY <2>1
  <2>4. \A k \in JobIds \ {j} : jobs'[k] = swept[k]
    BY <2>1
  <2> HIDE DEF swept
  <2>5. Steady(swept[j], jobs'[j])
    BY <2>1, <2>2, <2>3, SteadyClaims
  <2>6. Steady(jobs[j], jobs'[j])
    BY <2>2, <2>5 DEF Steady
  <2>. QED BY <1>1, <2>2, <2>4, <2>6 DEF Kept
<1>3. CASE UNCHANGED storeVars
  BY <1>1, <1>3, NoRowKept DEF storeVars
<1>4. CASE MailFinish(m) /\ FinishDelivery(mailer[m].job, mailer[m].token, mailer[m].outcome)
  <2>1. PICK j \in JobIds : j = mailer[m].job
    BY <1>4 DEF MailFinish, DeliveryInv, MailersKnown
  <2> DEFINE n == DeliveryFinished(jobs[j], mailer[m].outcome)
  <2>2. jobs[j].status = "delivering" /\ SetRow(j, n)
    BY <1>4, <2>1 DEF FinishDelivery, DeliveryHeld
  <2>3. Steady(jobs[j], n)
    BY <1>0, <2>2, SteadyMail
  <2> HIDE DEF n
  <2>. QED BY <1>0, <1>1, <2>2, <2>3, OneRowKept
<1>. QED BY <1>2, <1>3, <1>4 DEF MailSend, MailFinish, MailLost

\* The table's own steps, and the settings.
LEMMA TableJoins ==
  ASSUME DeliveryInv, JoinsHold, UNCHANGED <<itemJob, prep>>,
         \/ \E locked \in SUBSET JobIds : ClaimNext(locked)
         \/ \E locked \in SUBSET JobIds : ClaimNothing(locked) \/ ClaimNoDelivery(locked)
         \/ PausePendingDelivery
         \/ Tick
         \/ UNCHANGED storeVars
  PROVE  Joiners /\ \A j \in JobIds : Kept(j)
<1>0. Joiners /\ \A j \in JobIds : jobs[j] \in Row /\ RowGood(jobs[j])
  BY RowsOfTable, SameJoiners DEF DeliveryInv
<1>1. ASSUME NEW locked \in SUBSET JobIds, ClaimNext(locked)
      PROVE  \A j \in JobIds : Kept(j)
  <2> DEFINE swept == [k \in JobIds |-> Swept(jobs[k])]
  <2>1. PICK j \in JobIds : /\ swept[j].status = "queued"
                            /\ jobs' = [swept EXCEPT ![j] = Claimed(@, lastToken + 1)]
    BY <1>1 DEF ClaimNext, Claimable
  <2>2. \A k \in JobIds : swept[k] \in Row /\ Steady(jobs[k], swept[k])
    BY <1>0, SweptGood, SteadyOther DEF Follows
  <2>3. jobs'[j] = Claimed(swept[j], lastToken + 1)
    BY <2>1
  <2>4. \A k \in JobIds \ {j} : jobs'[k] = swept[k]
    BY <2>1
  <2> HIDE DEF swept
  <2>5. Steady(swept[j], jobs'[j])
    BY <2>1, <2>2, <2>3, SteadyClaims
  <2>6. Steady(jobs[j], jobs'[j])
    BY <2>2, <2>5 DEF Steady
  <2>. QED BY <2>2, <2>4, <2>6 DEF Kept
<1>2. ASSUME NEW locked \in SUBSET JobIds, ClaimNothing(locked) \/ ClaimNoDelivery(locked)
      PROVE  \A j \in JobIds : Kept(j)
  BY <1>0, <1>2, SteadyOther DEF ClaimNothing, ClaimNoDelivery, Kept
<1>3. CASE PausePendingDelivery \/ Tick
  BY <1>0, <1>3, SteadyOther DEF PausePendingDelivery, Tick, Kept
<1>4. CASE UNCHANGED storeVars
  BY <1>0, <1>4, NoRowKept DEF storeVars
<1>. QED BY <1>0, <1>1, <1>2, <1>3, <1>4

LEMMA RetryJoins ==
  ASSUME DeliveryInv, JoinsHold, NEW j \in JobIds, RetryDelivery(j)
  PROVE  Joiners /\ \A k \in JobIds : Kept(k)
<1>0. StoreInv /\ jobs[j] \in Row /\ jobs[j].status = "delivery_failed"
  BY RowsOfTable DEF DeliveryInv, RetryDelivery
<1>1. SetRow(j, EmailRetried(jobs[j]))
  BY DEF RetryDelivery, CreateRetry
<1>2. Steady(jobs[j], EmailRetried(jobs[j]))
  BY <1>0, SteadyMail DEF Unfinished
<1>3. Joiners
  BY SameJoiners DEF RetryDelivery
<1>. QED BY <1>0, <1>1, <1>2, <1>3, OneRowKept

LEMMA JoinsSteps == DeliveryInv /\ JoinsHold /\ [Next]_vars => JoinsHold'
<1> SUFFICES ASSUME DeliveryInv, JoinsHold, [Next]_vars
             PROVE  Joiners /\ \A j \in JobIds : Kept(j)
  BY JoinsKept
<1>1. ASSUME NEW i \in Items, Prepare(i) PROVE Joiners /\ \A j \in JobIds : Kept(j)
  BY <1>1, PrepareJoins
<1>2. ASSUME NEW j \in JobIds, RetryDelivery(j) PROVE Joiners /\ \A k \in JobIds : Kept(k)
  BY <1>2, RetryJoins
<1>3. ASSUME NEW j \in JobIds, Work(j) PROVE Joiners /\ \A k \in JobIds : Kept(k)
  BY <1>3, WorkJoins
<1>4. CASE ClaimJob
  BY <1>4, TableJoins DEF ClaimJob, deliveryVars
<1>5. CASE Disable \/ Enable \/ EnableFails
  BY <1>5, TableJoins DEF Disable, Enable, EnableFails, Pause
<1>6. ASSUME NEW m \in Mailers, MailClaim(m) \/ MailSend(m) \/ MailFinish(m) \/ MailLost(m)
      PROVE  Joiners /\ \A j \in JobIds : Kept(j)
  BY <1>6, MailJoins
<1>7. ASSUME NEW m \in Mailers, MailPollEmpty(m) PROVE Joiners /\ \A j \in JobIds : Kept(j)
  BY <1>7, TableJoins DEF MailPollEmpty, deliveryVars
<1>8. CASE Pass
  BY <1>8, TableJoins DEF Pass, deliveryVars
<1>9. CASE UNCHANGED vars
  BY <1>9, TableJoins DEF vars, deliveryVars
<1>. QED BY <1>1, <1>2, <1>3, <1>4, <1>5, <1>6, <1>7, <1>8, <1>9 DEF Next

-----------------------------------------------------------------------------
(* Theorems *)

LEMMA DeliveryStarts == DeliveryInit => DeliveryInv
<1> SUFFICES ASSUME DeliveryInit PROVE DeliveryInv
  OBVIOUS
<1>1. StoreInv
  BY InitInv DEF DeliveryInit
<1>2. MailersKnown
  BY DEF DeliveryInit, MailersKnown, NoMail, MailerRow
<1>3. PrepsKnown
  BY DEF DeliveryInit, PrepsKnown, NoPrep, PrepRow
<1>4. ASSUME NEW j \in JobIds PROVE mails[j] + Spendable(j) <= asks[j]
  <2>1. Sending(j) = {}
    BY DEF DeliveryInit, Sending, NoMail
  <2>2. ~Owed(j)
    BY DEF DeliveryInit, StoreInit, Owed, Queued, GivesBack, NoRow, NoMail
  <2>. QED BY <2>1, <2>2, FS_EmptySet DEF DeliveryInit, Spendable
<1>5. Budget
  BY <1>4 DEF DeliveryInit, Budget
<1>. QED BY <1>1, <1>2, <1>3, <1>5 DEF DeliveryInv

LEMMA DeliverySteps == DeliveryInv /\ [Next]_vars => DeliveryInv'
<1> SUFFICES ASSUME DeliveryInv, [Next]_vars PROVE DeliveryInv'
  OBVIOUS
<1>0. StoreInv'
  BY DeliveryIsStoreStep, NextInv DEF DeliveryInv
<1> SUFFICES MailersKnown' /\ PrepsKnown' /\ Budget'
  BY <1>0 DEF DeliveryInv
<1>1. ASSUME NEW i \in Items, Prepare(i) PROVE MailersKnown' /\ PrepsKnown' /\ Budget'
  BY <1>1, PrepareSteps
<1>2. ASSUME NEW j \in JobIds, RetryDelivery(j) PROVE MailersKnown' /\ PrepsKnown' /\ Budget'
  BY <1>2, RetrySteps
<1>3. ASSUME NEW j \in JobIds, Work(j) PROVE MailersKnown' /\ PrepsKnown' /\ Budget'
  BY <1>3, WorkSteps
<1>4. CASE ClaimJob
  BY <1>4, TableSteps DEF ClaimJob, deliveryVars
<1>5. CASE Disable \/ Enable \/ EnableFails
  BY <1>5, TableSteps DEF Disable, Enable, EnableFails, Pause
<1>6. ASSUME NEW m \in Mailers, MailClaim(m) PROVE MailersKnown' /\ PrepsKnown' /\ Budget'
  BY <1>6, ClaimSteps
<1>7. ASSUME NEW m \in Mailers, MailPollEmpty(m) PROVE MailersKnown' /\ PrepsKnown' /\ Budget'
  BY <1>7, TableSteps DEF MailPollEmpty, deliveryVars
<1>8. ASSUME NEW m \in Mailers, MailSend(m) PROVE MailersKnown' /\ PrepsKnown' /\ Budget'
  BY <1>8, SendSteps
<1>9. ASSUME NEW m \in Mailers, MailFinish(m) \/ MailLost(m)
      PROVE  MailersKnown' /\ PrepsKnown' /\ Budget'
  BY <1>9, FinishSteps
<1>10. CASE Pass
  BY <1>10, TableSteps DEF Pass, deliveryVars
<1>11. CASE UNCHANGED vars
  BY <1>11, TableSteps DEF vars, deliveryVars
<1>. QED
  BY <1>1, <1>2, <1>3, <1>4, <1>5, <1>6, <1>7, <1>8, <1>9, <1>10, <1>11 DEF Next

\* The table, the mail workers and the requests are related as DeliveryInv says:
\* what was sent, what may still be sent and what waits to be sent stay within
\* what was asked for.
THEOREM DeliveryCorrect == Spec => []DeliveryInv
  BY DeliveryStarts, DeliverySteps, PTL DEF Spec

\* However many mail workers claim, send late, die after sending or report too
\* late, and however requests, joins, manual retries, pauses and changes of the
\* settings interleave, the relay gets at most one message for each request
\* that was accepted (internal/delivery, FinishDelivery).
THEOREM MailsAreAskedFor == Spec => []AtMostOneMailPerAsk
<1>1. DeliveryInv => AtMostOneMailPerAsk
  <2> SUFFICES ASSUME DeliveryInv, NEW j \in JobIds PROVE mails[j] <= asks[j]
    BY DEF AtMostOneMailPerAsk
  <2>. QED BY SpendableNat DEF DeliveryInv, Budget
<1>. QED BY <1>1, DeliveryCorrect, PTL

\* A PDF that was asked to be mailed is in the queue of deliveries when it is
\* finished, also for a request that read the job's status before Complete and
\* wrote the job after it: the item's row, which prepare holds and the trigger
\* of Complete writes, keeps the two apart (prepare, Complete and migration
\* 0005), whatever side of a deadlock is rolled back.
THEOREM JoinedMailIsQueued == Spec => []AskedMailIsQueued
<1>1. DeliveryInit => JoinsHold
  BY DEF DeliveryInit, StoreInit, NoRow, NoPrep, JoinsHold, AskedMailIsQueued
<1>2. Spec => []JoinsHold
  BY <1>1, JoinsSteps, DeliveryCorrect, PTL DEF Spec
<1>3. JoinsHold => AskedMailIsQueued
  BY DEF JoinsHold
<1>. QED BY <1>2, <1>3, PTL

\* Requests, settings and mail workers are callers that JobStore allows for:
\* what is proved of the jobs table holds of the one that they share, and so
\* does the lifecycle (internal/library, internal/delivery, internal/setup).
THEOREM DeliveryUsesTheTable == Spec => StoreSpec /\ ImplementsLifecycle
<1>1. DeliveryInit => StoreInit
  BY DEF DeliveryInit
<1>2. DeliveryInv /\ [Next]_vars => [StoreNext]_storeVars
  BY DeliveryIsStoreStep
<1>3. Spec => StoreSpec
  BY <1>1, <1>2, DeliveryCorrect, PTL DEF Spec, StoreSpec
<1>. QED BY <1>3, TableImplementsLifecycle, PTL

=============================================================================
