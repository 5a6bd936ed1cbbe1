---------------------------- MODULE ItemRemoval ----------------------------
(***************************************************************************)
(* Delete of internal/library/workers.go beside the runner: the jobs of an *)
(* item go with it.  Every job of the model was submitted for the address  *)
(* of the one item; the item shows at most one of them.  The others are    *)
(* older editions, jobs that a later one took the place of and jobs        *)
(* submitted or retried without the item.                                  *)
(*                                                                         *)
(* The transaction is three steps, because its statements see what others  *)
(* commit between them.  It locks the item's row first and jobs only with  *)
(* the last statement.  What Complete and DeleteJob do to the shown job    *)
(* writes the item's row too and so waits for it, or is rolled back in a   *)
(* deadlock, which leaves what the wait leaves; the other jobs have no     *)
(* such row.                                                               *)
(***************************************************************************)
EXTENDS JobWorker

VARIABLES
    removal,    \* the Delete in progress and the files it has queued
    shown       \* saved_items.job_id

NoRemoval == [pc |-> "idle", keys |-> {}]

removalVars == <<vars, removal, shown>>

RemovalInit == WorkerInit /\ removal = NoRemoval /\ shown = NoJob

\* prepare locks the item's row.
Select(j) ==
    /\ removal.pc = "idle"
    /\ j \in {NoJob} \cup {i \in JobIds : Exists(i)}
    /\ shown' = j
    /\ UNCHANGED <<vars, removal>>

\* INSERT INTO deletion_tasks ... SELECT: not visible to others yet.
QueueArtifacts ==
    /\ removal.pc = "idle"
    /\ \E j \in JobIds : Exists(j)
    /\ removal' = [pc |-> "delete",
                   keys |-> {k \in Keys : Exists(k[1]) /\ jobs[k[1]].artifact.name = k[2]}]
    /\ UNCHANGED <<vars, shown>>

\* DELETE FROM jobs, with their artifacts, and COMMIT.
DeleteJobs ==
    /\ removal.pc = "delete"
    /\ tasks' = tasks \cup removal.keys
    /\ jobs' = [j \in JobIds |-> NoRow]
    /\ removal' = NoRemoval
    /\ shown' = NoJob
    /\ UNCHANGED <<lastJob, tokenVars, workerVars>>

\* The transaction is rolled back.
RemovalFails ==
    /\ removal.pc = "delete"
    /\ removal' = NoRemoval
    /\ UNCHANGED <<vars, shown>>

\* The trigger on the content that Complete inserts, and ON DELETE SET NULL.
WritesItem ==
    shown # NoJob /\ (jobs'[shown].artifact # jobs[shown].artifact \/ jobs'[shown] = NoRow)

RunnerNext ==
    /\ Next
    /\ WritesItem => removal.pc = "idle"
    /\ shown' = IF shown # NoJob /\ jobs'[shown] = NoRow THEN NoJob ELSE shown
    /\ UNCHANGED removal

RemovalNext ==
    \/ RunnerNext
    \/ \E j \in JobIds \cup {NoJob} : Select(j)
    \/ QueueArtifacts \/ DeleteJobs \/ RemovalFails

RemovalSpec == RemovalInit /\ [][RemovalNext]_removalVars

=============================================================================
