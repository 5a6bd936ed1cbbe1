---------------------------- MODULE SearchIndex ----------------------------
(***************************************************************************)
(* IndexOnce (internal/library/workers.go) in several servers, against the *)
(* search engine (internal/search/meilisearch.go).                         *)
(*                                                                         *)
(* The engine is external.  It applies its tasks in the order in which it  *)
(* accepted them, and a caller that gives up leaves its task behind.  A    *)
(* document keeps the columns by which versions of an item differ.         *)
(***************************************************************************)
EXTENDS SavedItems, Sequences

CONSTANTS
    Indexers,       \* loops of RunIndex, one per server
    MaxTasks,       \* bound: tasks the engine ever accepted
    MaxChanges,     \* bound: changes of items
    Changes,        \* the changes of the run
    Faults,         \* kinds of adverse events of the run
    MaxFaults       \* bound: adverse events

ASSUME IndexAssumption ==
    /\ MaxTasks \in Nat /\ MaxChanges \in Nat /\ MaxFaults \in Nat
    /\ "no_server" \notin Indexers
    /\ Changes \subseteq {"save", "edit", "capture", "delete", "reindex", "transfer"}
    /\ Faults \subseteq {"refuse", "timeout", "crash", "session"}

VARIABLES
    indexer,        \* what each IndexOnce is doing
    lock,           \* who holds the advisory lock
    queue,          \* accepted tasks of the engine, oldest first
    refused,        \* tasks that failed or were canceled
    lastTask,       \* tasks accepted so far
    index,          \* the documents of the engine
    changes,        \* changes so far
    faults,         \* adverse events so far
    unlocked        \* history: a server lost its lock while it went on

serverVars == <<indexer, lock>>
engineVars == <<queue, refused, lastTask, index>>
vars == <<itemVars, serverVars, engineVars, changes, faults, unlocked>>

NoServer == "no_server"
NoDoc == [title |-> "given", tags |-> {}, text |-> NoText, capture |-> "none"]
Projection(r) ==
    [title |-> r.title, tags |-> r.tags, text |-> r.text, capture |-> r.capture]

Dirty(i) == Saved(i) /\ items[i].indexed < items[i].version

\* Mutant of Indexable: an item that failed once is not tried again.
IndexableOnce(i) == Dirty(i) /\ ~items[i].bad

\* What IndexOnce selects.
Indexable(i) == Dirty(i)

\* alive: the database session, and with it the lock, is still there.
Quiet == [pc |-> "idle", op |-> "none", item |-> NoItem, version |-> 0,
          doc |-> NoDoc, task |-> 0, alive |-> TRUE]

IndexInit ==
    /\ ItemsInit
    /\ indexer = [w \in Indexers |-> Quiet]
    /\ lock = NoServer
    /\ queue = <<>> /\ refused = {} /\ lastTask = 0
    /\ index = [i \in ItemIds |-> NoDoc]
    /\ changes = 0 /\ faults = 0 /\ unlocked = FALSE

Fault(kind) == kind \in Faults /\ faults < MaxFaults /\ faults' = faults + 1
SetIndexer(w, u) == indexer' = [indexer EXCEPT ![w] = u]

-----------------------------------------------------------------------------
(* IndexOnce *)

\* Removals come first.
TakeRemoval(w) ==
    /\ indexer[w].pc = "idle" /\ lock = NoServer
    /\ \E i \in gone :
          SetIndexer(w, [Quiet EXCEPT !.pc = "send", !.op = "delete", !.item = i])
    /\ lock' = w
    /\ UNCHANGED <<itemVars, engineVars, changes, faults, unlocked>>

TakeItem(w) ==
    /\ indexer[w].pc = "idle" /\ lock = NoServer
    /\ gone = {}
    /\ \E i \in ItemIds :
          /\ Indexable(i)
          /\ SetIndexer(w, [Quiet EXCEPT !.pc = "send", !.op = "upsert", !.item = i,
                                         !.version = items[i].version,
                                         !.doc = Projection(items[i])])
    /\ lock' = w
    /\ UNCHANGED <<itemVars, engineVars, changes, faults, unlocked>>

FindsNothing(w) ==
    /\ indexer[w].pc = "idle" /\ lock = NoServer
    /\ gone = {} /\ \A i \in ItemIds : ~Indexable(i)
    /\ UNCHANGED vars

\* mutate: the request is accepted, or fails, accepted or not.
Accept(w) ==
    /\ lastTask < MaxTasks
    /\ lastTask' = lastTask + 1
    /\ queue' = Append(queue, [task |-> lastTask + 1, op |-> indexer[w].op,
                               item |-> indexer[w].item, doc |-> indexer[w].doc])
    /\ UNCHANGED <<refused, index>>

Send(w) ==
    /\ indexer[w].pc = "send"
    /\ Accept(w)
    /\ SetIndexer(w, [indexer[w] EXCEPT !.pc = "wait", !.task = lastTask + 1])
    /\ UNCHANGED <<itemVars, lock, changes, faults, unlocked>>

\* The transaction ends and gives up the lock it still has.
Rollback(w) ==
    /\ SetIndexer(w, Quiet)
    /\ lock' = IF lock = w THEN NoServer ELSE lock

\* An error of the engine is noted on the item; a removal is rolled back.
EndsInError(w) ==
    /\ \/ /\ indexer[w].op = "upsert" /\ indexer[w].alive
          /\ MarkIndexError(indexer[w].item)
       \/ ~(indexer[w].op = "upsert" /\ indexer[w].alive) /\ UNCHANGED itemVars
    /\ Rollback(w)
    /\ UNCHANGED <<changes, unlocked>>

SendFails(w) ==
    /\ indexer[w].pc = "send" /\ Fault("timeout")
    /\ Accept(w) \/ UNCHANGED engineVars
    /\ EndsInError(w)

Waits(w) == \E k \in DOMAIN queue : queue[k].task = indexer[w].task

GivesUp(w) ==
    /\ indexer[w].pc = "wait"
    /\ \/ Waits(w) /\ Fault("timeout")
       \/ indexer[w].task \in refused /\ UNCHANGED faults
    /\ EndsInError(w)
    /\ UNCHANGED engineVars

\* The engine reports success: the version that was read is marked as indexed.
Succeeds(w) ==
    /\ indexer[w].pc = "wait"
    /\ ~Waits(w) /\ indexer[w].task \notin refused
    /\ IF ~indexer[w].alive THEN UNCHANGED itemVars
       ELSE IF indexer[w].op = "upsert"
       THEN MarkIndexed(indexer[w].item, indexer[w].version)
       ELSE ForgetDeletion(indexer[w].item)
    /\ Rollback(w)
    /\ UNCHANGED <<engineVars, changes, faults, unlocked>>

\* The server ends, or only its database session does: the lock is gone and the
\* server goes on.
Crash(w) ==
    /\ indexer[w].pc # "idle" /\ Fault("crash")
    /\ Rollback(w)
    /\ UNCHANGED <<itemVars, engineVars, changes, unlocked>>

LoseSession(w) ==
    /\ indexer[w].pc # "idle" /\ indexer[w].alive /\ Fault("session")
    /\ SetIndexer(w, [indexer[w] EXCEPT !.alive = FALSE])
    /\ lock' = NoServer
    /\ unlocked' = TRUE
    /\ UNCHANGED <<itemVars, engineVars, changes>>

-----------------------------------------------------------------------------
(* The engine *)

EngineApplies ==
    /\ queue # <<>>
    /\ LET t == Head(queue) IN
       index' = [index EXCEPT ![t.item] = IF t.op = "upsert" THEN t.doc ELSE NoDoc]
    /\ queue' = Tail(queue)
    /\ UNCHANGED <<itemVars, serverVars, refused, lastTask, changes, faults, unlocked>>

EngineRefuses ==
    /\ queue # <<>> /\ Fault("refuse")
    /\ refused' = refused \cup {Head(queue).task}
    /\ queue' = Tail(queue)
    /\ UNCHANGED <<itemVars, serverVars, lastTask, index, changes, unlocked>>

-----------------------------------------------------------------------------
(* Everyone else: any transaction on items *)

Change(kind) == kind \in Changes /\ changes < MaxChanges /\ changes' = changes + 1

ChangeItem(i) ==
    \/ Change("edit") /\ \E tags \in SUBSET Tags : Edit(i, tags)
    \/ Change("capture") /\ ClaimCapture(i)
    \/ Change("capture") /\ items[i].token # NoToken
         /\ FailCapture(i, items[i].token, items[i].attempts)
    \/ Change("capture") /\ items[i].token # NoToken /\ UNCHANGED lastToken
         /\ StoreCapture(i, ServerCapture(items[i].token), "page")
    \/ Change("delete") /\ Saved(i) /\ DeleteItem(i, items[i].url)
    \/ Change("transfer") /\ RestoreItem(i)

ChangeAny ==
    /\ \/ \E u \in Urls : Change("save") /\ Save(u, {})
       \/ \E i \in ItemIds : ChangeItem(i)
       \/ Change("transfer") /\ Export
       \/ Change("reindex") /\ Reindex
    /\ UNCHANGED <<serverVars, engineVars, faults, unlocked>>

Loop(w) == TakeRemoval(w) \/ TakeItem(w) \/ Send(w) \/ GivesUp(w) \/ Succeeds(w)

Next ==
    \/ \E w \in Indexers : \/ Loop(w) \/ FindsNothing(w)
                           \/ SendFails(w) \/ Crash(w) \/ LoseSession(w)
    \/ EngineApplies \/ EngineRefuses
    \/ ChangeAny

Spec == IndexInit /\ [][Next]_vars

\* RunIndex calls IndexOnce every two seconds and the engine works on.
FairSpec ==
    /\ Spec
    /\ \A w \in Indexers : WF_vars(Loop(w))
    /\ WF_vars(EngineApplies)

-----------------------------------------------------------------------------
(* Properties *)

\* A claim is not indexed: queued and capturing are one for the index.
Shown(d) == [d EXCEPT !.capture = IF @ = "capturing" THEN "queued" ELSE @]

\* An item that is not dirty can be found as it is: no edit made while it was
\* being indexed is lost, and no older document overtakes a newer one
\* ("Canonical storage owns ordering and prevents older updates overtaking
\* newer ones").  Versions order the documents of one row and the lock orders
\* the servers, so it is said of items that were not restored, while no server
\* lost its lock.
CleanMeansCurrent ==
    ~unlocked /\ restores = 0 =>
        \A i \in ItemIds :
            Saved(i) /\ ~Dirty(i) => Shown(index[i]) = Shown(Projection(items[i]))

\* What was removed is not found any more once its removal is done, and no
\* upload that is still queued brings it back, while no server lost its lock.
RemovedLeaveIndex ==
    ~unlocked =>
        \A i \in ItemIds :
            ~Saved(i) /\ i \notin gone =>
                /\ index[i] = NoDoc
                /\ \A k \in DOMAIN queue : queue[k].item = i => queue[k].op = "delete"

\* The index catches up: a dirty item is indexed and a removal is carried out,
\* once changes and faults end.
IndexCatchesUp ==
    \A i \in ItemIds : (Dirty(i) \/ i \in gone) ~> (~Dirty(i) /\ i \notin gone)

=============================================================================
