------------------------------ MODULE Startup ------------------------------
(***************************************************************************)
(* Server processes of several releases that start, migrate one database   *)
(* and serve it: MigrationRunner and Readiness of internal/postgres, as    *)
(* runServer uses them.                                                    *)
(*                                                                         *)
(* Every migration is applied in a transaction of its own, under an        *)
(* advisory lock that ends with the transaction.  Inside it the recorded   *)
(* history is read, compared with the migrations of this release, and the  *)
(* SQL and its record are committed together.  A process may die at any    *)
(* step; its transaction is then rolled back.                              *)
(***************************************************************************)
EXTENDS Naturals

CONSTANTS
    Procs,          \* server processes
    NoProc,         \* nobody
    Versions,       \* version numbers of migrations
    Names,          \* names of migrations
    Local,          \* the up migrations in the directory of a process
    MaxStarts       \* bound: starts, over all processes

Migrations == [version : Versions, name : Names]

\* DiscoverMigrations refuses two files of one version and versions below 1.
ASSUME StartupAssumption ==
    /\ NoProc \notin Procs
    /\ Versions \subseteq Nat \ {0} /\ MaxStarts \in Nat
    /\ Local \in [Procs -> SUBSET Migrations]
    /\ \A p \in Procs : \A m, n \in Local[p] : m.version = n.version => m = n

VARIABLES
    history,        \* the rows of schema_migrations
    lock,           \* who holds the advisory lock
    phase,          \* what a process does
    todo,           \* the migrations Run has not come to yet
    ready,          \* the last answer of Readiness.Ready
    starts          \* starts so far

startupVars == <<history, lock, phase, todo, ready, starts>>

\* The phases of Run, then those of the server.
Migrating == {"table", "lock", "read", "exec"}
Phases == {"down", "refused", "serving", "stopping"} \cup Migrating

StartupTypeOK ==
    /\ history \subseteq Migrations
    /\ lock \in Procs \cup {NoProc}
    /\ phase \in [Procs -> Phases]
    /\ todo \in [Procs -> SUBSET Migrations]
    /\ ready \in [Procs -> BOOLEAN]
    /\ starts \in Nat

-----------------------------------------------------------------------------
(* Run *)

GoTo(p, ph) == phase' = [phase EXCEPT ![p] = ph]

\* pg_advisory_xact_lock ends with its transaction, however that ends.
Released(p) == IF lock = p THEN NoProc ELSE lock

EndTransaction(p, ph) == lock' = Released(p) /\ GoTo(p, ph)

\* A process of runServer, up to the database.
Start(p) ==
    /\ phase[p] \in {"down", "refused"} /\ starts < MaxStarts
    /\ starts' = starts + 1
    /\ todo' = [todo EXCEPT ![p] = Local[p]]
    /\ GoTo(p, "table")
    /\ UNCHANGED <<history, lock, ready>>

\* ensureSchemaMigrations: a transaction of its own, under the same lock.
EnsureTable(p) ==
    /\ phase[p] = "table" /\ lock = NoProc
    /\ GoTo(p, "lock")
    /\ UNCHANGED <<history, lock, todo, ready, starts>>

\* beginLocked waits for the lock.
Take(p) ==
    /\ phase[p] = "lock" /\ lock = NoProc
    /\ lock' = p
    /\ GoTo(p, "read")
    /\ UNCHANGED <<history, todo, ready, starts>>

First(p) == CHOOSE m \in todo[p] : \A n \in todo[p] : m.version <= n.version

Recorded(m) == \E r \in history : r.version = m.version

\* Mutant of Accepts: the history is compared before the first migration only.
AcceptsOnce(p) == todo[p] # Local[p] \/ history \subseteq Local[p]

\* Mutant of Accepts: the names are not compared.
AcceptsVersions(p) == \A r \in history : \E m \in Local[p] : m.version = r.version

\* validateMigrationHistory: every row is a migration of this release.  Nothing
\* is asked of the migrations of this release that have no row.
Accepts(p) == history \subseteq Local[p]

\* The transaction of the first migration of todo is committed.
Proceed(p) ==
    /\ todo' = [todo EXCEPT ![p] = @ \ {First(p)}]
    /\ EndTransaction(p, IF todo[p] = {First(p)} THEN "serving" ELSE "lock")

\* readMigrationHistory and validateMigrationHistory.  Without migrations
\* this is all that validateAppliedMigrations does.
Read(p) ==
    /\ phase[p] = "read"
    /\ \/ ~Accepts(p) /\ EndTransaction(p, "refused") /\ UNCHANGED todo
       \/ Accepts(p) /\ todo[p] = {} /\ EndTransaction(p, "serving") /\ UNCHANGED todo
       \/ Accepts(p) /\ todo[p] # {} /\ Recorded(First(p)) /\ Proceed(p)
       \/ Accepts(p) /\ todo[p] # {} /\ ~Recorded(First(p))
            /\ GoTo(p, "exec") /\ UNCHANGED <<lock, todo>>
    /\ UNCHANGED <<history, ready, starts>>

\* The SQL and its record are committed together; a version is recorded once.
Exec(p) ==
    /\ phase[p] = "exec" /\ ~Recorded(First(p))
    /\ history' = history \cup {First(p)}
    /\ Proceed(p)
    /\ UNCHANGED <<ready, starts>>

\* A transaction of Run fails and is rolled back.
Fail(p) ==
    /\ phase[p] \in Migrating
    /\ EndTransaction(p, "refused")
    /\ UNCHANGED <<history, todo, ready, starts>>

-----------------------------------------------------------------------------
(* The server *)

\* Readiness.Ready: every migration of this release is recorded.  Pinging the
\* database or writing to the artifact root may fail.
CheckReady(p) ==
    /\ phase[p] = "serving"
    /\ \E works \in BOOLEAN :
          ready' = [ready EXCEPT ![p] = works /\ Local[p] # {} /\ Local[p] \subseteq history]
    /\ UNCHANGED <<history, lock, phase, todo, starts>>

\* A signal, a worker that fails or a listener that fails; runServer then
\* waits for its loops and returns.
Stop(p) ==
    /\ phase[p] = "serving"
    /\ GoTo(p, "stopping")
    /\ UNCHANGED <<history, lock, todo, ready, starts>>

Exit(p) ==
    /\ phase[p] = "stopping"
    /\ GoTo(p, "down")
    /\ ready' = [ready EXCEPT ![p] = FALSE]
    /\ UNCHANGED <<history, lock, todo, starts>>

\* The process dies; the database rolls its transaction back.
Die(p) ==
    /\ phase[p] \notin {"down", "refused"}
    /\ EndTransaction(p, "down")
    /\ ready' = [ready EXCEPT ![p] = FALSE]
    /\ UNCHANGED <<history, todo, starts>>

-----------------------------------------------------------------------------
StartupInit ==
    /\ history = {}
    /\ lock = NoProc
    /\ phase = [p \in Procs |-> "down"]
    /\ todo = [p \in Procs |-> {}]
    /\ ready = [p \in Procs |-> FALSE]
    /\ starts = 0

RunStep(p) == EnsureTable(p) \/ Take(p) \/ Read(p) \/ Exec(p)

StartupNext ==
    \E p \in Procs :
        \/ Start(p) \/ RunStep(p) \/ Fail(p)
        \/ CheckReady(p) \/ Stop(p) \/ Exit(p) \/ Die(p)

StartupSpec == StartupInit /\ [][StartupNext]_startupVars

-----------------------------------------------------------------------------
(* Properties *)

\* Some release can account for the whole recorded history: migrations of two
\* releases that do not contain each other are never mixed in one database,
\* however their starts interleave and wherever a process dies.
HistoryAccounted == history = {} \/ \E p \in Procs : history \subseteq Local[p]

\* A process that serves has the schema it was built for, each migration
\* under its own name.
ServingIsMigrated ==
    \A p \in Procs : phase[p] \in {"serving", "stopping"} => Local[p] \subseteq history

\* A process that goes on to a migration found no gap below what is recorded:
\* "Startup rejects unknown applied versions, mismatched names and gaps in the
\* applied history" (migrations/README.md).
GapsAreRejected ==
    \A p \in Procs : phase[p] = "exec" =>
        \A m \in Local[p], r \in history : m.version < r.version => m \in history

=============================================================================
