---------------------------- MODULE ServerProofs ----------------------------
(***************************************************************************)
(* The start of a server and its sign-in.                                  *)
(*                                                                         *)
(* However many processes of however many releases start on one database,  *)
(* its history stays that of one release and whoever serves is migrated.   *)
(*                                                                         *)
(* Credentials that were removed stay removed, and refreshing at the same  *)
(* time never leaves a token the provider refuses: for any number of calls *)
(* of the model, requests to the settings page, logins, refreshes and      *)
(* deaths of the server.                                                   *)
(***************************************************************************)
EXTENDS Subscription, Startup, FiniteSetTheorems, WellFoundedInduction, TLAPS

-----------------------------------------------------------------------------
(* The start *)

\* A process in a transaction of Run holds the lock.
LockHeld == \A p \in Procs : phase[p] \in {"read", "exec"} <=> lock = p

\* What Run has behind it is recorded, and it serves when nothing is left.
Progress(p) ==
    /\ todo[p] \subseteq Local[p]
    /\ phase[p] \notin {"down", "refused"} => Local[p] \ todo[p] \subseteq history
    /\ phase[p] \in {"serving", "stopping"} => todo[p] = {}

\* Between the comparison and the commit nobody else adds to the history.
Compared(p) == phase[p] = "exec" => history \subseteq Local[p] /\ todo[p] # {}

\* The inductive invariant.
StartupInv ==
    /\ StartupTypeOK
    /\ LockHeld
    /\ \A p \in Procs : Progress(p) /\ Compared(p)
    /\ HistoryAccounted

-----------------------------------------------------------------------------
\* Run goes through the migrations of a release in the order of their versions:
\* there is always a first one.
LEMMA FirstExists ==
  ASSUME NEW p \in Procs, todo[p] \subseteq Local[p], todo[p] # {}
  PROVE  First(p) \in todo[p] /\ First(p) \in Local[p] /\ First(p) \in Migrations
<1> DEFINE T == {m.version : m \in todo[p]}
<1>1. todo[p] \subseteq Migrations
  BY StartupAssumption
<1>2. T \subseteq Nat /\ T # {}
  <2>1. \A m \in todo[p] : m.version \in Nat
    BY <1>1, StartupAssumption DEF Migrations
  <2>2. PICK m \in todo[p] : TRUE
    OBVIOUS
  <2>3. m.version \in T
    OBVIOUS
  <2> QED BY <2>1, <2>3
<1>3. PICK v \in T : \A y \in T : ~(<<y, v>> \in OpToRel(<, Nat))
  <2> HIDE DEF T
  <2> QED BY <1>2, NatLessThanWellFounded, WFMin, Zenon
<1>4. \A y \in T : v <= y
  <2> HIDE DEF T
  <2> SUFFICES ASSUME NEW y \in T PROVE v <= y
    OBVIOUS
  <2>1. ~(y < v)
    BY <1>2, <1>3 DEF OpToRel
  <2> QED BY <1>2, <2>1
<1>5. \E m \in todo[p] : \A n \in todo[p] : m.version <= n.version
  BY <1>4
<1>6. First(p) \in todo[p]
  BY <1>5 DEF First
<1> QED BY <1>1, <1>6

\* A version that is recorded in an accepted history is this very migration.
LEMMA RecordedIsFirst ==
  ASSUME NEW p \in Procs, First(p) \in Local[p], Accepts(p), Recorded(First(p))
  PROVE  First(p) \in history
  BY StartupAssumption DEF Accepts, Recorded

-----------------------------------------------------------------------------
LEMMA StartupStarts == StartupInit => StartupInv
  BY StartupAssumption
  DEF StartupInit, StartupInv, StartupTypeOK, LockHeld, Progress, Compared,
      HistoryAccounted, Phases, Migrating

\* Leaving a transaction keeps the lock with those who hold it.
LEMMA LockAfter ==
  ASSUME StartupTypeOK, LockHeld, NEW p \in Procs, NEW ph,
         EndTransaction(p, ph), ph \notin {"read", "exec"}
  PROVE  LockHeld' /\ lock' \in Procs \cup {NoProc}
  BY StartupAssumption DEF StartupTypeOK, LockHeld, EndTransaction, Released, GoTo

LEMMA StartupSteps == StartupInv /\ [StartupNext]_startupVars => StartupInv'
<1> SUFFICES ASSUME StartupInv, [StartupNext]_startupVars PROVE StartupInv'
  OBVIOUS
<1> USE StartupAssumption DEF StartupInv
<1>1. ASSUME NEW p \in Procs, Start(p) PROVE StartupInv'
  BY <1>1 DEF Start, GoTo, StartupTypeOK, LockHeld, Progress, Compared,
              HistoryAccounted, Phases, Migrating
<1>2. ASSUME NEW p \in Procs, EnsureTable(p) PROVE StartupInv'
  BY <1>2 DEF EnsureTable, GoTo, StartupTypeOK, LockHeld, Progress, Compared,
              HistoryAccounted, Phases, Migrating
<1>3. ASSUME NEW p \in Procs, Take(p) PROVE StartupInv'
  BY <1>3 DEF Take, GoTo, StartupTypeOK, LockHeld, Progress, Compared,
              HistoryAccounted, Phases, Migrating
<1>4. ASSUME NEW p \in Procs, Read(p) PROVE StartupInv'
  <2>1. CASE EndTransaction(p, "refused") /\ UNCHANGED todo
    <3>1. LockHeld' /\ lock' \in Procs \cup {NoProc}
      BY <2>1, LockAfter
    <3> QED BY <1>4, <2>1, <3>1
            DEF Read, EndTransaction, GoTo, StartupTypeOK, Progress, Compared,
                HistoryAccounted, Phases, Migrating
  <2>2. CASE Accepts(p) /\ todo[p] = {} /\ EndTransaction(p, "serving") /\ UNCHANGED todo
    <3>1. LockHeld' /\ lock' \in Procs \cup {NoProc}
      BY <2>2, LockAfter
    <3> QED BY <1>4, <2>2, <3>1
            DEF Read, EndTransaction, GoTo, StartupTypeOK, Progress, Compared,
                HistoryAccounted, Phases, Migrating
  <2>3. CASE Accepts(p) /\ todo[p] # {} /\ Recorded(First(p)) /\ Proceed(p)
    <3>1. First(p) \in todo[p] /\ First(p) \in Local[p]
      BY <2>3, FirstExists DEF Progress
    <3>2. First(p) \in history
      BY <2>3, <3>1, RecordedIsFirst
    <3>3. LockHeld' /\ lock' \in Procs \cup {NoProc}
      BY <2>3, LockAfter DEF Proceed
    <3> QED BY <1>4, <2>3, <3>1, <3>2, <3>3
            DEF Read, Proceed, EndTransaction, GoTo, StartupTypeOK, Progress, Compared,
                HistoryAccounted, Phases, Migrating
  <2>4. CASE /\ Accepts(p) /\ todo[p] # {} /\ ~Recorded(First(p))
             /\ GoTo(p, "exec") /\ UNCHANGED <<lock, todo>>
    BY <1>4, <2>4 DEF Read, Accepts, GoTo, StartupTypeOK, LockHeld, Progress, Compared,
                      HistoryAccounted, Phases, Migrating
  <2> QED BY <1>4, <2>1, <2>2, <2>3, <2>4 DEF Read
<1>5. ASSUME NEW p \in Procs, Exec(p) PROVE StartupInv'
  <2>1. phase[p] = "exec" /\ todo[p] # {} /\ history \subseteq Local[p] /\ lock = p
    BY <1>5 DEF Exec, Compared, LockHeld
  <2>2. First(p) \in todo[p] /\ First(p) \in Local[p] /\ First(p) \in Migrations
    BY <2>1, FirstExists DEF Progress
  <2>3. LockHeld' /\ lock' \in Procs \cup {NoProc}
    BY <1>5, LockAfter DEF Exec, Proceed
  <2>4. history' = history \cup {First(p)} /\ history' \subseteq Local[p]
    BY <1>5, <2>1, <2>2 DEF Exec
  <2>5. HistoryAccounted'
    BY <2>4 DEF HistoryAccounted
  <2>6. \A q \in Procs \ {p} : phase[q] # "exec" /\ phase'[q] = phase[q]
                               /\ todo'[q] = todo[q]
    BY <1>5, <2>1 DEF Exec, Proceed, EndTransaction, GoTo, LockHeld, StartupTypeOK
  <2>7. \A q \in Procs : Progress(q)' /\ Compared(q)'
    BY <1>5, <2>1, <2>2, <2>4, <2>6
    DEF Exec, Proceed, EndTransaction, GoTo, StartupTypeOK, Progress, Compared
  <2>8. StartupTypeOK'
    BY <1>5, <2>2, <2>3
    DEF Exec, Proceed, EndTransaction, GoTo, StartupTypeOK, Phases, Migrating
  <2> QED BY <2>3, <2>5, <2>7, <2>8
<1>6. ASSUME NEW p \in Procs, Fail(p) PROVE StartupInv'
  <2>1. LockHeld' /\ lock' \in Procs \cup {NoProc}
    BY <1>6, LockAfter DEF Fail
  <2> QED BY <1>6, <2>1 DEF Fail, EndTransaction, GoTo, StartupTypeOK, Progress,
                            Compared, HistoryAccounted, Phases, Migrating
<1>7. ASSUME NEW p \in Procs, CheckReady(p) PROVE StartupInv'
  BY <1>7 DEF CheckReady, StartupTypeOK, LockHeld, Progress, Compared, HistoryAccounted
<1>8. ASSUME NEW p \in Procs, Stop(p) PROVE StartupInv'
  BY <1>8 DEF Stop, GoTo, StartupTypeOK, LockHeld, Progress, Compared,
              HistoryAccounted, Phases, Migrating
<1>9. ASSUME NEW p \in Procs, Exit(p) PROVE StartupInv'
  BY <1>9 DEF Exit, GoTo, StartupTypeOK, LockHeld, Progress, Compared,
              HistoryAccounted, Phases, Migrating
<1>10. ASSUME NEW p \in Procs, Die(p) PROVE StartupInv'
  <2>1. LockHeld' /\ lock' \in Procs \cup {NoProc}
    BY <1>10, LockAfter DEF Die
  <2> QED BY <1>10, <2>1 DEF Die, EndTransaction, GoTo, StartupTypeOK, Progress,
                             Compared, HistoryAccounted, Phases, Migrating
<1>11. CASE UNCHANGED startupVars
  BY <1>11 DEF startupVars, StartupTypeOK, LockHeld, Progress, Compared, HistoryAccounted
<1> QED BY <1>1, <1>2, <1>3, <1>4, <1>5, <1>6, <1>7, <1>8, <1>9, <1>10, <1>11
        DEF StartupNext, RunStep

-----------------------------------------------------------------------------
\* The inductive invariant holds of every behaviour.
THEOREM StartupCorrect == StartupSpec => []StartupInv
  BY StartupStarts, StartupSteps, PTL DEF StartupSpec

\* For all releases and any number of processes: the migrations of releases
\* that do not contain each other are never mixed (validateMigrationHistory,
\* under the lock of the transaction that applies).
THEOREM HistoriesNeverMix == StartupSpec => []HistoryAccounted
<1>1. StartupInv => HistoryAccounted
  BY DEF StartupInv
<1> QED BY <1>1, StartupCorrect, PTL

\* A process that serves has every migration of its release recorded under its
\* own name (Run returns nil only then).
THEOREM ServersAreMigrated == StartupSpec => []ServingIsMigrated
<1>1. StartupInv => ServingIsMigrated
  BY DEF StartupInv, Progress, ServingIsMigrated
<1> QED BY <1>1, StartupCorrect, PTL

-----------------------------------------------------------------------------
(* The sign-in *)

Credentials == [login : LoginIds \cup {NoLogin}, token : Nat, expiring : BOOLEAN]
LoginPlaces == {"none", "code", "poll", "lock", "save", "ending", "ended"}
Logins == [by : {"nobody", "session", "cli"}, pc : LoginPlaces,
           ctx : {"live", "expired", "canceled"}]
RequestStates == [pc : {"idle", "waiting", "lock", "remove"}, then : {"idle", "lock"},
                  login : LoginIds \cup {NoLogin}, upto : Nat]
CallerStates == [pc : {"idle", "read", "exchange", "save", "unlock"}, held : Credentials]

\* mu is never held between two steps.
AuthTypeOK ==
    /\ cred \in Credentials
    /\ flock \in Callers \cup Requests \cup LoginIds \cup {NoOne}
    /\ login \in [LoginIds -> Logins]
    /\ session \in LoginIds \cup {NoLogin}
    /\ op \in Requests \cup {NoOne} /\ mu = NoOne
    /\ request \in [Requests -> RequestStates]
    /\ caller \in [Callers -> CallerStates]
    /\ issued \in [LoginIds -> Nat]
    /\ mishaps \in Nat /\ lost \in BOOLEAN /\ upto \in Nat

\* Whoever reads or writes the file holds its lock.
Locked ==
    /\ \A c \in Callers : caller[c].pc # "idle" => flock = c
    /\ \A r \in Requests : request[r].pc = "remove" => flock = r
    /\ \A l \in LoginIds : LoginAt(l, "save") => flock = l

\* The logins that were started are those up to k.
Started(k) == \A l \in LoginIds : LoginAt(l, "none") <=> l > k
Numbered == \E k \in 0..MaxLogins : Started(k)

\* The login Sessions can cancel is its only one that has not ended.
OneSession ==
    /\ session # NoLogin => BySession(session) /\ login[session].pc \notin {"none", "ended"}
    /\ \A l \in LoginIds :
          BySession(l) /\ login[l].pc \notin {"none", "ended"} => session = l

\* While Cancel waits it holds op, and Sessions has no other login.
Canceling ==
    \A r \in Requests : request[r].pc = "waiting" =>
        op = r /\ session \in {NoLogin, request[r].login}

\* The logins up to n were started, and those of the server have ended.
Settled(n) ==
    \A l \in LoginIds : l <= n => ~LoginAt(l, "none") /\ (BySession(l) => LoginAt(l, "ended"))
Settling ==
    /\ Settled(upto)
    /\ \A r \in Requests : request[r].pc \in {"lock", "remove"} => Settled(request[r].upto)

\* Only a login that is past its save is in the file.
Stored == cred # NoCred => cred.login \in LoginIds /\ login[cred.login].pc \in {"ending", "ended"}

\* A refresh works on what is in the file.
Refreshing(c) ==
    /\ caller[c].pc \in {"exchange", "save"} => cred # NoCred /\ cred.expiring
    /\ caller[c].pc = "exchange" => caller[c].held = cred
    /\ caller[c].pc = "save" =>
          /\ caller[c].held.login = cred.login
          /\ caller[c].held.token = issued[cred.login]

\* The inductive invariant.
SubscriptionInv ==
    /\ AuthTypeOK /\ Locked /\ Numbered /\ OneSession /\ Canceling /\ Settling
    /\ Stored /\ \A c \in Callers : Refreshing(c)
    /\ DisconnectSticks /\ StoredTokenIsAccepted

-----------------------------------------------------------------------------
USE DEF LoginAt, BySession, NoLogin, NoCred, AtRest, Resting, Log, Req, Call,
        LoginOnly, CallerOnly, Mishap,
        AuthTypeOK, Credentials, LoginPlaces, Logins, RequestStates, CallerStates

\* What a step writes into a record keeps its type.
LEMMA RequestMoved ==
  \A q \in RequestStates : \A p \in {"idle", "waiting", "lock", "remove"} :
      [q EXCEPT !.pc = p] \in RequestStates
  OBVIOUS

LEMMA LoginMoved ==
  \A q \in Logins : /\ \A p \in LoginPlaces : [q EXCEPT !.pc = p] \in Logins
                    /\ \A x \in {"live", "expired", "canceled"} : [q EXCEPT !.ctx = x] \in Logins
  OBVIOUS

LEMMA SubscriptionStarts == SubscriptionInit => SubscriptionInv
<1> SUFFICES ASSUME SubscriptionInit PROVE SubscriptionInv
  OBVIOUS
<1>1. AuthTypeOK
  BY DEF SubscriptionInit, NotStarted
<1>2. Numbered
  <2>1. Started(0) /\ 0 \in 0..MaxLogins
    BY SubscriptionAssumption DEF SubscriptionInit, NotStarted, Started, LoginIds
  <2> QED BY <2>1 DEF Numbered
<1>3. OneSession /\ Canceling /\ Locked
  BY DEF SubscriptionInit, NotStarted, OneSession, Canceling, Locked
<1>4. Settling
  BY SubscriptionAssumption DEF SubscriptionInit, Settling, Settled, LoginIds
<1>5. Stored /\ (\A c \in Callers : Refreshing(c)) /\ DisconnectSticks /\ StoredTokenIsAccepted
  BY DEF SubscriptionInit, Stored, Refreshing, DisconnectSticks, StoredTokenIsAccepted
<1> QED BY <1>1, <1>2, <1>3, <1>4, <1>5 DEF SubscriptionInv

-----------------------------------------------------------------------------
(* Every action keeps the inductive invariant. *)

\* attic login-chatgpt starts the next login in line.
LEMMA CommandLineKeeps ==
  ASSUME SubscriptionInv, NEW l \in LoginIds, CommandLine(l)
  PROVE  SubscriptionInv'
<1> USE DEF SubscriptionInv
<1>1. AuthTypeOK'
  BY SubscriptionAssumption DEF CommandLine, StartLogin
<1>2. Locked'
  BY SubscriptionAssumption DEF CommandLine, StartLogin, Locked
<1>3. Numbered'
  <2>1. PICK k \in 0..MaxLogins : Started(k)
    BY DEF Numbered
  <2>2. l = k + 1 /\ k + 1 \in 0..MaxLogins
    <3>1. l > k
      BY <2>1 DEF CommandLine, StartLogin, Started
    <3>2. k + 1 \in LoginIds
      BY <3>1, SubscriptionAssumption DEF LoginIds
    <3>3. LoginAt(k + 1, "none")
      BY <2>1, <3>2 DEF Started, LoginIds
    <3>4. l <= k + 1
      BY <3>2, <3>3 DEF CommandLine, StartLogin
    <3>5. k \in Nat /\ l \in Nat /\ k + 1 \in 0..MaxLogins
      BY <3>2, SubscriptionAssumption DEF LoginIds
    <3> QED BY ONLY <3>1, <3>4, <3>5
  <2>3. Started(k + 1)'
    BY <2>1, <2>2, SubscriptionAssumption DEF CommandLine, StartLogin, Started, LoginIds
  <2> QED BY <2>2, <2>3 DEF Numbered
<1>4. OneSession'
  BY SubscriptionAssumption DEF CommandLine, StartLogin, OneSession
<1>5. Canceling'
  BY SubscriptionAssumption DEF CommandLine, StartLogin, Canceling
<1>6. Settling'
  BY SubscriptionAssumption DEF CommandLine, StartLogin, Settling, Settled
<1>7. Stored'
  BY SubscriptionAssumption DEF CommandLine, StartLogin, Stored
<1>8. \A d \in Callers : Refreshing(d)'
  BY SubscriptionAssumption DEF CommandLine, StartLogin, Refreshing, Locked, Stored
<1>9. DisconnectSticks'
  BY SubscriptionAssumption DEF CommandLine, StartLogin, DisconnectSticks, Stored, Settling, Settled
<1>10. StoredTokenIsAccepted'
  BY SubscriptionAssumption
  DEF CommandLine, StartLogin, StoredTokenIsAccepted, Stored, Refreshing, Locked
<1> QED BY <1>1, <1>2, <1>3, <1>4, <1>5, <1>6, <1>7, <1>8, <1>9, <1>10

\* The code is shown.
LEMMA ShowKeeps ==
  ASSUME SubscriptionInv, NEW l \in LoginIds, Show(l)
  PROVE  SubscriptionInv'
<1> USE DEF SubscriptionInv
<1>1. AuthTypeOK'
  BY SMTT(30), SubscriptionAssumption DEF Show
<1>2. Locked'
  BY SubscriptionAssumption DEF Show, Locked
<1>3. Numbered'
  BY SubscriptionAssumption DEF Show, Numbered, Started
<1>4. OneSession'
  BY SubscriptionAssumption DEF Show, OneSession
<1>5. Canceling'
  BY SubscriptionAssumption DEF Show, Canceling
<1>6. Settling'
  BY SubscriptionAssumption DEF Show, Settling, Settled
<1>7. Stored'
  BY SubscriptionAssumption DEF Show, Stored
<1>8. \A d \in Callers : Refreshing(d)'
  BY SubscriptionAssumption DEF Show, Refreshing, Locked, Stored
<1>9. DisconnectSticks'
  BY SubscriptionAssumption DEF Show, DisconnectSticks, Stored, Settling, Settled
<1>10. StoredTokenIsAccepted'
  BY SubscriptionAssumption DEF Show, StoredTokenIsAccepted, Stored, Refreshing, Locked
<1> QED BY <1>1, <1>2, <1>3, <1>4, <1>5, <1>6, <1>7, <1>8, <1>9, <1>10

\* A login in the file is past its approval: its token is not touched.
LEMMA ApprovedKeeps ==
  ASSUME SubscriptionInv, NEW l \in LoginIds, Approved(l)
  PROVE  SubscriptionInv'
<1> USE DEF SubscriptionInv
<1>1. AuthTypeOK'
  BY SMTT(30), SubscriptionAssumption DEF Approved
<1>2. Locked'
  BY SubscriptionAssumption DEF Approved, Locked
<1>3. Numbered'
  BY SubscriptionAssumption DEF Approved, Numbered, Started
<1>4. OneSession'
  BY SubscriptionAssumption DEF Approved, OneSession
<1>5. Canceling'
  BY SubscriptionAssumption DEF Approved, Canceling
<1>6. Settling'
  BY SubscriptionAssumption DEF Approved, Settling, Settled
<1>7. Stored'
  BY SubscriptionAssumption DEF Approved, Stored
<1>8. \A d \in Callers : Refreshing(d)'
  BY SubscriptionAssumption DEF Approved, Refreshing, Locked, Stored
<1>9. DisconnectSticks'
  BY SubscriptionAssumption DEF Approved, DisconnectSticks, Stored, Settling, Settled
<1>10. StoredTokenIsAccepted'
  BY SubscriptionAssumption DEF Approved, StoredTokenIsAccepted, Stored, Refreshing, Locked
<1> QED BY <1>1, <1>2, <1>3, <1>4, <1>5, <1>6, <1>7, <1>8, <1>9, <1>10

\* No caller and no removal is inside the lock.
LEMMA LockLoginKeeps ==
  ASSUME SubscriptionInv, NEW l \in LoginIds, LockLogin(l)
  PROVE  SubscriptionInv'
<1> USE DEF SubscriptionInv
<1>1. AuthTypeOK'
  BY SMTT(30), SubscriptionAssumption DEF LockLogin
<1>2. Locked'
  BY SubscriptionAssumption DEF LockLogin, Locked
<1>3. Numbered'
  BY SubscriptionAssumption DEF LockLogin, Numbered, Started
<1>4. OneSession'
  BY SubscriptionAssumption DEF LockLogin, OneSession
<1>5. Canceling'
  BY SubscriptionAssumption DEF LockLogin, Canceling
<1>6. Settling'
  BY SubscriptionAssumption DEF LockLogin, Settling, Settled
<1>7. Stored'
  BY SubscriptionAssumption DEF LockLogin, Stored
<1>8. \A d \in Callers : Refreshing(d)'
  BY SubscriptionAssumption DEF LockLogin, Refreshing, Locked, Stored
<1>9. DisconnectSticks'
  BY SubscriptionAssumption DEF LockLogin, DisconnectSticks, Stored, Settling, Settled
<1>10. StoredTokenIsAccepted'
  BY SubscriptionAssumption DEF LockLogin, StoredTokenIsAccepted, Stored, Refreshing, Locked
<1> QED BY <1>1, <1>2, <1>3, <1>4, <1>5, <1>6, <1>7, <1>8, <1>9, <1>10

\* A login of the server that stores is not one that a removal waited for.
LEMMA StoreLoginKeeps ==
  ASSUME SubscriptionInv, NEW l \in LoginIds, StoreLogin(l)
  PROVE  SubscriptionInv'
<1> USE DEF SubscriptionInv
<1>1. AuthTypeOK'
  BY SMTT(30), SubscriptionAssumption DEF StoreLogin, MayStore
<1>2. Locked'
  BY SubscriptionAssumption DEF StoreLogin, MayStore, Locked
<1>3. Numbered'
  BY SubscriptionAssumption DEF StoreLogin, MayStore, Numbered, Started
<1>4. OneSession'
  BY SubscriptionAssumption DEF StoreLogin, MayStore, OneSession
<1>5. Canceling'
  BY SubscriptionAssumption DEF StoreLogin, MayStore, Canceling
<1>6. Settling'
  BY SubscriptionAssumption DEF StoreLogin, MayStore, Settling, Settled
<1>7. Stored'
  BY SubscriptionAssumption DEF StoreLogin, MayStore, Stored
<1>8. \A d \in Callers : Refreshing(d)'
  BY SubscriptionAssumption DEF StoreLogin, MayStore, Refreshing, Locked, Stored
<1>9. DisconnectSticks'
  <2>1. BySession(l) => ~(l <= upto)
    BY DEF StoreLogin, Settling, Settled
  <2> QED BY <2>1, SubscriptionAssumption DEF StoreLogin, DisconnectSticks, LoginIds
<1>10. StoredTokenIsAccepted'
  BY SubscriptionAssumption
  DEF StoreLogin, MayStore, StoredTokenIsAccepted, Stored, Refreshing, Locked
<1> QED BY <1>1, <1>2, <1>3, <1>4, <1>5, <1>6, <1>7, <1>8, <1>9, <1>10

\* A login that gives up has stored nothing.
LEMMA GiveUpLoginKeeps ==
  ASSUME SubscriptionInv, NEW l \in LoginIds, GiveUpLogin(l)
  PROVE  SubscriptionInv'
<1> USE DEF SubscriptionInv
<1>1. AuthTypeOK'
  BY SMTT(30), SubscriptionAssumption DEF GiveUpLogin
<1>2. Locked'
  BY SubscriptionAssumption DEF GiveUpLogin, Locked
<1>3. Numbered'
  BY SubscriptionAssumption DEF GiveUpLogin, Numbered, Started
<1>4. OneSession'
  BY SubscriptionAssumption DEF GiveUpLogin, OneSession
<1>5. Canceling'
  BY SubscriptionAssumption DEF GiveUpLogin, Canceling
<1>6. Settling'
  BY SubscriptionAssumption DEF GiveUpLogin, Settling, Settled
<1>7. Stored'
  BY SubscriptionAssumption DEF GiveUpLogin, Stored
<1>8. \A d \in Callers : Refreshing(d)'
  BY SubscriptionAssumption DEF GiveUpLogin, Refreshing, Locked, Stored
<1>9. DisconnectSticks'
  BY SubscriptionAssumption DEF GiveUpLogin, DisconnectSticks, Stored, Settling, Settled
<1>10. StoredTokenIsAccepted'
  BY SubscriptionAssumption DEF GiveUpLogin, StoredTokenIsAccepted, Stored, Refreshing, Locked
<1> QED BY <1>1, <1>2, <1>3, <1>4, <1>5, <1>6, <1>7, <1>8, <1>9, <1>10

\* The only login of Sessions ends, and Sessions is free.
LEMMA EndLoginKeeps ==
  ASSUME SubscriptionInv, NEW l \in LoginIds, EndLogin(l)
  PROVE  SubscriptionInv'
<1> USE DEF SubscriptionInv
<1>1. AuthTypeOK'
  <2>1. login' \in [LoginIds -> Logins]
    <3>0. login[l] \in Logins
      OBVIOUS
    <3>1. [login[l] EXCEPT !.pc = "ended"] \in Logins
      <4> HIDE DEF Logins, AuthTypeOK
      <4> QED BY <3>0, LoginMoved
    <3>2. login \in [LoginIds -> Logins] /\ login' = [login EXCEPT ![l] = [login[l] EXCEPT !.pc = "ended"]]
      BY DEF EndLogin
    <3> HIDE DEF Logins
    <3> QED BY <3>1, <3>2
  <2> QED BY <2>1, SubscriptionAssumption DEF EndLogin
<1>2. Locked'
  BY SubscriptionAssumption DEF EndLogin, Locked
<1>3. Numbered'
  BY SubscriptionAssumption DEF EndLogin, Numbered, Started
<1>4. OneSession'
  BY SubscriptionAssumption DEF EndLogin, OneSession
<1>5. Canceling'
  BY SubscriptionAssumption DEF EndLogin, Canceling
<1>6. Settling'
  BY SubscriptionAssumption DEF EndLogin, Settling, Settled
<1>7. Stored'
  BY SubscriptionAssumption DEF EndLogin, Stored
<1>8. \A d \in Callers : Refreshing(d)'
  BY SubscriptionAssumption DEF EndLogin, Refreshing, Locked, Stored
<1>9. DisconnectSticks'
  BY SubscriptionAssumption DEF EndLogin, DisconnectSticks, Stored, Settling, Settled
<1>10. StoredTokenIsAccepted'
  BY SubscriptionAssumption DEF EndLogin, StoredTokenIsAccepted, Stored, Refreshing, Locked
<1> QED BY <1>1, <1>2, <1>3, <1>4, <1>5, <1>6, <1>7, <1>8, <1>9, <1>10

\* The context of a login ends.
LEMMA InterruptKeeps ==
  ASSUME SubscriptionInv, NEW l \in LoginIds, Interrupt(l)
  PROVE  SubscriptionInv'
<1> USE DEF SubscriptionInv
<1>1. AuthTypeOK'
  BY SubscriptionAssumption DEF Interrupt
<1>2. Locked'
  BY SubscriptionAssumption DEF Interrupt, Locked
<1>3. Numbered'
  BY SubscriptionAssumption DEF Interrupt, Numbered, Started
<1>4. OneSession'
  BY SubscriptionAssumption DEF Interrupt, OneSession
<1>5. Canceling'
  BY SubscriptionAssumption DEF Interrupt, Canceling
<1>6. Settling'
  BY SubscriptionAssumption DEF Interrupt, Settling, Settled
<1>7. Stored'
  BY SubscriptionAssumption DEF Interrupt, Stored
<1>8. \A d \in Callers : Refreshing(d)'
  BY SubscriptionAssumption DEF Interrupt, Refreshing, Locked, Stored
<1>9. DisconnectSticks'
  BY SubscriptionAssumption DEF Interrupt, DisconnectSticks, Stored, Settling, Settled
<1>10. StoredTokenIsAccepted'
  BY SubscriptionAssumption DEF Interrupt, StoredTokenIsAccepted, Stored, Refreshing, Locked
<1> QED BY <1>1, <1>2, <1>3, <1>4, <1>5, <1>6, <1>7, <1>8, <1>9, <1>10

\* Start runs while nobody waits in Cancel, and Sessions has no other login.
LEMMA PressConnectKeeps ==
  ASSUME SubscriptionInv, NEW r \in Requests, NEW l \in LoginIds, PressConnect(r, l)
  PROVE  SubscriptionInv'
<1> USE DEF SubscriptionInv
<1>1. AuthTypeOK'
  BY SubscriptionAssumption DEF PressConnect, StartLogin
<1>2. Locked'
  BY SubscriptionAssumption DEF PressConnect, StartLogin, Locked
<1>3. Numbered'
  <2>1. PICK k \in 0..MaxLogins : Started(k)
    BY DEF Numbered
  <2>2. l = k + 1 /\ k + 1 \in 0..MaxLogins
    <3>1. l > k
      BY <2>1 DEF PressConnect, StartLogin, Started
    <3>2. k + 1 \in LoginIds
      BY <3>1, SubscriptionAssumption DEF LoginIds
    <3>3. LoginAt(k + 1, "none")
      BY <2>1, <3>2 DEF Started, LoginIds
    <3>4. l <= k + 1
      BY <3>2, <3>3 DEF PressConnect, StartLogin
    <3>5. k \in Nat /\ l \in Nat /\ k + 1 \in 0..MaxLogins
      BY <3>2, SubscriptionAssumption DEF LoginIds
    <3> QED BY ONLY <3>1, <3>4, <3>5
  <2>3. Started(k + 1)'
    BY <2>1, <2>2, SubscriptionAssumption DEF PressConnect, StartLogin, Started, LoginIds
  <2> QED BY <2>2, <2>3 DEF Numbered
<1>4. OneSession'
  <2>0. l # NoLogin
    BY SubscriptionAssumption DEF LoginIds
  <2>1. login'[l].by = "session" /\ login'[l].pc = "code"
    BY SubscriptionAssumption DEF PressConnect, StartLogin
  <2>2. \A k \in LoginIds \ {l} : login'[k] = login[k]
    BY SubscriptionAssumption DEF PressConnect, StartLogin
  <2>3. session = NoLogin /\ session' = l
    BY DEF PressConnect
  <2>4. \A k \in LoginIds \ {l} : ~(BySession(k) /\ login[k].pc \notin {"none", "ended"})
    BY <2>3 DEF OneSession, LoginIds
  <2> QED BY <2>0, <2>1, <2>2, <2>3, <2>4 DEF OneSession
<1>5. Canceling'
  BY SubscriptionAssumption DEF PressConnect, StartLogin, Canceling
<1>6. Settling'
  BY SubscriptionAssumption DEF PressConnect, StartLogin, Settling, Settled
<1>7. Stored'
  BY SubscriptionAssumption DEF PressConnect, StartLogin, Stored
<1>8. \A d \in Callers : Refreshing(d)'
  BY SubscriptionAssumption DEF PressConnect, StartLogin, Refreshing, Locked, Stored
<1>9. DisconnectSticks'
  BY SubscriptionAssumption
  DEF PressConnect, StartLogin, DisconnectSticks, Stored, Settling, Settled
<1>10. StoredTokenIsAccepted'
  BY SubscriptionAssumption
  DEF PressConnect, StartLogin, StoredTokenIsAccepted, Stored, Refreshing, Locked
<1> QED BY <1>1, <1>2, <1>3, <1>4, <1>5, <1>6, <1>7, <1>8, <1>9, <1>10

\* Cancel takes op and the login of Sessions.
LEMMA PressCancelKeeps ==
  ASSUME SubscriptionInv, NEW r \in Requests, NEW t \in {"idle", "lock"}, PressCancel(r, t)
  PROVE  SubscriptionInv'
<1> USE DEF SubscriptionInv
<1>0. \A l \in LoginIds : /\ login'[l].pc = login[l].pc /\ login'[l].by = login[l].by
                         /\ login'[l].ctx \in {"live", "expired", "canceled"}
  BY SubscriptionAssumption DEF PressCancel, ToCancel, CanceledBy, MuWhileWaiting
<1>1. AuthTypeOK'
  <2>1. login' \in [LoginIds -> Logins]
    <3>0. session # NoLogin => login[session] \in Logins
      OBVIOUS
    <3>1. session # NoLogin => CanceledBy(session) \in Logins
      <4> HIDE DEF Logins, AuthTypeOK
      <4> QED BY <3>0, LoginMoved DEF CanceledBy
    <3>2. \/ login' = login
          \/ session # NoLogin /\ login' = [login EXCEPT ![session] = CanceledBy(session)]
      BY DEF PressCancel, ToCancel
    <3> QED BY <3>1, <3>2
  <2>2. request' \in [Requests -> RequestStates]
    BY SubscriptionAssumption DEF PressCancel, ToCancel
  <2> QED BY <2>1, <2>2, SubscriptionAssumption DEF PressCancel, ToCancel, MuWhileWaiting
<1>2. Locked'
  BY SMTT(30), SubscriptionAssumption DEF PressCancel, ToCancel, CanceledBy, MuWhileWaiting, Locked
<1>3. Numbered'
  BY <1>0 DEF Numbered, Started
<1>4. OneSession'
  BY SMTT(30), SubscriptionAssumption DEF PressCancel, ToCancel, CanceledBy, MuWhileWaiting, OneSession
<1>5. Canceling'
  BY SubscriptionAssumption DEF PressCancel, ToCancel, CanceledBy, MuWhileWaiting, Canceling
<1>6. Settling'
  <2>1. \A n \in Nat : Settled(n) => Settled(n)'
    BY <1>0 DEF Settled
  <2>2. \A q \in Requests : request'[q].pc \in {"lock", "remove"} => request'[q] = request[q]
    BY DEF PressCancel
  <2>3. upto' = upto
    BY DEF PressCancel
  <2>4. Settled(upto)'
    BY <2>1, <2>3 DEF Settling
  <2>5. ASSUME NEW q \in Requests, request'[q].pc \in {"lock", "remove"}
        PROVE  Settled(request[q].upto)'
    BY <2>1, <2>2, <2>5 DEF Settling
  <2> QED BY <2>2, <2>4, <2>5 DEF Settling
<1>7. Stored'
  BY SubscriptionAssumption DEF PressCancel, ToCancel, CanceledBy, MuWhileWaiting, Stored
<1>8. \A d \in Callers : Refreshing(d)'
  BY SubscriptionAssumption
  DEF PressCancel, ToCancel, CanceledBy, MuWhileWaiting, Refreshing, Locked, Stored
<1>9. DisconnectSticks'
  BY SubscriptionAssumption
  DEF PressCancel, ToCancel, CanceledBy, MuWhileWaiting, DisconnectSticks, Stored, Settling,
      Settled
<1>10. StoredTokenIsAccepted'
  BY SubscriptionAssumption
  DEF PressCancel, ToCancel, CanceledBy, MuWhileWaiting, StoredTokenIsAccepted, Stored,
      Refreshing, Locked
<1> QED BY <1>1, <1>2, <1>3, <1>4, <1>5, <1>6, <1>7, <1>8, <1>9, <1>10

LEMMA UpTo == \A k \in Nat : Cardinality(1..k) = k
  BY FS_Interval

\* When Cancel has waited, every login of the server so far is over.
LEMMA CancelDoneKeeps ==
  ASSUME SubscriptionInv, NEW r \in Requests, CancelDone(r)
  PROVE  SubscriptionInv'
<1> USE DEF SubscriptionInv
<1> DEFINE n == Cardinality({l \in LoginIds : ~LoginAt(l, "none")})
<1>0. n \in 0..MaxLogins /\ Started(n)
  <2>1. PICK k \in 0..MaxLogins : Started(k)
    BY DEF Numbered
  <2>2. {l \in LoginIds : ~LoginAt(l, "none")} = 1..k
    BY <2>1, SubscriptionAssumption DEF Started, LoginIds
  <2>3. Cardinality(1..k) = k
    <3>1. k \in Nat
      BY SubscriptionAssumption
    <3> QED BY ONLY <3>1, UpTo
  <2> QED BY ZenonT(40), <2>1, <2>2, <2>3
<1> HIDE DEF n
<1>01. request' = [request EXCEPT ![r] = [pc |-> request[r].then, then |-> "idle", login |-> NoLogin,
                                           upto |-> IF request[r].then = "idle" THEN 0 ELSE n]]
  BY DEF CancelDone, n
<1>1. AuthTypeOK'
  <2>1. request' \in [Requests -> RequestStates]
    BY <1>0, <1>01, SubscriptionAssumption
  <2>2. UNCHANGED <<cred, flock, login, session, caller, issued, mishaps, lost, upto>>
    BY DEF CancelDone
  <2>3. op' = NoOne /\ mu' = NoOne
    BY DEF CancelDone
  <2> QED BY <2>1, <2>2, <2>3
<1>2. Locked'
  BY SubscriptionAssumption DEF CancelDone, LoginOver, Locked
<1>3. Numbered'
  BY SubscriptionAssumption DEF CancelDone, LoginOver, Numbered, Started
<1>4. OneSession'
  BY SubscriptionAssumption DEF CancelDone, LoginOver, OneSession
<1>5. Canceling'
  BY SubscriptionAssumption DEF CancelDone, LoginOver, Canceling
<1>6. Settling'
  <2>1. session = NoLogin
    BY SubscriptionAssumption DEF CancelDone, LoginOver, Canceling, OneSession
  <2>2. Settled(n)
    BY <1>0, <2>1, SubscriptionAssumption DEF OneSession, Settled, Started, LoginIds
  <2>3. login' = login /\ upto' = upto
    BY DEF CancelDone
  <2>4. \A m \in Nat : Settled(m) => Settled(m)'
    BY <2>3 DEF Settled
  <2>5. ASSUME NEW q \in Requests, request'[q].pc \in {"lock", "remove"}
        PROVE  \/ request'[q].upto = request[q].upto /\ Settled(request[q].upto)
               \/ request'[q].upto = n
    BY <1>01, <2>5 DEF Settling
  <2>6. Settled(upto)'
    BY <2>3, <2>4 DEF Settling
  <2>7. ASSUME NEW q \in Requests, request'[q].pc \in {"lock", "remove"}
        PROVE  Settled(request[q].upto)'
    <3>1. PICK m \in Nat : m = request'[q].upto /\ Settled(m)
      BY <1>0, <2>2, <2>5, <2>7
    <3>2. Settled(m)'
      BY <3>1, <2>4
    <3> QED BY <3>1, <3>2
  <2> QED BY <2>6, <2>7 DEF Settling
<1>7. Stored'
  BY SubscriptionAssumption DEF CancelDone, LoginOver, Stored
<1>8. \A d \in Callers : Refreshing(d)'
  BY SubscriptionAssumption DEF CancelDone, LoginOver, Refreshing, Locked, Stored
<1>9. DisconnectSticks'
  BY SubscriptionAssumption DEF CancelDone, LoginOver, DisconnectSticks, Stored, Settling, Settled
<1>10. StoredTokenIsAccepted'
  BY SubscriptionAssumption
  DEF CancelDone, LoginOver, StoredTokenIsAccepted, Stored, Refreshing, Locked
<1> QED BY <1>1, <1>2, <1>3, <1>4, <1>5, <1>6, <1>7, <1>8, <1>9, <1>10

\* Disconnect takes the lock of the file.
LEMMA LockRemovalKeeps ==
  ASSUME SubscriptionInv, NEW r \in Requests, LockRemoval(r)
  PROVE  SubscriptionInv'
<1> USE DEF SubscriptionInv
<1>1. AuthTypeOK'
  <2>1. [request[r] EXCEPT !.pc = "remove"] \in RequestStates
    BY ZenonT(40), RequestMoved
  <2>2. request' = [request EXCEPT ![r] = [request[r] EXCEPT !.pc = "remove"]]
    BY DEF LockRemoval
  <2> QED BY <2>1, <2>2 DEF LockRemoval
<1>2. Locked'
  BY SubscriptionAssumption DEF LockRemoval, Locked
<1>3. Numbered'
  BY SubscriptionAssumption DEF LockRemoval, Numbered, Started
<1>4. OneSession'
  BY SubscriptionAssumption DEF LockRemoval, OneSession
<1>5. Canceling'
  BY SubscriptionAssumption DEF LockRemoval, Canceling
<1>6. Settling'
  BY SubscriptionAssumption DEF LockRemoval, Settling, Settled
<1>7. Stored'
  BY SubscriptionAssumption DEF LockRemoval, Stored
<1>8. \A d \in Callers : Refreshing(d)'
  BY SubscriptionAssumption DEF LockRemoval, Refreshing, Locked, Stored
<1>9. DisconnectSticks'
  BY SubscriptionAssumption DEF LockRemoval, DisconnectSticks, Stored, Settling, Settled
<1>10. StoredTokenIsAccepted'
  BY SubscriptionAssumption DEF LockRemoval, StoredTokenIsAccepted, Stored, Refreshing, Locked
<1> QED BY <1>1, <1>2, <1>3, <1>4, <1>5, <1>6, <1>7, <1>8, <1>9, <1>10

\* Nothing is left in the file.
LEMMA RemoveKeeps ==
  ASSUME SubscriptionInv, NEW r \in Requests, Remove(r)
  PROVE  SubscriptionInv'
<1> USE DEF SubscriptionInv
<1>1. AuthTypeOK'
  BY SubscriptionAssumption DEF Remove
<1>2. Locked'
  BY SubscriptionAssumption DEF Remove, Locked
<1>3. Numbered'
  BY SubscriptionAssumption DEF Remove, Numbered, Started
<1>4. OneSession'
  BY SubscriptionAssumption DEF Remove, OneSession
<1>5. Canceling'
  BY SubscriptionAssumption DEF Remove, Canceling
<1>6. Settling'
  BY SubscriptionAssumption DEF Remove, Settling, Settled
<1>7. Stored'
  BY SubscriptionAssumption DEF Remove, Stored
<1>8. \A d \in Callers : Refreshing(d)'
  BY SubscriptionAssumption DEF Remove, Refreshing, Locked, Stored
<1>9. DisconnectSticks'
  BY SubscriptionAssumption DEF Remove, DisconnectSticks, Stored, Settling, Settled
<1>10. StoredTokenIsAccepted'
  BY SubscriptionAssumption DEF Remove, StoredTokenIsAccepted, Stored, Refreshing, Locked
<1> QED BY <1>1, <1>2, <1>3, <1>4, <1>5, <1>6, <1>7, <1>8, <1>9, <1>10

\* The request is canceled before it has the lock.
LEMMA AbandonKeeps ==
  ASSUME SubscriptionInv, NEW r \in Requests, Abandon(r)
  PROVE  SubscriptionInv'
<1> USE DEF SubscriptionInv
<1>1. AuthTypeOK'
  BY SubscriptionAssumption DEF Abandon
<1>2. Locked'
  BY SubscriptionAssumption DEF Abandon, Locked
<1>3. Numbered'
  BY SubscriptionAssumption DEF Abandon, Numbered, Started
<1>4. OneSession'
  BY SubscriptionAssumption DEF Abandon, OneSession
<1>5. Canceling'
  BY SubscriptionAssumption DEF Abandon, Canceling
<1>6. Settling'
  BY SubscriptionAssumption DEF Abandon, Settling, Settled
<1>7. Stored'
  BY SubscriptionAssumption DEF Abandon, Stored
<1>8. \A d \in Callers : Refreshing(d)'
  BY SubscriptionAssumption DEF Abandon, Refreshing, Locked, Stored
<1>9. DisconnectSticks'
  BY SubscriptionAssumption DEF Abandon, DisconnectSticks, Stored, Settling, Settled
<1>10. StoredTokenIsAccepted'
  BY SubscriptionAssumption DEF Abandon, StoredTokenIsAccepted, Stored, Refreshing, Locked
<1> QED BY <1>1, <1>2, <1>3, <1>4, <1>5, <1>6, <1>7, <1>8, <1>9, <1>10

\* A call of the model takes the lock of the file.
LEMMA LockTokenKeeps ==
  ASSUME SubscriptionInv, NEW c \in Callers, LockToken(c)
  PROVE  SubscriptionInv'
<1> USE DEF SubscriptionInv
<1>1. AuthTypeOK'
  BY SubscriptionAssumption DEF LockToken
<1>2. Locked'
  BY SubscriptionAssumption DEF LockToken, Locked
<1>3. Numbered'
  BY SubscriptionAssumption DEF LockToken, Numbered, Started
<1>4. OneSession'
  BY SubscriptionAssumption DEF LockToken, OneSession
<1>5. Canceling'
  BY SubscriptionAssumption DEF LockToken, Canceling
<1>6. Settling'
  BY SubscriptionAssumption DEF LockToken, Settling, Settled
<1>7. Stored'
  BY SubscriptionAssumption DEF LockToken, Stored
<1>8. \A d \in Callers : Refreshing(d)'
  BY SubscriptionAssumption DEF LockToken, Refreshing, Locked, Stored
<1>9. DisconnectSticks'
  BY SubscriptionAssumption DEF LockToken, DisconnectSticks, Stored, Settling, Settled
<1>10. StoredTokenIsAccepted'
  BY SubscriptionAssumption DEF LockToken, StoredTokenIsAccepted, Stored, Refreshing, Locked
<1> QED BY <1>1, <1>2, <1>3, <1>4, <1>5, <1>6, <1>7, <1>8, <1>9, <1>10

\* What a refresh starts from is what is in the file.
LEMMA ReadTokenKeeps ==
  ASSUME SubscriptionInv, NEW c \in Callers, ReadToken(c)
  PROVE  SubscriptionInv'
<1> USE DEF SubscriptionInv
<1>1. AuthTypeOK'
  <2>1. PICK s \in CallerStates : caller' = [caller EXCEPT ![c] = s]
    <3>1. [pc |-> "exchange", held |-> cred] \in CallerStates /\ Resting \in CallerStates
      OBVIOUS
    <3> QED BY <3>1 DEF ReadToken
  <2>2. flock' \in {c, NoOne}
    BY DEF ReadToken, LockAfterRead
  <2> QED BY <2>1, <2>2 DEF ReadToken
<1>2. Locked'
  BY SubscriptionAssumption DEF ReadToken, LockAfterRead, Locked
<1>3. Numbered'
  BY SubscriptionAssumption DEF ReadToken, LockAfterRead, Numbered, Started
<1>4. OneSession'
  BY SubscriptionAssumption DEF ReadToken, LockAfterRead, OneSession
<1>5. Canceling'
  BY SubscriptionAssumption DEF ReadToken, LockAfterRead, Canceling
<1>6. Settling'
  BY SubscriptionAssumption DEF ReadToken, LockAfterRead, Settling, Settled
<1>7. Stored'
  BY SubscriptionAssumption DEF ReadToken, LockAfterRead, Stored
<1>8. \A d \in Callers : Refreshing(d)'
  <2>1. ASSUME NEW d \in Callers, d # c PROVE Refreshing(d)'
    BY <2>1 DEF ReadToken, Locked, Refreshing
  <2>2. caller'[c].pc = "exchange" => caller'[c].held = cred /\ cred # NoCred /\ cred.expiring
    BY DEF ReadToken
  <2>3. caller'[c].pc \in {"exchange", "idle"} /\ cred' = cred
    BY DEF ReadToken
  <2>4. Refreshing(c)'
    BY <2>2, <2>3 DEF Refreshing
  <2> QED BY <2>1, <2>4
<1>9. DisconnectSticks'
  BY SubscriptionAssumption
  DEF ReadToken, LockAfterRead, DisconnectSticks, Stored, Settling, Settled
<1>10. StoredTokenIsAccepted'
  BY SubscriptionAssumption
  DEF ReadToken, LockAfterRead, StoredTokenIsAccepted, Stored, Refreshing, Locked
<1> QED BY <1>1, <1>2, <1>3, <1>4, <1>5, <1>6, <1>7, <1>8, <1>9, <1>10

\* Only the holder of the lock has a token exchanged, and it has the one in the file.
LEMMA ExchangeKeeps ==
  ASSUME SubscriptionInv, NEW c \in Callers, Exchange(c)
  PROVE  SubscriptionInv'
<1> USE DEF SubscriptionInv
<1>1. AuthTypeOK'
  <2>1. caller[c].held.login \in LoginIds
    BY DEF Exchange, Refreshing, Stored
  <2>2. issued' \in [LoginIds -> Nat] /\ lost' \in BOOLEAN
    BY <2>1 DEF Exchange
  <2>3. PICK s \in CallerStates : caller' = [caller EXCEPT ![c] = s]
    <3> DEFINE h == caller[c].held
    <3>1. [pc |-> "unlock", held |-> NoCred] \in CallerStates
      OBVIOUS
    <3>2. issued'[h.login] \in Nat
      BY <2>1, <2>2
    <3>3. [h EXCEPT !.token = issued'[h.login]] \in Credentials
      <4>1. h \in Credentials
        OBVIOUS
      <4> HIDE DEF h, AuthTypeOK
      <4> QED BY <3>2, <4>1
    <3>4. [pc |-> "save", held |-> [h EXCEPT !.token = issued'[h.login]]] \in CallerStates
      <4> HIDE DEF h, AuthTypeOK, Credentials
      <4> QED BY <3>3
    <3> QED BY <3>1, <3>4 DEF Exchange
  <2> QED BY <2>2, <2>3 DEF Exchange
<1>2. Locked'
  BY SubscriptionAssumption DEF Exchange, Locked
<1>3. Numbered'
  BY SubscriptionAssumption DEF Exchange, Numbered, Started
<1>4. OneSession'
  BY SubscriptionAssumption DEF Exchange, OneSession
<1>5. Canceling'
  BY SubscriptionAssumption DEF Exchange, Canceling
<1>6. Settling'
  BY SubscriptionAssumption DEF Exchange, Settling, Settled
<1>7. Stored'
  BY SubscriptionAssumption DEF Exchange, Stored
<1>8. \A d \in Callers : Refreshing(d)'
  BY SubscriptionAssumption DEF Exchange, Refreshing, Locked, Stored
<1>9. DisconnectSticks'
  BY SubscriptionAssumption DEF Exchange, DisconnectSticks, Stored, Settling, Settled
<1>10. StoredTokenIsAccepted'
  BY SubscriptionAssumption DEF Exchange, StoredTokenIsAccepted, Stored, Refreshing, Locked
<1> QED BY <1>1, <1>2, <1>3, <1>4, <1>5, <1>6, <1>7, <1>8, <1>9, <1>10

\* A refused refresh changes nothing at the provider.
LEMMA ExchangeFailsKeeps ==
  ASSUME SubscriptionInv, NEW c \in Callers, ExchangeFails(c)
  PROVE  SubscriptionInv'
<1> USE DEF SubscriptionInv
<1>1. AuthTypeOK'
  BY SubscriptionAssumption DEF ExchangeFails
<1>2. Locked'
  BY SubscriptionAssumption DEF ExchangeFails, Locked
<1>3. Numbered'
  BY SubscriptionAssumption DEF ExchangeFails, Numbered, Started
<1>4. OneSession'
  BY SubscriptionAssumption DEF ExchangeFails, OneSession
<1>5. Canceling'
  BY SubscriptionAssumption DEF ExchangeFails, Canceling
<1>6. Settling'
  BY SubscriptionAssumption DEF ExchangeFails, Settling, Settled
<1>7. Stored'
  BY SubscriptionAssumption DEF ExchangeFails, Stored
<1>8. \A d \in Callers : Refreshing(d)'
  BY SubscriptionAssumption DEF ExchangeFails, Refreshing, Locked, Stored
<1>9. DisconnectSticks'
  BY SubscriptionAssumption DEF ExchangeFails, DisconnectSticks, Stored, Settling, Settled
<1>10. StoredTokenIsAccepted'
  BY SubscriptionAssumption DEF ExchangeFails, StoredTokenIsAccepted, Stored, Refreshing, Locked
<1> QED BY <1>1, <1>2, <1>3, <1>4, <1>5, <1>6, <1>7, <1>8, <1>9, <1>10

\* The token that is saved belongs to the login in the file.
LEMMA SaveTokenKeeps ==
  ASSUME SubscriptionInv, NEW c \in Callers, SaveToken(c)
  PROVE  SubscriptionInv'
<1> USE DEF SubscriptionInv
<1>0. cred'.login = cred.login
  BY DEF SaveToken, Refreshing
<1>1. AuthTypeOK'
  BY ZenonT(40), SubscriptionAssumption DEF SaveToken
<1>2. Locked'
  BY SubscriptionAssumption DEF SaveToken, Locked
<1>3. Numbered'
  BY SubscriptionAssumption DEF SaveToken, Numbered, Started
<1>4. OneSession'
  BY SubscriptionAssumption DEF SaveToken, OneSession
<1>5. Canceling'
  BY SubscriptionAssumption DEF SaveToken, Canceling
<1>6. Settling'
  BY SubscriptionAssumption DEF SaveToken, Settling, Settled
<1>7. Stored'
  <2>1. cred # NoCred /\ login' = login
    BY DEF SaveToken, Refreshing
  <2> QED BY <1>0, <2>1, Zenon DEF Stored
<1>8. \A d \in Callers : Refreshing(d)'
  BY SubscriptionAssumption DEF SaveToken, Refreshing, Locked, Stored
<1>9. DisconnectSticks'
  <2>1. cred # NoCred /\ login' = login /\ upto' = upto
    BY DEF SaveToken, Refreshing
  <2> QED BY <1>0, <2>1, Zenon DEF DisconnectSticks
<1>10. StoredTokenIsAccepted'
  BY SubscriptionAssumption, SMTT(30)
     DEF SaveToken, StoredTokenIsAccepted, Stored, Refreshing, Locked
<1> QED BY <1>1, <1>2, <1>3, <1>4, <1>5, <1>6, <1>7, <1>8, <1>9, <1>10

\* The call gives the lock back.
LEMMA UnlockKeeps ==
  ASSUME SubscriptionInv, NEW c \in Callers, Unlock(c)
  PROVE  SubscriptionInv'
<1> USE DEF SubscriptionInv
<1>1. AuthTypeOK'
  BY SubscriptionAssumption DEF Unlock
<1>2. Locked'
  BY SubscriptionAssumption DEF Unlock, Locked
<1>3. Numbered'
  BY SubscriptionAssumption DEF Unlock, Numbered, Started
<1>4. OneSession'
  BY SubscriptionAssumption DEF Unlock, OneSession
<1>5. Canceling'
  BY SubscriptionAssumption DEF Unlock, Canceling
<1>6. Settling'
  BY SubscriptionAssumption DEF Unlock, Settling, Settled
<1>7. Stored'
  BY SubscriptionAssumption DEF Unlock, Stored
<1>8. \A d \in Callers : Refreshing(d)'
  BY SubscriptionAssumption DEF Unlock, Refreshing, Locked, Stored
<1>9. DisconnectSticks'
  BY SubscriptionAssumption DEF Unlock, DisconnectSticks, Stored, Settling, Settled
<1>10. StoredTokenIsAccepted'
  BY SubscriptionAssumption DEF Unlock, StoredTokenIsAccepted, Stored, Refreshing, Locked
<1> QED BY <1>1, <1>2, <1>3, <1>4, <1>5, <1>6, <1>7, <1>8, <1>9, <1>10

\* During a refresh the token in the file is expiring already.
LEMMA AccessExpiresKeeps ==
  ASSUME SubscriptionInv, AccessExpires
  PROVE  SubscriptionInv'
<1> USE DEF SubscriptionInv
<1>1. AuthTypeOK'
  BY SubscriptionAssumption DEF AccessExpires
<1>2. Locked'
  BY SubscriptionAssumption DEF AccessExpires, Locked
<1>3. Numbered'
  BY SubscriptionAssumption DEF AccessExpires, Numbered, Started
<1>4. OneSession'
  BY SubscriptionAssumption DEF AccessExpires, OneSession
<1>5. Canceling'
  BY SubscriptionAssumption DEF AccessExpires, Canceling
<1>6. Settling'
  BY SubscriptionAssumption DEF AccessExpires, Settling, Settled
<1>7. Stored'
  BY SubscriptionAssumption DEF AccessExpires, Stored
<1>8. \A d \in Callers : Refreshing(d)'
  BY SubscriptionAssumption DEF AccessExpires, Refreshing, Locked, Stored
<1>9. DisconnectSticks'
  BY SubscriptionAssumption DEF AccessExpires, DisconnectSticks, Stored, Settling, Settled
<1>10. StoredTokenIsAccepted'
  BY SubscriptionAssumption DEF AccessExpires, StoredTokenIsAccepted, Stored, Refreshing, Locked
<1> QED BY <1>1, <1>2, <1>3, <1>4, <1>5, <1>6, <1>7, <1>8, <1>9, <1>10

\* The logins of the server are over, and only a command line may keep the lock.
LEMMA RestartKeeps ==
  ASSUME SubscriptionInv, Restart
  PROVE  SubscriptionInv'
<1> USE DEF SubscriptionInv
<1>1. AuthTypeOK'
  <2>1. login' \in [LoginIds -> Logins]
    <3>1. \A l \in LoginIds : login[l] \in Logins
      OBVIOUS
    <3> HIDE DEF Logins, AuthTypeOK
    <3>2. \A l \in LoginIds : [login[l] EXCEPT !.pc = "ended"] \in Logins
      BY <3>1, LoginMoved
    <3> QED BY <3>1, <3>2 DEF Restart
  <2>2. flock' \in LoginIds \cup {NoOne}
    BY DEF Restart
  <2>3. request' \in [Requests -> RequestStates]
    BY DEF Restart
  <2>4. caller' \in [Callers -> CallerStates]
    BY DEF Restart
  <2>5. lost' \in BOOLEAN /\ mishaps' \in Nat
    BY SubscriptionAssumption DEF Restart
  <2> QED BY <2>1, <2>2, <2>3, <2>4, <2>5 DEF Restart
<1>2. Locked'
  BY SubscriptionAssumption DEF Restart, Locked
<1>3. Numbered'
  BY SubscriptionAssumption DEF Restart, Numbered, Started
<1>4. OneSession'
  BY SubscriptionAssumption DEF Restart, OneSession
<1>5. Canceling'
  BY SubscriptionAssumption DEF Restart, Canceling
<1>6. Settling'
  BY SubscriptionAssumption DEF Restart, Settling, Settled
<1>7. Stored'
  BY SubscriptionAssumption DEF Restart, Stored
<1>8. \A d \in Callers : Refreshing(d)'
  BY SubscriptionAssumption DEF Restart, Refreshing, Locked, Stored
<1>9. DisconnectSticks'
  BY SubscriptionAssumption DEF Restart, DisconnectSticks, Stored, Settling, Settled
<1>10. StoredTokenIsAccepted'
  BY SubscriptionAssumption DEF Restart, StoredTokenIsAccepted, Stored, Refreshing, Locked
<1> QED BY <1>1, <1>2, <1>3, <1>4, <1>5, <1>6, <1>7, <1>8, <1>9, <1>10

-----------------------------------------------------------------------------
LEMMA SubscriptionSteps ==
  ASSUME SubscriptionInv, [SubscriptionNext]_authVars
  PROVE  SubscriptionInv'
<1>1. CASE \E l \in LoginIds : CommandLine(l) \/ LoginStep(l) \/ Interrupt(l)
  BY <1>1, CommandLineKeeps, ShowKeeps, ApprovedKeeps, LockLoginKeeps, StoreLoginKeeps,
     GiveUpLoginKeeps, EndLoginKeeps, InterruptKeeps DEF LoginStep
<1>2. CASE \E r \in Requests, l \in LoginIds : PressConnect(r, l)
  BY <1>2, PressConnectKeeps
<1>3. CASE \E r \in Requests : \E then \in {"idle", "lock"} : PressCancel(r, then)
  BY <1>3, PressCancelKeeps
<1>4. CASE \E r \in Requests : CancelDone(r) \/ LockRemoval(r) \/ Remove(r) \/ Abandon(r)
  BY <1>4, CancelDoneKeeps, LockRemovalKeeps, RemoveKeeps, AbandonKeeps
<1>5. CASE \E c \in Callers : TokenStep(c)
  BY <1>5, LockTokenKeeps, ReadTokenKeeps, ExchangeKeeps, ExchangeFailsKeeps, SaveTokenKeeps,
     UnlockKeeps DEF TokenStep
<1>6. CASE AccessExpires \/ Restart
  BY <1>6, AccessExpiresKeeps, RestartKeeps
<1>7. CASE UNCHANGED authVars
  BY <1>7 DEF authVars, SubscriptionInv, Locked, Numbered, Started, OneSession, Canceling,
     Settling, Settled, Stored, Refreshing, DisconnectSticks, StoredTokenIsAccepted
<1> QED BY <1>1, <1>2, <1>3, <1>4, <1>5, <1>6, <1>7 DEF SubscriptionNext

\* The inductive invariant of the lock file, of Sessions and of the refresh:
\* whoever touches the file holds its lock, Sessions has at most one login that
\* has not ended, and a refresh works on what is in the file.
THEOREM SubscriptionCorrect == SubscriptionSpec => []SubscriptionInv
  BY SubscriptionStarts, SubscriptionSteps, PTL DEF SubscriptionSpec

\* Disconnect sticks: no login of the server that was under way when it was
\* pressed, and no refresh, brings removed credentials back, however logins,
\* requests, calls and deaths of the server interleave.
THEOREM RemovalIsFinal == SubscriptionSpec => []DisconnectSticks
<1>1. SubscriptionInv => DisconnectSticks
  BY DEF SubscriptionInv
<1> QED BY <1>1, SubscriptionCorrect, PTL

\* Unless an answer of the provider was lost, the refresh token in the file is
\* the one the provider accepts, however many calls refresh at the same time.
THEOREM RefreshesDoNotSignOut == SubscriptionSpec => []StoredTokenIsAccepted
<1>1. SubscriptionInv => StoredTokenIsAccepted
  BY DEF SubscriptionInv
<1> QED BY <1>1, SubscriptionCorrect, PTL

=============================================================================
