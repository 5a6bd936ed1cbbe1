---------------------------- MODULE Subscription ----------------------------
(***************************************************************************)
(* The ChatGPT subscription: the credential file and its lock file, the    *)
(* device login of the settings page (internal/subscription Sessions) and  *)
(* of the command line, and the calls of the model that take a token.      *)
(*                                                                         *)
(* The lock of the file is held by one actor at a time and is free again   *)
(* when its process dies.  Sessions has two mutexes: op, held by Cancel    *)
(* until the login has ended, and mu, which the login needs to end.        *)
(* The provider gives out a new refresh token whenever one is used and     *)
(* accepts only the last one of a login.                                   *)
(***************************************************************************)
EXTENDS Naturals, FiniteSets

CONSTANTS
    Callers,        \* calls of the model that need a token
    Requests,       \* requests to the settings page
    NoOne,
    MaxLogins,      \* bound: logins
    MaxRefreshes,   \* bound: refreshes
    MaxMishaps      \* bound: deaths of the server, logins that time out or are refused

LoginIds == 1..MaxLogins
NoLogin == 0

ASSUME SubscriptionAssumption ==
    /\ MaxLogins \in Nat /\ MaxRefreshes \in Nat /\ MaxMishaps \in Nat
    /\ NoOne \notin Callers \cup Requests \cup LoginIds
    /\ Callers \cap Requests = {} /\ (Callers \cup Requests) \cap LoginIds = {}

VARIABLES
    cred,           \* the credential file: the login it is from, its refresh token
    flock,          \* who holds the lock of the file
    login,          \* every login that was started
    session,        \* Sessions: the login it can cancel
    op, mu,         \* the mutexes of Sessions
    request,        \* what a request to the settings page does
    caller,         \* what a call of the model does
    issued,         \* provider: the refresh token of a login it accepts
    mishaps,        \* mishaps so far
    lost,           \* history: a refresh token was given out and not stored
    upto            \* history: logins that were over before the last removal

authVars == <<cred, flock, login, session, op, mu, request, caller, issued,
              mishaps, lost, upto>>

\* The file of no credentials; refresh tokens are numbered from 1.
NoCred == [login |-> NoLogin, token |-> 0, expiring |-> FALSE]
AtRest == [pc |-> "idle", then |-> "idle", login |-> NoLogin, upto |-> 0]
Resting == [pc |-> "idle", held |-> NoCred]
NotStarted == [by |-> "nobody", pc |-> "none", ctx |-> "live"]

-----------------------------------------------------------------------------
(* Store.Login *)

Log(l, r) == login' = [login EXCEPT ![l] = r]
Mishap == mishaps < MaxMishaps /\ mishaps' = mishaps + 1
LoginAt(l, pc) == login[l].pc = pc
BySession(l) == login[l].by = "session"

\* Logins are numbered in the order of their starts.
StartLogin(l, by) ==
    /\ LoginAt(l, "none") /\ \A k \in LoginIds : LoginAt(k, "none") => l <= k
    /\ Log(l, [by |-> by, pc |-> "code", ctx |-> "live"])

\* attic login-chatgpt, in a process of its own.
CommandLine(l) ==
    /\ StartLogin(l, "cli")
    /\ UNCHANGED <<cred, flock, session, op, mu, request, caller, issued, mishaps, lost, upto>>

LoginOnly == UNCHANGED <<cred, session, op, mu, request, caller, lost, upto>>

\* The code is shown under mu.
Show(l) ==
    /\ LoginAt(l, "code") /\ login[l].ctx = "live" /\ (BySession(l) => mu = NoOne)
    /\ Log(l, [login[l] EXCEPT !.pc = "poll"])
    /\ LoginOnly /\ UNCHANGED <<flock, issued, mishaps>>

\* Polling until the owner has entered the code, and the exchange of what
\* the provider then returns for the first tokens.
Approved(l) ==
    /\ LoginAt(l, "poll") /\ login[l].ctx = "live"
    /\ Log(l, [login[l] EXCEPT !.pc = "lock"])
    /\ issued' = [issued EXCEPT ![l] = 1]
    /\ LoginOnly /\ UNCHANGED <<flock, mishaps>>

LockLogin(l) ==
    /\ LoginAt(l, "lock") /\ flock = NoOne
    /\ flock' = l
    /\ Log(l, [login[l] EXCEPT !.pc = "save"])
    /\ LoginOnly /\ UNCHANGED <<issued, mishaps>>

MayStore(l) == login[l].ctx = "live"

\* save, which may fail; then the lock is given back.
StoreLogin(l) ==
    /\ LoginAt(l, "save")
    /\ flock' = NoOne
    /\ Log(l, [login[l] EXCEPT !.pc = "ending"])
    /\ \/ /\ MayStore(l)
          /\ \E expiring \in BOOLEAN :
                cred' = [login |-> l, token |-> issued[l], expiring |-> expiring]
       \/ UNCHANGED cred
    /\ UNCHANGED <<session, op, mu, request, caller, issued, mishaps, lost, upto>>

\* The context is done, or the provider refuses or cannot be reached.
GiveUpLogin(l) ==
    /\ login[l].pc \in {"code", "poll", "lock"}
    /\ IF login[l].ctx = "live" THEN Mishap ELSE UNCHANGED mishaps
    /\ Log(l, [login[l] EXCEPT !.pc = "ending"])
    /\ LoginOnly /\ UNCHANGED <<flock, issued>>

\* The goroutine of Start sets the final state under mu.
EndLogin(l) ==
    /\ LoginAt(l, "ending") /\ (BySession(l) => mu = NoOne)
    /\ Log(l, [login[l] EXCEPT !.pc = "ended"])
    /\ session' = IF session = l THEN NoLogin ELSE session
    /\ UNCHANGED <<cred, flock, op, mu, request, caller, issued, mishaps, lost, upto>>

\* Fifteen minutes, or a signal to the command line.
Interrupt(l) ==
    /\ login[l].pc \in {"code", "poll", "lock", "save"} /\ login[l].ctx = "live"
    /\ Mishap
    /\ Log(l, [login[l] EXCEPT !.ctx = "expired"])
    /\ LoginOnly /\ UNCHANGED <<flock, issued>>

-----------------------------------------------------------------------------
(* Sessions *)

Req(r, pc) == request' = [request EXCEPT ![r].pc = pc]

\* Start joins a login that is under way.
PressConnect(r, l) ==
    /\ request[r].pc = "idle" /\ op = NoOne /\ mu = NoOne
    /\ session = NoLogin
    /\ StartLogin(l, "session")
    /\ session' = l
    /\ UNCHANGED <<cred, flock, op, mu, request, caller, issued, mishaps, lost, upto>>

\* Mutant of MuWhileWaiting: mu is given back after the login has ended.
MuWhileWaitingHeld(r) == r

\* cancelLogin gives mu back before it waits.
MuWhileWaiting(r) == NoOne

CanceledBy(l) == IF login[l].ctx = "live" THEN [login[l] EXCEPT !.ctx = "canceled"] ELSE login[l]

\* Mutant of ToCancel: a login that has not shown its code, or that has been
\* approved, is left alone.
ToCancelShown == IF session # NoLogin /\ LoginAt(session, "poll") THEN session ELSE NoLogin

\* The login Sessions can cancel, if any, whatever it does.
ToCancel == session

\* Cancel, by itself or as the first half of Disconnect: op is held until the
\* login that was canceled has ended.
PressCancel(r, then) ==
    /\ request[r].pc = "idle" /\ op = NoOne /\ mu = NoOne
    /\ op' = r
    /\ request' = [request EXCEPT ![r] = [pc |-> "waiting", then |-> then,
                                         login |-> ToCancel, upto |-> 0]]
    /\ IF ToCancel = NoLogin THEN UNCHANGED <<login, mu>>
       ELSE Log(ToCancel, CanceledBy(ToCancel)) /\ mu' = MuWhileWaiting(r)
    /\ UNCHANGED <<cred, flock, session, caller, issued, mishaps, lost, upto>>

LoginOver(r) == request[r].login # NoLogin => LoginAt(request[r].login, "ended")

CancelDone(r) ==
    /\ request[r].pc = "waiting" /\ LoginOver(r)
    /\ op' = NoOne /\ mu' = IF mu = r THEN NoOne ELSE mu
    /\ request' = [request EXCEPT ![r] =
          [pc |-> @.then, then |-> "idle", login |-> NoLogin,
           upto |-> IF @.then = "idle" THEN 0
                    ELSE Cardinality({l \in LoginIds : ~LoginAt(l, "none")})]]
    /\ UNCHANGED <<cred, flock, login, session, caller, issued, mishaps, lost, upto>>

LockRemoval(r) ==
    /\ request[r].pc = "lock" /\ flock = NoOne
    /\ flock' = r
    /\ Req(r, "remove")
    /\ UNCHANGED <<cred, login, session, op, mu, caller, issued, mishaps, lost, upto>>

\* Store.Disconnect
Remove(r) ==
    /\ request[r].pc = "remove"
    /\ cred' = NoCred /\ flock' = NoOne
    /\ upto' = IF request[r].upto > upto THEN request[r].upto ELSE upto
    /\ request' = [request EXCEPT ![r] = AtRest]
    /\ UNCHANGED <<login, session, op, mu, caller, issued, mishaps, lost>>

\* The request is canceled while it waits for the lock.
Abandon(r) ==
    /\ request[r].pc = "lock"
    /\ request' = [request EXCEPT ![r] = AtRest]
    /\ UNCHANGED <<cred, flock, login, session, op, mu, caller, issued, mishaps, lost, upto>>

-----------------------------------------------------------------------------
(* Store.Token *)

Call(c, r) == caller' = [caller EXCEPT ![c] = r]
CallerOnly == UNCHANGED <<login, session, op, mu, request, mishaps, upto>>

LockToken(c) ==
    /\ caller[c].pc = "idle" /\ flock = NoOne
    /\ flock' = c
    /\ Call(c, [pc |-> "read", held |-> NoCred])
    /\ CallerOnly /\ UNCHANGED <<cred, issued, lost>>

\* Mutant of LockAfterRead: the lock is given back before the exchange.
LockAfterReadFree(c) == NoOne

\* A refresh keeps the lock from the read to the save.
LockAfterRead(c) == c

\* Without credentials, or with a token that lasts another minute, the lock
\* is given back at once.
ReadToken(c) ==
    /\ caller[c].pc = "read"
    /\ IF cred # NoCred /\ cred.expiring
       THEN Call(c, [pc |-> "exchange", held |-> cred]) /\ flock' = LockAfterRead(c)
       ELSE Call(c, Resting) /\ flock' = NoOne
    /\ CallerOnly /\ UNCHANGED <<cred, issued, lost>>

\* The provider gives out the next refresh token, or keeps the one that was
\* presented; the answer may be lost on its way.
Exchange(c) ==
    LET h == caller[c].held IN
    /\ caller[c].pc = "exchange"
    /\ h.token = issued[h.login] /\ h.token < MaxRefreshes
    /\ \E rotates, arrives \in BOOLEAN :
          /\ issued' = IF rotates THEN [issued EXCEPT ![h.login] = @ + 1] ELSE issued
          /\ lost' = (lost \/ (rotates /\ ~arrives))
          /\ IF arrives
             THEN Call(c, [pc |-> "save", held |-> [h EXCEPT !.token = issued'[h.login]]])
             ELSE Call(c, [pc |-> "unlock", held |-> NoCred])
    /\ CallerOnly /\ UNCHANGED <<cred, flock>>

\* The provider refuses, or cannot be reached.
ExchangeFails(c) ==
    /\ caller[c].pc = "exchange"
    /\ Call(c, [pc |-> "unlock", held |-> NoCred])
    /\ CallerOnly /\ UNCHANGED <<cred, flock, issued, lost>>

\* save writes a file beside the old one and renames it; it may fail.
SaveToken(c) ==
    /\ caller[c].pc = "save"
    /\ Call(c, [pc |-> "unlock", held |-> NoCred])
    /\ \/ /\ \E expiring \in BOOLEAN : cred' = [caller[c].held EXCEPT !.expiring = expiring]
          /\ UNCHANGED lost
       \/ lost' = (lost \/ caller[c].held.token # cred.token) /\ UNCHANGED cred
    /\ CallerOnly /\ UNCHANGED <<flock, issued>>

Unlock(c) ==
    /\ caller[c].pc = "unlock"
    /\ flock' = IF flock = c THEN NoOne ELSE flock
    /\ Call(c, Resting)
    /\ CallerOnly /\ UNCHANGED <<cred, issued, lost>>

\* The token that was read comes within a minute of its end.
AccessExpires ==
    /\ cred # NoCred /\ ~cred.expiring
    /\ cred' = [cred EXCEPT !.expiring = TRUE]
    /\ UNCHANGED <<flock, login, session, op, mu, request, caller, issued, mishaps, lost, upto>>

-----------------------------------------------------------------------------
\* The server dies and starts again: its logins, requests and calls are gone,
\* and so is its hold of the lock.
Restart ==
    /\ Mishap
    /\ login' = [l \in LoginIds |-> IF BySession(l) /\ ~LoginAt(l, "none")
                                    THEN [login[l] EXCEPT !.pc = "ended"] ELSE login[l]]
    /\ flock' = IF flock \in LoginIds /\ login'[flock].pc # "ended" THEN flock ELSE NoOne
    /\ session' = NoLogin /\ op' = NoOne /\ mu' = NoOne
    /\ request' = [r \in Requests |-> AtRest]
    /\ caller' = [c \in Callers |-> Resting]
    /\ lost' = (lost \/ \E c \in Callers : caller[c].pc = "save" /\ caller[c].held.token # cred.token)
    /\ UNCHANGED <<cred, issued, upto>>

SubscriptionInit ==
    /\ cred = NoCred /\ flock = NoOne
    /\ login = [l \in LoginIds |-> NotStarted]
    /\ session = NoLogin /\ op = NoOne /\ mu = NoOne
    /\ request = [r \in Requests |-> AtRest]
    /\ caller = [c \in Callers |-> Resting]
    /\ issued = [l \in LoginIds |-> 0]
    /\ mishaps = 0 /\ lost = FALSE /\ upto = 0

LoginStep(l) ==
    Show(l) \/ Approved(l) \/ LockLogin(l) \/ StoreLogin(l) \/ GiveUpLogin(l) \/ EndLogin(l)

TokenStep(c) ==
    LockToken(c) \/ ReadToken(c) \/ Exchange(c) \/ ExchangeFails(c) \/ SaveToken(c) \/ Unlock(c)

SubscriptionNext ==
    \/ \E l \in LoginIds : CommandLine(l) \/ LoginStep(l) \/ Interrupt(l)
    \/ \E r \in Requests, l \in LoginIds : PressConnect(r, l)
    \/ \E r \in Requests : \E then \in {"idle", "lock"} : PressCancel(r, then)
    \/ \E r \in Requests : CancelDone(r) \/ LockRemoval(r) \/ Remove(r) \/ Abandon(r)
    \/ \E c \in Callers : TokenStep(c)
    \/ AccessExpires \/ Restart

SubscriptionSpec == SubscriptionInit /\ [][SubscriptionNext]_authVars

\* A login whose context is done ends: its requests and its wait for the lock
\* watch the context.  Sessions waits for nothing else.
SubscriptionFairness ==
    /\ \A l \in LoginIds :
          WF_authVars(\/ EndLogin(l) \/ StoreLogin(l)
                      \/ login[l].ctx # "live" /\ GiveUpLogin(l))
    /\ \A r \in Requests : WF_authVars(CancelDone(r))

-----------------------------------------------------------------------------
(* Properties *)

\* Credentials that were removed stay removed: neither a login that was under
\* way in the server nor a refresh brings them back.  A login that the command
\* line runs, or that was started after the cancellation, may write new ones.
DisconnectSticks == cred # NoCred /\ BySession(cred.login) => cred.login > upto

\* Unless an answer of the provider was lost, the stored refresh token is the
\* one the provider accepts: calls that refresh at the same time, in one
\* process or in several, do not sign the owner out.
StoredTokenIsAccepted ==
    cred # NoCred /\ ~lost /\ (\A c \in Callers : caller[c].pc # "save")
        => cred.token = issued[cred.login]

\* Cancel and Disconnect come back from waiting for the login.
CancelReturns == \A r \in Requests : request[r].pc = "waiting" ~> request[r].pc # "waiting"

=============================================================================
