-------------------------- MODULE RecoverySession --------------------------
(***************************************************************************)
(* The capture browser of internal/recovery: one Manager, the goroutine    *)
(* that runs its browser, the owner who commands it over HTTP, and the     *)
(* capture loop and PDF jobs that wait in Recover for a saved page.        *)
(*                                                                         *)
(* Every action is one critical section of Manager.mu or one call of the   *)
(* browser, the model or the library in between.  A session that was       *)
(* replaced stays in the table, since a waiter may still hold it.  Frames  *)
(* are told apart by what clearPage and readable make of their text.       *)
(* Deadlines (15 min, 90 s, 100 s) may pass at any moment.                 *)
(***************************************************************************)
EXTENDS Naturals, Sequences, FiniteSets

CONSTANTS
    Sources,        \* addresses of saved bookmarks
    Waiters,        \* callers of Recover
    MaxSessions,    \* bound: sessions ever started
    MaxCommands,    \* bound: commands of the owner
    MaxVisits,      \* bound: calls of Recover
    AutoSteps,      \* steps the model may take (4)
    QueueSize       \* capacity of the channel of inputs (16)

SessionIds == 1..MaxSessions
NoSession == 0

ASSUME RecoveryAssumption ==
    /\ MaxSessions \in Nat /\ MaxCommands \in Nat /\ MaxVisits \in Nat
    /\ AutoSteps \in Nat /\ QueueSize \in Nat \ {0}

VARIABLES
    sessions,       \* every session that was started
    current,        \* Manager.current
    waiter,         \* what each caller of Recover does
    stopping,       \* Manager.Close was called
    commands,       \* commands so far
    visits,         \* calls of Recover so far
    seen            \* history: the same readable text, as often as it was
                    \* observed in a row since the owner's last input

sessionVars == <<sessions, current>>
vars == <<sessions, current, waiter, stopping, commands, visits, seen>>

-----------------------------------------------------------------------------
(* Pages *)

Texts == {"challenge", "short", "article", "revised"}

ClearPage(text) == text # "challenge"
Readable(text) == text \in {"article", "revised"}

\* What the model may answer; "invalid" is what parseBrowserAction or
\* validAction refuses and "error" a request that fails.
Decisions == {"act", "wait", "done", "handoff", "invalid", "error"}

\* The commands that go through the channel of inputs.
Queued == {"capture", "input"}

-----------------------------------------------------------------------------
(* Sessions *)

NoRecord == [url |-> "none", status |-> "none", human |-> FALSE,
             decision |-> "unset", queue |-> <<>>, ctx |-> "live",
             done |-> FALSE, result |-> FALSE, pc |-> "none", step |-> 0,
             previous |-> "", explicit |-> FALSE, back |-> "none"]

Live(s) == sessions[s].status # "none" /\ ~sessions[s].done

Set(s, r) == sessions' = [sessions EXCEPT ![s] = r]

\* update: nothing changes once the owner closed the browser.
Updated(r, status) == IF r.status = "idle" THEN r ELSE [r EXCEPT !.status = status]

\* Mutant of MayReplace: what the session reports is taken for its end.
MayReplaceByStatus(s) == sessions[s].done \/ sessions[s].status \in {"idle", "failed"}

MayReplace(s) == sessions[s].done

\* The session of this source is joined and not replaced.
Joins(url, retry) ==
    /\ current # NoSession /\ sessions[current].url = url
    /\ ~retry \/ sessions[current].status = "saved" \/ ~MayReplace(current)

Busy(url) ==
    current # NoSession /\ sessions[current].url # url /\ ~MayReplace(current)

NewSession(url) ==
    /\ current < MaxSessions
    /\ current' = current + 1
    /\ Set(current + 1, [NoRecord EXCEPT !.url = url, !.status = "starting",
                                         !.ctx = IF stopping THEN "expired" ELSE "live",
                                         !.pc = "open"])

\* startLocked, up to what its caller does with the session.
StartLocked(url, retry) ==
    /\ ~Busy(url)
    /\ IF Joins(url, retry) THEN UNCHANGED sessionVars ELSE NewSession(url)

-----------------------------------------------------------------------------
(* Command *)

Commanded == commands < MaxCommands /\ commands' = commands + 1
Rest == UNCHANGED <<waiter, stopping, visits, seen>>

CommandStart(url) == Commanded /\ StartLocked(url, TRUE) /\ Rest

CommandClose(s) ==
    /\ Commanded /\ s = current
    /\ Set(s, [sessions[s] EXCEPT !.status = "idle",
                                  !.ctx = IF @ = "live" THEN "closed" ELSE @])
    /\ UNCHANGED current /\ Rest

\* Mutant of TakenOver: the step of the model that is under way goes on.
TakenOverGently(r) == [r EXCEPT !.human = TRUE, !.status = "needs_input"]

\* human, stepCancel and the status are set together.
TakenOver(r) ==
    [r EXCEPT !.human = TRUE, !.status = "needs_input",
              !.decision = IF @ = "unset" THEN "unset" ELSE "cancelled"]

CommandTakeover(s) ==
    /\ Commanded /\ s = current /\ ~sessions[s].done
    /\ Set(s, TakenOver(sessions[s]))
    /\ UNCHANGED current /\ Rest

\* With a full channel the command is refused after it took the browser over.
CommandInput(s, action) ==
    LET r == TakenOver(sessions[s]) IN
    /\ Commanded /\ s = current /\ ~sessions[s].done
    /\ IF Len(r.queue) < QueueSize
       THEN Set(s, [r EXCEPT !.queue = Append(@, action)])
       ELSE Set(s, r)
    /\ UNCHANGED current /\ Rest

-----------------------------------------------------------------------------
(* run: opening the browser and the model's steps *)

At(s, pc) == sessions[s].pc = pc
Others == UNCHANGED <<current, waiter, stopping, commands, visits>>
Go(s, r) == Set(s, r) /\ Others /\ UNCHANGED seen
Moved(s, pc) == [sessions[s] EXCEPT !.pc = pc]

Open(s) ==
    /\ At(s, "open")
    /\ \/ sessions[s].ctx = "live" /\ Go(s, Moved(s, "head"))
       \/ Go(s, Updated(Moved(s, "expire"), "failed"))

\* The loop's condition, then the first observation of the step.
NextStep(s) ==
    LET r == sessions[s] IN
    /\ At(s, "head")
    /\ \/ ~r.human /\ r.step < AutoSteps /\ r.ctx = "live" /\ Go(s, Moved(s, "working"))
       \/ Go(s, Moved(s, "handoff"))

\* Without a model the owner is asked at once.
Working(s) ==
    /\ At(s, "working")
    /\ \E pc \in {"ask", "handoff"} : Go(s, Updated(Moved(s, pc), "working"))

Ask(s) ==
    LET r == [sessions[s] EXCEPT !.decision = "live"] IN
    /\ At(s, "ask")
    /\ Go(s, [r EXCEPT !.pc = IF r.human THEN "handoff" ELSE "request"])

\* BrowserStep: one request, which a canceled context never sends.
Request(s) ==
    LET r == sessions[s] IN
    /\ At(s, "request")
    /\ IF r.decision = "live" /\ r.ctx = "live"
       THEN Go(s, Moved(s, "deciding"))
       ELSE Go(s, Moved(s, "handoff"))

AfterDecision(decision) ==
    CASE decision = "act"  -> "act"
      [] decision = "wait" -> "pause"
      [] decision = "done" -> "check"
      [] OTHER             -> "handoff"

Decide(s) ==
    LET r == sessions[s] IN
    /\ At(s, "deciding")
    /\ IF r.human THEN Go(s, Moved(s, "handoff"))
       ELSE \E d \in Decisions :
               Go(s, [r EXCEPT !.pc = AfterDecision(d), !.explicit = FALSE,
                               !.back = "handoff"])

\* Input under the context of the decision; it may fail.
Act(s) ==
    LET r == sessions[s] IN
    /\ At(s, "act")
    /\ \/ r.decision = "live" /\ r.ctx = "live" /\ Go(s, Moved(s, "pause"))
       \/ Go(s, Moved(s, "handoff"))

Pause(s) ==
    LET r == sessions[s] IN
    /\ At(s, "pause")
    /\ \/ r.ctx # "live" /\ Go(s, Moved(s, "close"))
       \/ Go(s, [r EXCEPT !.pc = "head", !.step = @ + 1])

\* The loop variables of the model's steps are not used again.
Handoff(s) ==
    /\ At(s, "handoff")
    /\ Go(s, Updated([sessions[s] EXCEPT !.pc = "loop", !.human = TRUE,
                                               !.step = 0, !.decision = "unset"], "needs_input"))

-----------------------------------------------------------------------------
(* run: the owner's browser *)

\* Mutant of Leave: the loop only watches its inputs and its ticker.
LeaveNever(s) == FALSE /\ Go(s, Moved(s, "close"))

Leave(s) == At(s, "loop") /\ sessions[s].ctx # "live" /\ Go(s, Moved(s, "close"))

\* Mutant of Obeyed: what was seen before the input still counts.
ObeyedKeeping(r) == [r EXCEPT !.queue = Tail(@), !.pc = "loop"]

\* The page is observed afresh after an input.
Obeyed(r) == [r EXCEPT !.queue = Tail(@), !.pc = "loop", !.previous = ""]

Obey(s) ==
    LET r == sessions[s] IN
    /\ At(s, "loop") /\ r.queue # <<>>
    /\ IF r.queue[1] = "capture"
       THEN Set(s, [Obeyed(r) EXCEPT !.pc = "check", !.explicit = TRUE, !.back = "loop"])
       ELSE Set(s, Obeyed(r))
    /\ seen' = [seen EXCEPT ![s] = <<>>]
    /\ Others

\* A tick observes the page, which fails without an effect once the context
\* is done; one that reads the same twice is saved.  What is not readable is
\* never compared equal, so previous need not tell such texts apart.
Observe(s, text) ==
    LET r == [sessions[s] EXCEPT !.previous = IF Readable(text) THEN text ELSE ""] IN
    /\ At(s, "loop") /\ r.ctx = "live"
    /\ IF Readable(text) /\ text = sessions[s].previous
       THEN Set(s, [r EXCEPT !.pc = "check", !.explicit = FALSE, !.back = "loop"])
       ELSE Set(s, r)
    /\ seen' = [seen EXCEPT ![s] = IF ~Readable(text) THEN <<>>
                                ELSE IF @ # <<>> /\ @[1] = text THEN <<text, text>>
                                ELSE <<text>>]
    /\ Others

-----------------------------------------------------------------------------
(* capture *)

GiveBack(s) == Go(s, [Moved(s, sessions[s].back) EXCEPT !.explicit = FALSE, !.back = "none"])

MayKeep(r, text, same) == ClearPage(text) /\ (r.explicit \/ (Readable(text) /\ same))

\* The frame, the snapshot and FromPage; each may fail.
Check(s) ==
    /\ At(s, "check")
    /\ \/ GiveBack(s)
       \/ \E text \in Texts, same \in BOOLEAN :
             /\ sessions[s].ctx = "live" /\ MayKeep(sessions[s], text, same)
             /\ Go(s, Moved(s, IF same THEN "save" ELSE "save_other"))

\* The page may be stored although an error is reported: its capture is
\* committed before ResumeRecovered is tried.
Save(s) ==
    /\ sessions[s].pc \in {"save", "save_other"}
    /\ \/ Go(s, Moved(s, "result"))
       \/ GiveBack(s)

SetResult(s) ==
    At(s, "result") /\ Go(s, [Moved(s, "announce") EXCEPT !.result = TRUE])

Announce(s) == At(s, "announce") /\ Go(s, Updated(Moved(s, "close"), "saved"))

-----------------------------------------------------------------------------
(* run: its deferred calls, last one first *)

CloseBrowser(s) == At(s, "close") /\ Go(s, Moved(s, "expire"))

Expired(s) ==
    /\ At(s, "expire")
    /\ Go(s, IF sessions[s].ctx = "live" THEN Moved(s, "done")
             ELSE Updated(Moved(s, "done"), "failed"))

\* run returns: its local variables are gone and nothing reads the inputs.
Finish(s) ==
    LET r == sessions[s] IN
    /\ At(s, "done")
    /\ Set(s, [NoRecord EXCEPT !.url = r.url, !.status = r.status, !.result = r.result,
                               !.pc = "ended", !.done = TRUE])
    /\ seen' = [seen EXCEPT ![s] = <<>>]
    /\ Others

\* The 15 minutes of the session are over.
Expire(s) ==
    /\ Live(s) /\ sessions[s].ctx = "live"
    /\ Go(s, [sessions[s] EXCEPT !.ctx = "expired"])

\* Manager.Close, when the server stops.
Shutdown ==
    /\ ~stopping /\ stopping' = TRUE
    /\ sessions' = [s \in SessionIds |->
                       IF Live(s) /\ sessions[s].ctx = "live"
                       THEN [sessions[s] EXCEPT !.ctx = "expired"] ELSE sessions[s]]
    /\ UNCHANGED <<current, waiter, commands, visits, seen>>

-----------------------------------------------------------------------------
(* Recover *)

Away == [session |-> NoSession, answer |-> "none"]
Answer(w, answer) ==
    waiter' = [waiter EXCEPT ![w] = [session |-> NoSession, answer |-> answer]]
WaiterOnly == UNCHANGED <<sessions, stopping, commands, seen, current, visits>>

\* begin.  Capturer and PageRecovery come here when a page is blocked,
\* truncated or cannot be fetched.
Visit(w, url) ==
    /\ waiter[w].session = NoSession
    /\ visits < MaxVisits /\ visits' = visits + 1
    /\ \/ Busy(url) /\ Answer(w, "busy") /\ UNCHANGED sessionVars
       \/ /\ StartLocked(url, FALSE)
          /\ waiter' = [waiter EXCEPT ![w] = [session |-> current', answer |-> "none"]]
    /\ UNCHANGED <<stopping, commands, seen>>

\* Mutant of Looked: the status is looked at before the result.
LookedAtStatus(r) ==
    IF r.status = "needs_input" THEN "needs_input" ELSE IF r.result THEN "saved" ELSE "none"

\* The result is looked at before the status, under one lock.
Looked(r) ==
    IF r.result THEN "saved" ELSE IF r.status = "needs_input" THEN "needs_input" ELSE "none"

Waiting(w) == waiter[w].session # NoSession

Look(w) ==
    /\ Waiting(w)
    /\ Looked(sessions[waiter[w].session]) # "none"
    /\ Answer(w, Looked(sessions[waiter[w].session]))
    /\ WaiterOnly

SessionOver(w) ==
    /\ Waiting(w) /\ sessions[waiter[w].session].done
    /\ Answer(w, IF sessions[waiter[w].session].result THEN "saved" ELSE "unavailable")
    /\ WaiterOnly

\* The caller's deadline or its context ends the wait and nothing else.
GiveUp(w) == Waiting(w) /\ Answer(w, "timeout") /\ WaiterOnly

-----------------------------------------------------------------------------
RecoveryInit ==
    /\ sessions = [s \in SessionIds |-> NoRecord]
    /\ current = NoSession
    /\ waiter = [w \in Waiters |-> Away]
    /\ stopping = FALSE /\ commands = 0 /\ visits = 0
    /\ seen = [s \in SessionIds |-> <<>>]

Run(s) ==
    \/ Open(s) \/ NextStep(s) \/ Working(s) \/ Ask(s) \/ Request(s) \/ Decide(s)
    \/ Act(s) \/ Pause(s) \/ Handoff(s) \/ Leave(s) \/ Obey(s)
    \/ Check(s) \/ Save(s) \/ SetResult(s) \/ Announce(s)
    \/ CloseBrowser(s) \/ Expired(s) \/ Finish(s)
    \/ \E text \in Texts : Observe(s, text)

Command(s) ==
    \/ CommandClose(s) \/ CommandTakeover(s)
    \/ \E action \in Queued : CommandInput(s, action)

Recover(w) == Look(w) \/ SessionOver(w)

Next ==
    \/ \E url \in Sources : CommandStart(url)
    \/ \E s \in SessionIds : Command(s) \/ Run(s) \/ Expire(s)
    \/ \E w \in Waiters, url \in Sources : Visit(w, url)
    \/ \E w \in Waiters : Recover(w) \/ GiveUp(w)
    \/ Shutdown

Spec == RecoveryInit /\ [][Next]_vars

\* The goroutine goes on: Frame, Input, Snapshot, the model and the library
\* have timeouts of their own.  The timer of a session fires.  Nothing is
\* asked of the owner or of a waiter's own deadline.
Fairness ==
    /\ \A s \in SessionIds :
          WF_vars(Run(s)) /\ WF_vars(Expire(s))
    /\ \A w \in Waiters : WF_vars(Recover(w))

FairSpec == Spec /\ Fairness

-----------------------------------------------------------------------------
(* Properties *)

\* At most one browser is open: a second one would write the profile of the
\* first (docs/browser-recovery.md).  A session that reports idle or failed
\* still has its browser until run has closed it.
OneBrowser == Cardinality({s \in SessionIds : Live(s)}) <= 1

\* After the owner has taken over, the model is not asked and does not touch
\* the page any more, whatever run was doing when the command came.
TakeoverHolds ==
    [][\A s \in SessionIds :
          LET asked == At(s, "request") /\ sessions'[s].pc = "deciding"
              acted == At(s, "act") /\ sessions'[s].pc = "pause"
          IN  asked \/ acted => ~sessions[s].human]_vars

\* A page that nobody asked to save is saved at its own address only, and in
\* the owner's browser only after it read the same twice since the last input.
SavedUnaskedWhenStill ==
    \A s \in SessionIds :
        LET r == sessions[s] IN
        /\ r.pc = "save_other" => r.explicit
        /\ r.pc \in {"save", "save_other"} /\ ~r.explicit /\ r.back = "loop"
              => Len(seen[s]) = 2

\* Once the page is there, no waiter of its session is sent away without it:
\* a late command sets the status back to needs_input and an expiry sets it
\* to failed, and neither hides the result.
SavedPageIsHandedOver ==
    [][\A w \in Waiters :
          waiter'[w].answer \in {"needs_input", "unavailable"} /\ Waiting(w)
             => ~sessions[waiter[w].session].result]_vars

\* Every session comes to its end and gives the browser back, also when the
\* owner leaves it, closes it or the server stops.
SessionEnds == \A s \in SessionIds : Live(s) ~> ~Live(s)

=============================================================================
