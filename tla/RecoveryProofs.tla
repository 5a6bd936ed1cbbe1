--------------------------- MODULE RecoveryProofs ---------------------------
(***************************************************************************)
(* One browser, and one hand on it, for any number of sessions, owners'    *)
(* commands and waiting callers.                                           *)
(***************************************************************************)
EXTENDS RecoverySession, FiniteSetTheorems, TLAPS

Statuses == {"none", "starting", "working", "needs_input", "saved", "failed", "idle"}
Calm == {"head", "working", "ask", "handoff", "loop", "close", "expire", "done",
         "result", "announce", "open", "ended"}
Pcs == Calm \cup {"none", "request", "deciding", "act", "pause", "check", "save",
                  "save_other"}
Answers == {"none", "busy", "saved", "needs_input", "unavailable", "timeout"}

SessionRecord ==
    [url : Sources \cup {"none"}, status : Statuses, human : BOOLEAN,
     decision : {"unset", "live", "cancelled"}, queue : Seq(Queued),
     ctx : {"live", "closed", "expired"}, done : BOOLEAN, result : BOOLEAN,
     pc : Pcs, step : Nat, previous : Texts \cup {""}, explicit : BOOLEAN,
     back : {"none", "handoff", "loop"}]

RecoveryTypeOK ==
    /\ sessions \in [SessionIds -> SessionRecord]
    /\ current \in 0..MaxSessions
    /\ waiter \in [Waiters -> [session : 0..MaxSessions, answer : Answers]]
    /\ seen \in [SessionIds -> Seq(Texts)]

\* A decision of the model that the owner has overruled is cancelled; what is
\* to be saved unasked was seen twice.
Sound(r, q) ==
    /\ r.pc \in {"request", "deciding", "act"} =>
          r.decision # "unset" /\ (r.human => r.decision = "cancelled")
    /\ r.previous # "" => q # <<>> /\ q[1] = r.previous
    /\ r.pc \in {"check", "save", "save_other"} /\ ~r.explicit /\ r.back = "loop"
          => Len(q) = 2
    /\ r.pc = "save_other" => r.explicit
    /\ r.pc \in {"check", "save", "save_other"} => r.back \in {"handoff", "loop"}

\* Sessions are started one after the other, the next when the last is done.
OneAfterTheOther ==
    \A s \in SessionIds :
        /\ s < current => sessions[s].done
        /\ s > current => sessions[s].status = "none" /\ sessions[s].pc = "none"

\* The inductive invariant.
RecoveryInv ==
    /\ RecoveryTypeOK
    /\ OneAfterTheOther
    /\ \A s \in SessionIds : Sound(sessions[s], seen[s])
    /\ \A w \in Waiters : waiter[w].session # NoSession =>
          waiter[w].answer = "none" /\ waiter[w].session \in SessionIds

\* What a step may make of the record of a session that was started.
Follows(r, n, q) ==
    /\ n \in SessionRecord /\ q \in Seq(Texts) /\ Sound(n, q)
    /\ r.done => n.done
    /\ r.pc = "request" /\ n.pc = "deciding" => ~r.human
    /\ r.pc = "act" /\ n.pc = "pause" => ~r.human

\* A step of one session and of nothing else.
OneMoves(s) ==
    \E n, q :
        /\ Follows(sessions[s], n, q)
        /\ sessions[s].pc # "none" \/ sessions[s].status # "none" \/ s = current
        /\ sessions' = [sessions EXCEPT ![s] = n]
        /\ seen' = [seen EXCEPT ![s] = q]
        /\ UNCHANGED <<current, waiter>>

-----------------------------------------------------------------------------
(* The steps of run and the commands *)

\* A step that does not observe the page.
LEMMA GoMoves ==
  ASSUME RecoveryTypeOK, NEW s \in SessionIds, NEW n,
         sessions[s].pc # "none" \/ sessions[s].status # "none" \/ s = current,
         Go(s, n), Follows(sessions[s], n, seen[s])
  PROVE  OneMoves(s)
<1>1. seen' = [seen EXCEPT ![s] = seen[s]]
  BY DEF Go, RecoveryTypeOK
<1> QED BY <1>1 DEF OneMoves, Go, Set, Others

LEMMA SetMoves ==
  ASSUME RecoveryTypeOK, NEW s \in SessionIds, NEW n,
         sessions[s].pc # "none" \/ sessions[s].status # "none" \/ s = current,
         Set(s, n), UNCHANGED <<current, waiter, seen>>, Follows(sessions[s], n, seen[s])
  PROVE  OneMoves(s)
<1>1. seen' = [seen EXCEPT ![s] = seen[s]]
  BY DEF RecoveryTypeOK
<1> QED BY <1>1 DEF OneMoves, Set

LEMMA UpdatedKeeps ==
  ASSUME NEW r \in SessionRecord, NEW status \in Statuses
  PROVE  /\ Updated(r, status) \in SessionRecord
         /\ Updated(r, status).pc = r.pc /\ Updated(r, status).done = r.done
         /\ Updated(r, status).previous = r.previous
  BY ZenonT(60) DEF Updated, SessionRecord

\* Most steps lead to where neither the model acts nor a page is saved.
LEMMA CalmFollows ==
  ASSUME NEW r, NEW n \in SessionRecord, NEW q \in Seq(Texts), Sound(r, q),
         n.previous = r.previous, n.done = r.done,
         n.pc \notin {"request", "deciding", "act", "pause", "check", "save", "save_other"}
  PROVE  Follows(r, n, q)
  BY DEF Follows, Sound

LEMMA MovedKeeps ==
  ASSUME RecoveryTypeOK, NEW s \in SessionIds, NEW pc \in Pcs
  PROVE  /\ Moved(s, pc) \in SessionRecord
         /\ Moved(s, pc).pc = pc /\ Moved(s, pc).done = sessions[s].done
         /\ Moved(s, pc).previous = sessions[s].previous
         /\ Moved(s, pc).human = sessions[s].human
         /\ Moved(s, pc).decision = sessions[s].decision
         /\ Moved(s, pc).explicit = sessions[s].explicit
         /\ Moved(s, pc).back = sessions[s].back
<1>1. sessions[s] \in SessionRecord
  BY DEF RecoveryTypeOK
<1> QED BY <1>1 DEF Moved, SessionRecord

LEMMA GoCalm ==
  ASSUME RecoveryInv, NEW s \in SessionIds, sessions[s].pc # "none",
         NEW n \in SessionRecord, n.pc \in Calm, n.done = sessions[s].done,
         n.previous = sessions[s].previous, Go(s, n)
  PROVE  OneMoves(s)
<1>1. RecoveryTypeOK /\ seen[s] \in Seq(Texts) /\ Sound(sessions[s], seen[s])
  BY DEF RecoveryInv, RecoveryTypeOK
<1>2. Follows(sessions[s], n, seen[s])
  BY <1>1, CalmFollows DEF Calm
<1> QED BY <1>1, <1>2, GoMoves

\* The two forms most calm steps have.
LEMMA GoMoved ==
  ASSUME RecoveryInv, NEW s \in SessionIds, sessions[s].pc # "none",
         NEW pc \in Calm, Go(s, Moved(s, pc))
  PROVE  OneMoves(s)
<1>1. pc \in Pcs
  BY DEF Pcs
<1>2. RecoveryTypeOK
  BY DEF RecoveryInv
<1> QED BY <1>1, <1>2, MovedKeeps, GoCalm

LEMMA GoUpdated ==
  ASSUME RecoveryInv, NEW s \in SessionIds, sessions[s].pc # "none",
         NEW pc \in Calm, NEW status \in Statuses, Go(s, Updated(Moved(s, pc), status))
  PROVE  OneMoves(s)
<1>1. pc \in Pcs
  BY DEF Pcs
<1>2. RecoveryTypeOK
  BY DEF RecoveryInv
<1>3. Moved(s, pc) \in SessionRecord
  BY <1>1, <1>2, MovedKeeps
<1> QED BY <1>1, <1>2, <1>3, MovedKeeps, UpdatedKeeps, GoCalm

LEMMA StepsMove ==
  ASSUME RecoveryInv, NEW s \in SessionIds,
         \/ Open(s) \/ NextStep(s) \/ Working(s) \/ Leave(s) \/ Announce(s)
         \/ CloseBrowser(s) \/ Expired(s)
  PROVE  OneMoves(s)
<1>1. CASE Open(s)
  BY <1>1, GoMoved, GoUpdated DEF Open, At, Calm, Statuses
<1>2. CASE NextStep(s)
  BY <1>2, GoMoved DEF NextStep, At, Calm, Statuses
<1>3. CASE Working(s)
  BY <1>3, GoUpdated DEF Working, At, Calm, Statuses
<1>4. CASE Leave(s)
  BY <1>4, GoMoved DEF Leave, At, Calm, Statuses
<1>5. CASE Announce(s)
  BY <1>5, GoUpdated DEF Announce, At, Calm, Statuses
<1>6. CASE CloseBrowser(s)
  BY <1>6, GoMoved DEF CloseBrowser, At, Calm, Statuses
<1>7. CASE Expired(s)
  BY <1>7, GoMoved, GoUpdated DEF Expired, At, Calm, Statuses
<1> QED BY <1>1, <1>2, <1>3, <1>4, <1>5, <1>6, <1>7

LEMMA GiveBackMoves ==
  ASSUME RecoveryInv, NEW s \in SessionIds,
         sessions[s].pc \in {"check", "save", "save_other"}, GiveBack(s)
  PROVE  OneMoves(s)
<1> DEFINE n == [Moved(s, sessions[s].back) EXCEPT !.explicit = FALSE, !.back = "none"]
<1>1. sessions[s].back \in {"handoff", "loop"}
  BY DEF RecoveryInv, Sound
<1>2. RecoveryTypeOK /\ sessions[s].back \in Pcs /\ sessions[s].back \in Calm
  BY <1>1 DEF RecoveryInv, Pcs, Calm
<1>3. Moved(s, sessions[s].back) \in SessionRecord
  BY <1>2, MovedKeeps
<1>4. n \in SessionRecord /\ n.pc = Moved(s, sessions[s].back).pc
      /\ n.done = Moved(s, sessions[s].back).done
      /\ n.previous = Moved(s, sessions[s].back).previous
  BY <1>3 DEF SessionRecord
<1>5. n.pc \in Calm /\ n.done = sessions[s].done /\ n.previous = sessions[s].previous
  BY <1>2, <1>4, MovedKeeps
<1>6. Go(s, n)
  BY DEF GiveBack
<1> QED BY <1>4, <1>5, <1>6, GoCalm

\* The steps of the model: what the owner overruled is not carried out.
LEMMA ModelMoves ==
  ASSUME RecoveryInv, NEW s \in SessionIds,
         Ask(s) \/ Request(s) \/ Decide(s) \/ Act(s) \/ Pause(s) \/ Handoff(s)
  PROVE  OneMoves(s)
<1> DEFINE r == sessions[s]
<1>0. /\ RecoveryTypeOK /\ r \in SessionRecord /\ seen[s] \in Seq(Texts)
      /\ Sound(r, seen[s])
  BY DEF RecoveryInv, RecoveryTypeOK
<1>1. CASE Ask(s)
  <2> DEFINE n == [[r EXCEPT !.decision = "live"]
                     EXCEPT !.pc = IF r.human THEN "handoff" ELSE "request"]
  <2>1. Go(s, n) /\ r.pc = "ask"
    BY <1>0, <1>1 DEF Ask, At, SessionRecord
  <2>2. n \in SessionRecord
    BY <1>0, ZenonT(60) DEF SessionRecord, Pcs, Calm
  <2>3. Sound(n, seen[s]) /\ n.done = r.done
    BY <1>0 DEF SessionRecord, Sound
  <2>4. Follows(r, n, seen[s])
    BY <1>0, <2>1, <2>2, <2>3 DEF Follows
  <2> QED BY <1>0, <2>1, <2>4, GoMoves
<1>2. CASE Request(s)
  <2>1. CASE r.decision = "live" /\ r.ctx = "live"
    <3>1. Go(s, Moved(s, "deciding")) /\ r.pc = "request"
      BY <1>2, <2>1 DEF Request, At
    <3>2. "deciding" \in Pcs
      BY DEF Pcs
    <3>3. Follows(r, Moved(s, "deciding"), seen[s])
      BY <1>0, <2>1, <3>1, <3>2, MovedKeeps DEF Follows, Sound
    <3> QED BY <1>0, <3>1, <3>3, GoMoves
  <2>2. CASE ~(r.decision = "live" /\ r.ctx = "live")
    BY <1>2, <2>2, GoMoved DEF Request, At, Calm
  <2> QED BY <2>1, <2>2
<1>3. CASE Decide(s)
  <2>0. r.pc = "deciding"
    BY <1>3 DEF Decide, At
  <2>1. CASE r.human
    BY <1>3, <2>0, <2>1, GoMoved DEF Decide, Calm
  <2>2. CASE ~r.human
    <3>1. PICK d \in Decisions :
             Go(s, [r EXCEPT !.pc = AfterDecision(d), !.explicit = FALSE, !.back = "handoff"])
      BY <1>3, <2>2 DEF Decide
    <3> DEFINE n == [r EXCEPT !.pc = AfterDecision(d), !.explicit = FALSE,
                              !.back = "handoff"]
    <3>2. AfterDecision(d) \in {"act", "pause", "check", "handoff"}
      BY DEF AfterDecision
    <3>3. AfterDecision(d) \in Pcs
      BY <3>2 DEF Pcs, Calm
    <3>4. n \in SessionRecord
      BY <1>0, <3>3 DEF SessionRecord
    <3>5. /\ n.pc = AfterDecision(d) /\ n.done = r.done /\ n.previous = r.previous
          /\ n.human = r.human /\ n.decision = r.decision /\ n.back = "handoff"
      BY <1>0 DEF SessionRecord
    <3>6. Sound(n, seen[s])
      BY <1>0, <2>0, <3>2, <3>5 DEF Sound
    <3>7. Follows(r, n, seen[s])
      BY <1>0, <2>0, <3>4, <3>5, <3>6 DEF Follows
    <3> QED BY <1>0, <2>0, <3>1, <3>7, GoMoves
  <2> QED BY <2>1, <2>2
<1>4. CASE Act(s)
  <2>1. CASE r.decision = "live" /\ Go(s, Moved(s, "pause"))
    <3>1. r.pc = "act" /\ "pause" \in Pcs
      BY <1>4 DEF Act, At, Pcs
    <3>2. Follows(r, Moved(s, "pause"), seen[s])
      BY <1>0, <2>1, <3>1, MovedKeeps DEF Follows, Sound
    <3> QED BY <1>0, <2>1, <3>1, <3>2, GoMoves
  <2>2. CASE Go(s, Moved(s, "handoff"))
    BY <1>4, <2>2, GoMoved DEF Act, At, Calm
  <2> QED BY <1>4, <2>1, <2>2 DEF Act
<1>5. CASE Pause(s)
  <2>1. CASE Go(s, Moved(s, "close"))
    BY <1>5, <2>1, GoMoved DEF Pause, At, Calm
  <2>2. CASE Go(s, [r EXCEPT !.pc = "head", !.step = @ + 1])
    <3> DEFINE n == [r EXCEPT !.pc = "head", !.step = @ + 1]
    <3>a. r.step \in Nat
      BY <1>0 DEF SessionRecord
    <3>b. r.step + 1 \in Nat
      BY <3>a
    <3>c. "head" \in Pcs /\ "head" \in Calm
      BY DEF Pcs, Calm
    <3>1. n \in SessionRecord /\ n.pc \in Calm /\ n.done = r.done /\ n.previous = r.previous
      BY <1>0, <3>b, <3>c DEF SessionRecord
    <3>2. r.pc # "none"
      BY <1>5 DEF Pause, At
    <3> QED BY <2>2, <3>1, <3>2, GoCalm
  <2> QED BY <1>5, <2>1, <2>2 DEF Pause
<1>6. CASE Handoff(s)
  <2> DEFINE b == [r EXCEPT !.pc = "loop", !.human = TRUE, !.step = 0, !.decision = "unset"]
             n == Updated(b, "needs_input")
  <2>1. b \in SessionRecord /\ b.pc \in Calm /\ b.done = r.done /\ b.previous = r.previous
    BY <1>0, ZenonT(60) DEF SessionRecord, Pcs, Calm
  <2>2. n \in SessionRecord /\ n.pc \in Calm /\ n.done = r.done /\ n.previous = r.previous
    BY <2>1, UpdatedKeeps DEF Statuses
  <2>3. Go(s, n) /\ r.pc # "none"
    BY <1>6 DEF Handoff, At
  <2> QED BY <2>2, <2>3, GoCalm
<1> QED BY <1>1, <1>2, <1>3, <1>4, <1>5, <1>6

LEMMA Sequences ==
  /\ \A q \in Seq(Queued) : q # <<>> => Tail(q) \in Seq(Queued)
  /\ \A q \in Seq(Queued), a \in Queued : Append(q, a) \in Seq(Queued)
  /\ \A text \in Texts : <<text>> \in Seq(Texts) /\ <<text, text>> \in Seq(Texts)
  /\ <<>> \in Seq(Texts) /\ <<>> \in Seq(Queued)
  OBVIOUS

\* The owner's browser: what is saved unasked was seen twice.
LEMMA ObeyMoves ==
  ASSUME RecoveryInv, NEW s \in SessionIds, Obey(s)
  PROVE  OneMoves(s)
<1> DEFINE r == sessions[s]
           n == IF r.queue[1] = "capture"
                THEN [Obeyed(r) EXCEPT !.pc = "check", !.explicit = TRUE, !.back = "loop"]
                ELSE Obeyed(r)
<1>0. RecoveryTypeOK /\ r \in SessionRecord /\ r.pc = "loop" /\ r.queue # <<>>
  BY DEF RecoveryInv, RecoveryTypeOK, Obey, At
<1>a. r.queue \in Seq(Queued)
  BY <1>0 DEF SessionRecord
<1>1. Tail(r.queue) \in Seq(Queued)
  BY <1>0, <1>a, Sequences
<1>2. Obeyed(r) \in SessionRecord /\ Obeyed(r).previous = "" /\ Obeyed(r).pc = "loop"
      /\ Obeyed(r).done = r.done
  BY <1>0, <1>1 DEF SessionRecord, Obeyed, Pcs, Calm
<1>3. n \in SessionRecord /\ n.previous = "" /\ n.done = r.done
      /\ (n.pc = "loop" \/ (n.pc = "check" /\ n.explicit /\ n.back = "loop"))
  BY <1>2, ZenonT(60) DEF SessionRecord, Pcs
<1>4. Follows(r, n, <<>>)
  <2> HIDE DEF n
  <2>1. Sound(n, <<>>)
    BY <1>3 DEF Sound
  <2> QED BY <1>0, <1>3, <2>1, Sequences DEF Follows
<1>5. sessions' = [sessions EXCEPT ![s] = n] /\ seen' = [seen EXCEPT ![s] = <<>>]
      /\ UNCHANGED <<current, waiter>>
  BY DEF Obey, Set, Others
<1> QED BY <1>0, <1>4, <1>5 DEF OneMoves

LEMMA ObserveMoves ==
  ASSUME RecoveryInv, NEW s \in SessionIds, NEW text \in Texts, Observe(s, text)
  PROVE  OneMoves(s)
<1> DEFINE r == sessions[s]
           p == [r EXCEPT !.previous = IF Readable(text) THEN text ELSE ""]
           twice == Readable(text) /\ text = r.previous
           n == IF twice THEN [p EXCEPT !.pc = "check", !.explicit = FALSE, !.back = "loop"]
                ELSE p
           q == IF ~Readable(text) THEN <<>>
                ELSE IF seen[s] # <<>> /\ seen[s][1] = text THEN <<text, text>>
                ELSE <<text>>
<1>0. /\ RecoveryTypeOK /\ r \in SessionRecord /\ Sound(r, seen[s]) /\ r.pc = "loop"
      /\ seen[s] \in Seq(Texts)
  BY DEF RecoveryInv, RecoveryTypeOK, Observe, At
<1>1. text # ""
  BY DEF Texts
<1>2. /\ p \in SessionRecord /\ p.previous = (IF Readable(text) THEN text ELSE "")
      /\ p.pc = "loop" /\ p.done = r.done
  BY <1>0, <1>1 DEF SessionRecord
<1>3. /\ n \in SessionRecord /\ n.previous = p.previous /\ n.done = r.done
      /\ n.pc = "loop" \/ (twice /\ n.pc = "check" /\ n.back = "loop")
  <2>1. CASE twice
    <3> HIDE DEF p, twice
    <3> QED BY <1>2, <2>1 DEF SessionRecord, Pcs
  <2>2. CASE ~twice
    <3> HIDE DEF p, twice
    <3> QED BY <1>2, <2>2
  <2> QED BY <2>1, <2>2
<1>4. twice => q = <<text, text>>
  BY <1>0, <1>1 DEF Sound
<1>5. q \in Seq(Texts) /\ (Readable(text) => q # <<>> /\ q[1] = text)
  <2>1. CASE ~Readable(text)
    BY <2>1, Sequences
  <2>2. CASE Readable(text) /\ seen[s] # <<>> /\ seen[s][1] = text
    BY <2>2, Sequences
  <2>3. CASE Readable(text) /\ ~(seen[s] # <<>> /\ seen[s][1] = text)
    BY <2>3, Sequences
  <2> QED BY <2>1, <2>2, <2>3
<1>6. Sound(n, q)
  BY <1>2, <1>3, <1>4, <1>5 DEF Sound
<1>7. Follows(r, n, q)
  BY <1>0, <1>3, <1>5, <1>6 DEF Follows
<1>8. sessions' = [sessions EXCEPT ![s] = n] /\ UNCHANGED <<current, waiter>>
  BY DEF Observe, Set, Others
<1>9. seen' = [seen EXCEPT ![s] = q]
  BY DEF Observe
<1> QED BY <1>0, <1>7, <1>8, <1>9 DEF OneMoves

LEMMA SaveMoves ==
  ASSUME RecoveryInv, NEW s \in SessionIds, Check(s) \/ Save(s) \/ SetResult(s)
  PROVE  OneMoves(s)
<1> DEFINE r == sessions[s]
<1>0. /\ RecoveryTypeOK /\ r \in SessionRecord /\ seen[s] \in Seq(Texts)
      /\ Sound(r, seen[s])
  BY DEF RecoveryInv, RecoveryTypeOK
<1>1. CASE Check(s)
  <2>1. CASE GiveBack(s)
    BY <1>1, <2>1, GiveBackMoves DEF Check, At
  <2>2. CASE ~GiveBack(s)
    <3>1. PICK text \in Texts, same \in BOOLEAN :
             /\ MayKeep(r, text, same)
             /\ Go(s, Moved(s, IF same THEN "save" ELSE "save_other"))
      BY <1>1, <2>2 DEF Check
    <3> DEFINE pc == IF same THEN "save" ELSE "save_other"
    <3>2. pc \in {"save", "save_other"} /\ pc \in Pcs
      BY DEF Pcs
    <3>3. r.pc = "check" /\ (pc = "save_other" => r.explicit)
      BY <1>1, <3>1 DEF Check, At, MayKeep
    <3>4. Sound(Moved(s, pc), seen[s])
      <4> HIDE DEF pc
      <4> QED BY <1>0, <3>2, <3>3, MovedKeeps DEF Sound
    <3>5. Follows(r, Moved(s, pc), seen[s])
      <4> HIDE DEF pc
      <4> QED BY <1>0, <3>2, <3>3, <3>4, MovedKeeps DEF Follows
    <3> QED BY <1>0, <3>1, <3>3, <3>5, GoMoves
  <2> QED BY <2>1, <2>2
<1>2. CASE Save(s)
  BY <1>2, GoMoved, GiveBackMoves DEF Save, Calm
<1>3. CASE SetResult(s)
  <2> DEFINE n == [Moved(s, "announce") EXCEPT !.result = TRUE]
  <2>1. Moved(s, "announce") \in SessionRecord /\ Moved(s, "announce").pc = "announce"
        /\ Moved(s, "announce").done = r.done /\ Moved(s, "announce").previous = r.previous
    BY <1>0, MovedKeeps DEF Pcs, Calm
  <2>2. n \in SessionRecord /\ n.pc \in Calm /\ n.done = r.done /\ n.previous = r.previous
    BY <2>1 DEF SessionRecord, Calm
  <2>3. Go(s, n) /\ r.pc # "none"
    BY <1>3 DEF SetResult, At
  <2> QED BY <2>2, <2>3, GoCalm
<1> QED BY <1>1, <1>2, <1>3

LEMMA FinishMoves ==
  ASSUME RecoveryInv, NEW s \in SessionIds, Finish(s)
  PROVE  OneMoves(s)
<1> DEFINE r == sessions[s]
           n == [NoRecord EXCEPT !.url = r.url, !.status = r.status, !.result = r.result,
                                 !.pc = "ended", !.done = TRUE]
<1>1. RecoveryTypeOK /\ r \in SessionRecord /\ r.pc = "done"
  BY DEF RecoveryInv, RecoveryTypeOK, Finish, At
<1>a. "ended" \in Pcs
  BY DEF Pcs, Calm
<1>2. n \in SessionRecord /\ n.done /\ n.pc = "ended" /\ n.previous = ""
  BY <1>1, <1>a, Sequences, ZenonT(60) DEF SessionRecord, NoRecord
<1>3. Follows(r, n, <<>>)
  <2> HIDE DEF n
  <2>1. Sound(n, <<>>)
    BY <1>2 DEF Sound
  <2> QED BY <1>1, <1>2, <2>1, Sequences DEF Follows
<1>4. sessions' = [sessions EXCEPT ![s] = n] /\ seen' = [seen EXCEPT ![s] = <<>>]
      /\ UNCHANGED <<current, waiter>>
  BY DEF Finish, Set, Others
<1> QED BY <1>1, <1>3, <1>4 DEF OneMoves

LEMMA RunMoves ==
  ASSUME RecoveryInv, NEW s \in SessionIds, Run(s)
  PROVE  OneMoves(s)
  BY StepsMove, ModelMoves, ObeyMoves, ObserveMoves, SaveMoves, FinishMoves DEF Run

\* A takeover overrules the decision that is under way.
LEMMA TakenOverFollows ==
  ASSUME NEW r \in SessionRecord, NEW q \in Seq(Texts), Sound(r, q)
  PROVE  /\ TakenOver(r) \in SessionRecord /\ TakenOver(r).queue = r.queue
         /\ Follows(r, TakenOver(r), q)
<1>1. /\ TakenOver(r) \in SessionRecord /\ TakenOver(r).queue = r.queue
      /\ TakenOver(r).pc = r.pc /\ TakenOver(r).done = r.done
      /\ TakenOver(r).previous = r.previous /\ TakenOver(r).back = r.back
      /\ TakenOver(r).explicit = r.explicit
      /\ r.decision # "unset" => TakenOver(r).decision = "cancelled"
  BY ZenonT(60) DEF TakenOver, SessionRecord, Statuses
<1>2. Sound(TakenOver(r), q)
  BY <1>1 DEF Sound
<1> QED BY <1>1, <1>2 DEF Follows

\* Only the context, the status or the queue changes.
LEMMA OutsideFollows ==
  ASSUME NEW r \in SessionRecord, NEW q \in Seq(Texts), Sound(r, q),
         NEW status \in Statuses, NEW ctx \in {"live", "closed", "expired"},
         NEW queue \in Seq(Queued),
         NEW n, n = [r EXCEPT !.status = status, !.ctx = ctx, !.queue = queue]
  PROVE  Follows(r, n, q)
<1>1. /\ n \in SessionRecord /\ n.pc = r.pc /\ n.done = r.done /\ n.human = r.human
      /\ n.previous = r.previous /\ n.back = r.back /\ n.explicit = r.explicit
      /\ n.decision = r.decision
  BY DEF SessionRecord
<1>2. Sound(n, q)
  BY <1>1 DEF Sound
<1> QED BY <1>1, <1>2 DEF Follows

LEMMA ExpiredFollows ==
  ASSUME NEW r \in SessionRecord, NEW q \in Seq(Texts), Sound(r, q)
  PROVE  Follows(r, [r EXCEPT !.ctx = "expired"], q)
<1>1. /\ r.status \in Statuses /\ r.queue \in Seq(Queued)
      /\ [r EXCEPT !.ctx = "expired"]
           = [r EXCEPT !.status = r.status, !.ctx = "expired", !.queue = r.queue]
  BY DEF SessionRecord
<1> QED BY <1>1, OutsideFollows

LEMMA CommandMoves ==
  ASSUME RecoveryInv, NEW s \in SessionIds, Command(s)
  PROVE  OneMoves(s)
<1> DEFINE r == sessions[s]
<1>0. /\ RecoveryTypeOK /\ r \in SessionRecord /\ seen[s] \in Seq(Texts)
      /\ Sound(r, seen[s])
  BY DEF RecoveryInv, RecoveryTypeOK
<1>q. r.queue \in Seq(Queued) /\ r.ctx \in {"live", "closed", "expired"}
  BY <1>0 DEF SessionRecord
<1>1. CASE CommandClose(s)
  <2> DEFINE c == IF r.ctx = "live" THEN "closed" ELSE r.ctx
             n == [r EXCEPT !.status = "idle", !.ctx = IF @ = "live" THEN "closed" ELSE @]
  <2>1. c \in {"live", "closed", "expired"} /\ "idle" \in Statuses
    BY <1>q DEF Statuses
  <2>2. n = [r EXCEPT !.status = "idle", !.ctx = c, !.queue = r.queue]
    BY <1>0 DEF SessionRecord
  <2>3. Follows(r, n, seen[s])
    <3> HIDE DEF c, n
    <3> QED BY <1>0, <1>q, <2>1, <2>2, OutsideFollows
  <2>4. Set(s, n) /\ UNCHANGED <<current, waiter, seen>> /\ s = current
    BY <1>1 DEF CommandClose, Rest
  <2> QED BY <1>0, <2>3, <2>4, SetMoves
<1>2. CASE CommandTakeover(s)
  <2>1. Set(s, TakenOver(r)) /\ UNCHANGED <<current, waiter, seen>> /\ s = current
    BY <1>2 DEF CommandTakeover, Rest
  <2> QED BY <1>0, <2>1, TakenOverFollows, SetMoves
<1>3. ASSUME NEW action \in Queued, CommandInput(s, action)
      PROVE  OneMoves(s)
  <2>0. /\ UNCHANGED <<current, waiter, seen>> /\ s = current
        /\ \/ Set(s, TakenOver(r))
           \/ Set(s, [TakenOver(r) EXCEPT !.queue = Append(@, action)])
    BY <1>3 DEF CommandInput, Rest
  <2>1. CASE Set(s, TakenOver(r))
    BY <1>0, <2>0, <2>1, TakenOverFollows, SetMoves
  <2>2. CASE Set(s, [TakenOver(r) EXCEPT !.queue = Append(@, action)])
    <3> DEFINE b == TakenOver(r)
               n == [b EXCEPT !.queue = Append(@, action)]
    <3>1. b \in SessionRecord /\ b.queue = r.queue /\ Follows(r, b, seen[s])
      BY <1>0, TakenOverFollows
    <3>2. Sound(b, seen[s])
      BY <3>1 DEF Follows
    <3>3. Append(r.queue, action) \in Seq(Queued)
      BY <1>q, Sequences
    <3>4. /\ b.status \in Statuses /\ b.ctx \in {"live", "closed", "expired"}
          /\ n = [b EXCEPT !.status = b.status, !.ctx = b.ctx,
                           !.queue = Append(r.queue, action)]
      <4> HIDE DEF b
      <4> QED BY <3>1 DEF SessionRecord
    <3>5. Follows(b, n, seen[s])
      <4> HIDE DEF b, n
      <4> QED BY <1>0, <3>1, <3>2, <3>3, <3>4, OutsideFollows
    <3>6. Follows(r, n, seen[s])
      <4>1. n.pc = b.pc /\ b.pc = r.pc
        BY <1>0, <3>1 DEF TakenOver, SessionRecord
      <4> HIDE DEF b, n
      <4> QED BY <3>1, <3>5, <4>1 DEF Follows
    <3> QED BY <1>0, <2>0, <2>2, <3>6, SetMoves
  <2> QED BY <2>0, <2>1, <2>2
<1> QED BY <1>1, <1>2, <1>3 DEF Command

LEMMA ExpireMoves ==
  ASSUME RecoveryInv, NEW s \in SessionIds, Expire(s)
  PROVE  OneMoves(s)
<1>0. /\ RecoveryTypeOK /\ sessions[s] \in SessionRecord /\ seen[s] \in Seq(Texts)
      /\ Sound(sessions[s], seen[s])
  BY DEF RecoveryInv, RecoveryTypeOK
<1>1. Go(s, [sessions[s] EXCEPT !.ctx = "expired"]) /\ sessions[s].status # "none"
  BY DEF Expire, Live
<1>2. Follows(sessions[s], [sessions[s] EXCEPT !.ctx = "expired"], seen[s])
  BY <1>0, ExpiredFollows
<1> QED BY <1>0, <1>1, <1>2, GoMoves

-----------------------------------------------------------------------------
(* The invariant is kept *)

LEMMA OneMovesKeeps ==
  ASSUME RecoveryInv, NEW s \in SessionIds, OneMoves(s)
  PROVE  RecoveryInv'
<1>1. PICK n, q :
        /\ Follows(sessions[s], n, q)
        /\ sessions[s].pc # "none" \/ sessions[s].status # "none" \/ s = current
        /\ sessions' = [sessions EXCEPT ![s] = n]
        /\ seen' = [seen EXCEPT ![s] = q]
        /\ UNCHANGED <<current, waiter>>
  BY DEF OneMoves
<1>2. RecoveryTypeOK
  BY DEF RecoveryInv
<1>3. RecoveryTypeOK'
  BY <1>1, <1>2 DEF RecoveryTypeOK, Follows
<1>4. \A t \in SessionIds : t # s => sessions'[t] = sessions[t] /\ seen'[t] = seen[t]
  BY <1>1, <1>2 DEF RecoveryTypeOK
<1>5. sessions'[s] = n /\ seen'[s] = q
  BY <1>1, <1>2 DEF RecoveryTypeOK
<1>6. ~(s > current) /\ (s < current => sessions[s].done)
  <2>1. s \in Int /\ current \in Int
    BY <1>2 DEF RecoveryTypeOK, SessionIds
  <2> QED BY <1>1, <2>1 DEF RecoveryInv, OneAfterTheOther
<1>7. OneAfterTheOther'
  BY <1>1, <1>4, <1>5, <1>6 DEF RecoveryInv, OneAfterTheOther, Follows
<1>8. \A t \in SessionIds : Sound(sessions'[t], seen'[t])
  BY <1>1, <1>4, <1>5 DEF RecoveryInv, Follows
<1> QED BY <1>1, <1>3, <1>7, <1>8 DEF RecoveryInv

\* A session is only replaced when its browser was closed.
LEMMA StartReplacesDone ==
  ASSUME RecoveryInv, NEW url \in Sources, NEW retry \in BOOLEAN,
         StartLocked(url, retry)
  PROVE  \/ UNCHANGED sessionVars /\ current \in SessionIds
         \/ NewSession(url) /\ (current \in SessionIds => sessions[current].done)
<1>0. MaxSessions \in Nat /\ current \in 0..MaxSessions
  BY RecoveryAssumption DEF RecoveryInv, RecoveryTypeOK
<1>1. CASE Joins(url, retry)
  BY <1>0, <1>1 DEF StartLocked, Joins, SessionIds, NoSession
<1>2. CASE ~Joins(url, retry)
  <2>1. NewSession(url) /\ ~Busy(url)
    BY <1>2 DEF StartLocked
  <2>2. current \in SessionIds => current # NoSession
    BY DEF SessionIds, NoSession
  <2>3. current \in SessionIds => sessions[current].done
    BY <1>2, <2>1, <2>2 DEF Joins, Busy, MayReplace
  <2> QED BY <2>1, <2>3
<1> QED BY <1>1, <1>2

LEMMA NewSessionKeeps ==
  ASSUME RecoveryInv, NEW url \in Sources, NewSession(url), UNCHANGED seen,
         current \in SessionIds => sessions[current].done
  PROVE  /\ sessions' \in [SessionIds -> SessionRecord]
         /\ current' \in SessionIds /\ current' \in 0..MaxSessions
         /\ OneAfterTheOther'
         /\ \A s \in SessionIds : Sound(sessions'[s], seen'[s])
<1> DEFINE c == current + 1
           n == [NoRecord EXCEPT !.url = url, !.status = "starting",
                                 !.ctx = IF stopping THEN "expired" ELSE "live",
                                 !.pc = "open"]
<1>0. /\ MaxSessions \in Nat /\ current \in 0..MaxSessions /\ current < MaxSessions
      /\ sessions \in [SessionIds -> SessionRecord]
  BY RecoveryAssumption DEF RecoveryInv, RecoveryTypeOK, NewSession
<1>1. c \in SessionIds /\ current' = c /\ c \in 0..MaxSessions
  BY <1>0 DEF NewSession, SessionIds
<1>2. "open" \in Pcs /\ "starting" \in Statuses
  BY DEF Pcs, Calm, Statuses
<1>3. n \in SessionRecord /\ n.pc = "open" /\ n.previous = ""
  BY <1>2, Sequences DEF SessionRecord, NoRecord
<1>4. sessions' = [sessions EXCEPT ![c] = n]
  BY DEF NewSession, Set
<1>5. \A s \in SessionIds : s # c => sessions'[s] = sessions[s]
  <2> HIDE DEF c, n
  <2> QED BY <1>0, <1>4
<1>6. sessions'[c] = n /\ sessions' \in [SessionIds -> SessionRecord]
  <2> HIDE DEF c, n
  <2> QED BY <1>0, <1>1, <1>3, <1>4
<1>7. Sound(n, seen[c])
  <2> HIDE DEF c, n
  <2> QED BY <1>3 DEF Sound
<1>8. \A s \in SessionIds : Sound(sessions'[s], seen'[s])
  <2> HIDE DEF c, n
  <2> QED BY <1>5, <1>6, <1>7 DEF RecoveryInv
<1>9. OneAfterTheOther'
  <2>1. SUFFICES ASSUME NEW s \in SessionIds
                 PROVE  /\ s < c => sessions'[s].done
                        /\ s > c => sessions'[s].status = "none" /\ sessions'[s].pc = "none"
    BY <1>1 DEF OneAfterTheOther
  <2>2. s \in Nat /\ current \in Nat
    BY <1>0 DEF SessionIds
  <2>3. CASE s < current
    BY <1>5, <2>2, <2>3 DEF RecoveryInv, OneAfterTheOther
  <2>4. CASE s = current
    BY <1>5, <2>2, <2>4
  <2>5. CASE s > current
    BY <1>5, <2>2, <2>5 DEF RecoveryInv, OneAfterTheOther
  <2> QED BY <2>2, <2>3, <2>4, <2>5
<1> QED BY <1>1, <1>6, <1>8, <1>9

LEMMA ShutdownKeeps ==
  ASSUME RecoveryInv, Shutdown
  PROVE  /\ RecoveryInv'
         /\ \A s \in SessionIds : sessions'[s].pc = sessions[s].pc
<1>1. \A s \in SessionIds :
        /\ sessions[s] \in SessionRecord /\ seen[s] \in Seq(Texts)
        /\ Sound(sessions[s], seen[s])
  BY DEF RecoveryInv, RecoveryTypeOK
<1>2. \A s \in SessionIds :
        sessions'[s] = sessions[s] \/ sessions'[s] = [sessions[s] EXCEPT !.ctx = "expired"]
  BY DEF Shutdown
<1>3. \A s \in SessionIds :
        /\ sessions'[s] \in SessionRecord /\ Sound(sessions'[s], seen[s])
        /\ sessions[s].done => sessions'[s].done
  <2>1. SUFFICES ASSUME NEW s \in SessionIds
                 PROVE  /\ sessions'[s] \in SessionRecord /\ Sound(sessions'[s], seen[s])
                        /\ sessions[s].done => sessions'[s].done
    OBVIOUS
  <2>2. Follows(sessions[s], [sessions[s] EXCEPT !.ctx = "expired"], seen[s])
    BY <1>1, ExpiredFollows
  <2>3. CASE sessions'[s] = sessions[s]
    BY <1>1, <2>3
  <2>4. CASE sessions'[s] = [sessions[s] EXCEPT !.ctx = "expired"]
    BY <2>2, <2>4 DEF Follows
  <2> QED BY <1>2, <2>3, <2>4
<1>4. \A s \in SessionIds :
        sessions'[s].pc = sessions[s].pc /\ sessions'[s].status = sessions[s].status
  BY <1>1, <1>2 DEF SessionRecord
<1>5. sessions' = [s \in SessionIds |-> sessions'[s]]
  BY DEF Shutdown
<1>6. sessions' \in [SessionIds -> SessionRecord]
  BY <1>3, <1>5
<1>7. UNCHANGED <<current, waiter, seen>>
  BY DEF Shutdown
<1>8. OneAfterTheOther'
  BY <1>3, <1>4, <1>7 DEF OneAfterTheOther, RecoveryInv
<1>9. RecoveryTypeOK'
  BY <1>6, <1>7 DEF RecoveryInv, RecoveryTypeOK
<1> QED BY <1>3, <1>4, <1>7, <1>8, <1>9 DEF RecoveryInv

\* What the three properties about steps need to know of a step.
StepIsFair ==
    /\ \A s \in SessionIds :
          /\ At(s, "request") /\ sessions'[s].pc = "deciding" => ~sessions[s].human
          /\ At(s, "act") /\ sessions'[s].pc = "pause" => ~sessions[s].human
    /\ \A w \in Waiters :
          waiter'[w].answer \in {"needs_input", "unavailable"} /\ Waiting(w)
             => ~sessions[waiter[w].session].result

LEMMA UnchangedAnswers ==
  ASSUME RecoveryInv, UNCHANGED waiter
  PROVE  \A w \in Waiters : Waiting(w) => waiter'[w].answer = "none"
  BY DEF RecoveryInv, Waiting

LEMMA OneMovesFair ==
  ASSUME RecoveryInv, NEW s \in SessionIds, OneMoves(s)
  PROVE  StepIsFair
<1>1. PICK n, q :
        /\ Follows(sessions[s], n, q)
        /\ sessions' = [sessions EXCEPT ![s] = n]
        /\ UNCHANGED waiter
  BY DEF OneMoves
<1>2. sessions \in [SessionIds -> SessionRecord]
  BY DEF RecoveryInv, RecoveryTypeOK
<1>3. ASSUME NEW t \in SessionIds
      PROVE  /\ At(t, "request") /\ sessions'[t].pc = "deciding" => ~sessions[t].human
             /\ At(t, "act") /\ sessions'[t].pc = "pause" => ~sessions[t].human
  <2>1. CASE t = s
    BY <1>1, <1>2, <2>1 DEF Follows, At
  <2>2. CASE t # s
    BY <1>1, <1>2, <2>2 DEF At
  <2> QED BY <2>1, <2>2
<1>4. \A w \in Waiters : Waiting(w) => waiter'[w].answer = "none"
  BY <1>1, UnchangedAnswers
<1> QED BY <1>3, <1>4 DEF StepIsFair

LEMMA NewSessionFair ==
  ASSUME RecoveryInv, NEW url, NewSession(url)
  PROVE  \A s \in SessionIds :
           sessions[s].pc \in {"request", "act"} => sessions'[s] = sessions[s]
<1>0. /\ MaxSessions \in Nat /\ current \in 0..MaxSessions /\ current < MaxSessions
      /\ sessions \in [SessionIds -> SessionRecord]
  BY RecoveryAssumption DEF RecoveryInv, RecoveryTypeOK, NewSession
<1>1. current + 1 \in SessionIds /\ current + 1 > current
  BY <1>0 DEF SessionIds
<1>2. sessions[current + 1].pc = "none"
  BY <1>1 DEF RecoveryInv, OneAfterTheOther
<1>3. \A s \in SessionIds : s # current + 1 => sessions'[s] = sessions[s]
  BY <1>0 DEF NewSession, Set
<1> QED BY <1>2, <1>3

LEMMA RecoveryStarts == RecoveryInit => RecoveryInv
<1> SUFFICES ASSUME RecoveryInit PROVE RecoveryInv
  OBVIOUS
<1>1. NoRecord \in SessionRecord
  BY Sequences DEF NoRecord, SessionRecord, Statuses, Pcs
<1>2. /\ sessions = [s \in SessionIds |-> NoRecord] /\ current = 0
      /\ waiter = [w \in Waiters |-> [session |-> 0, answer |-> "none"]]
      /\ seen = [s \in SessionIds |-> <<>>]
  BY DEF RecoveryInit, NoSession, Away
<1>3. RecoveryTypeOK
  BY <1>1, <1>2, Sequences, RecoveryAssumption DEF RecoveryTypeOK, Answers
<1>4. OneAfterTheOther
  <2>1. \A s \in SessionIds : ~(s < current)
    BY <1>2, RecoveryAssumption DEF SessionIds
  <2>2. \A s \in SessionIds : sessions[s].status = "none" /\ sessions[s].pc = "none"
    BY <1>2 DEF NoRecord
  <2> QED BY <2>1, <2>2 DEF OneAfterTheOther
<1>5. \A s \in SessionIds : Sound(sessions[s], seen[s])
  BY <1>2 DEF Sound, NoRecord
<1>6. \A w \in Waiters : waiter[w].session = NoSession
  BY <1>2 DEF NoSession
<1> QED BY <1>3, <1>4, <1>5, <1>6 DEF RecoveryInv

\* A waiter that is sent away with this answer.
LEMMA AnswerKeeps ==
  ASSUME RecoveryInv, NEW v \in Waiters, NEW answer \in Answers, Answer(v, answer),
         UNCHANGED <<sessions, current, seen>>,
         Waiting(v) /\ answer \in {"needs_input", "unavailable"}
            => ~sessions[waiter[v].session].result
  PROVE  RecoveryInv' /\ StepIsFair
<1> DEFINE a == [session |-> NoSession, answer |-> answer]
<1>1. waiter \in [Waiters -> [session : 0..MaxSessions, answer : Answers]]
      /\ waiter' = [waiter EXCEPT ![v] = a]
  BY DEF RecoveryInv, RecoveryTypeOK, Answer
<1>2. a \in [session : 0..MaxSessions, answer : Answers]
  BY RecoveryAssumption DEF NoSession
<1>3. waiter' \in [Waiters -> [session : 0..MaxSessions, answer : Answers]]
  BY <1>1, <1>2
<1>4. \A w \in Waiters : waiter'[w] = IF w = v THEN a ELSE waiter[w]
  BY <1>1
<1>5. \A w \in Waiters : waiter'[w].session # NoSession =>
          waiter'[w].answer = "none" /\ waiter'[w].session \in SessionIds
  BY <1>4 DEF RecoveryInv
<1>6. RecoveryInv'
  BY <1>3, <1>5 DEF RecoveryInv, RecoveryTypeOK, OneAfterTheOther
<1>7. \A w \in Waiters : w # v /\ Waiting(w) => waiter'[w].answer = "none"
  BY <1>4 DEF RecoveryInv, Waiting
<1>8. waiter'[v].answer = answer
  BY <1>4
<1>9. StepIsFair
  BY <1>7, <1>8 DEF StepIsFair, At
<1> QED BY <1>6, <1>9

LEMMA VisitKeeps ==
  ASSUME RecoveryInv, NEW v \in Waiters, NEW url \in Sources, Visit(v, url)
  PROVE  RecoveryInv' /\ StepIsFair
<1>0. waiter[v].session = NoSession /\ UNCHANGED seen
  BY DEF Visit
<1>1. CASE Busy(url) /\ Answer(v, "busy") /\ UNCHANGED sessionVars
  BY <1>0, <1>1, AnswerKeeps DEF Answers, sessionVars
<1>2. CASE /\ StartLocked(url, FALSE)
           /\ waiter' = [waiter EXCEPT ![v] = [session |-> current', answer |-> "none"]]
  <2> DEFINE a == [session |-> current', answer |-> "none"]
  <2>1. \/ UNCHANGED sessionVars /\ current \in SessionIds
        \/ NewSession(url) /\ (current \in SessionIds => sessions[current].done)
    BY <1>2, StartReplacesDone
  <2>2. /\ sessions' \in [SessionIds -> SessionRecord]
        /\ current' \in SessionIds /\ current' \in 0..MaxSessions
        /\ OneAfterTheOther' /\ \A s \in SessionIds : Sound(sessions'[s], seen'[s])
    <3>1. CASE UNCHANGED sessionVars /\ current \in SessionIds
      BY <1>0, <3>1 DEF RecoveryInv, RecoveryTypeOK, OneAfterTheOther, sessionVars
    <3>2. CASE NewSession(url) /\ (current \in SessionIds => sessions[current].done)
      BY <1>0, <3>2, NewSessionKeeps
    <3> QED BY <2>1, <3>1, <3>2
  <2>3. waiter \in [Waiters -> [session : 0..MaxSessions, answer : Answers]]
    BY DEF RecoveryInv, RecoveryTypeOK
  <2>4. a \in [session : 0..MaxSessions, answer : Answers]
    BY <2>2 DEF Answers
  <2>5. waiter' \in [Waiters -> [session : 0..MaxSessions, answer : Answers]]
    BY <1>2, <2>3, <2>4
  <2>6. \A w \in Waiters : waiter'[w] = IF w = v THEN a ELSE waiter[w]
    BY <1>2, <2>3
  <2>7. \A w \in Waiters : waiter'[w].session # NoSession =>
            waiter'[w].answer = "none" /\ waiter'[w].session \in SessionIds
    BY <2>2, <2>6 DEF RecoveryInv
  <2>8. RecoveryInv'
    BY <1>0, <2>2, <2>5, <2>7 DEF RecoveryInv, RecoveryTypeOK
  <2>9. \A w \in Waiters : Waiting(w) => waiter'[w].answer = "none"
    BY <1>0, <2>6 DEF RecoveryInv, Waiting
  <2>10. \A s \in SessionIds :
           sessions[s].pc \in {"request", "act"} => sessions'[s] = sessions[s]
    BY <2>1, NewSessionFair DEF sessionVars
  <2>11. StepIsFair
    BY <2>9, <2>10 DEF StepIsFair, At
  <2> QED BY <2>8, <2>11
<1> QED BY <1>1, <1>2 DEF Visit

LEMMA CommandStartKeeps ==
  ASSUME RecoveryInv, NEW url \in Sources, CommandStart(url)
  PROVE  RecoveryInv' /\ StepIsFair
<1>0. UNCHANGED <<waiter, seen>> /\ StartLocked(url, TRUE)
  BY DEF CommandStart, Rest
<1>1. \/ UNCHANGED sessionVars /\ current \in SessionIds
      \/ NewSession(url) /\ (current \in SessionIds => sessions[current].done)
  BY <1>0, StartReplacesDone
<1>2. /\ sessions' \in [SessionIds -> SessionRecord]
      /\ current' \in 0..MaxSessions
      /\ OneAfterTheOther' /\ \A s \in SessionIds : Sound(sessions'[s], seen'[s])
  <2>1. CASE UNCHANGED sessionVars
    BY <1>0, <2>1 DEF RecoveryInv, RecoveryTypeOK, OneAfterTheOther, sessionVars
  <2>2. CASE NewSession(url) /\ (current \in SessionIds => sessions[current].done)
    BY <1>0, <2>2, NewSessionKeeps
  <2> QED BY <1>1, <2>1, <2>2
<1>3. RecoveryInv'
  BY <1>0, <1>2 DEF RecoveryInv, RecoveryTypeOK
<1>4. \A s \in SessionIds :
        sessions[s].pc \in {"request", "act"} => sessions'[s] = sessions[s]
  BY <1>1, NewSessionFair DEF sessionVars
<1>5. \A w \in Waiters : Waiting(w) => waiter'[w].answer = "none"
  BY <1>0, UnchangedAnswers
<1>6. StepIsFair
  BY <1>4, <1>5 DEF StepIsFair, At
<1> QED BY <1>3, <1>6

LEMMA LookKeeps ==
  ASSUME RecoveryInv, NEW w \in Waiters, Recover(w) \/ GiveUp(w)
  PROVE  RecoveryInv' /\ StepIsFair
<1> DEFINE r == sessions[waiter[w].session]
<1>1. CASE Look(w)
  <2>1. Answer(w, Looked(r)) /\ UNCHANGED <<sessions, current, seen>>
    BY <1>1 DEF Look, WaiterOnly
  <2>2. Looked(r) \in Answers /\ (Looked(r) \in {"needs_input", "unavailable"} => ~r.result)
    BY DEF Looked, Answers
  <2> QED BY <2>1, <2>2, AnswerKeeps
<1>2. CASE SessionOver(w)
  <2> DEFINE a == IF r.result THEN "saved" ELSE "unavailable"
  <2>1. Answer(w, a) /\ UNCHANGED <<sessions, current, seen>>
    BY <1>2 DEF SessionOver, WaiterOnly
  <2>2. a \in Answers /\ (a \in {"needs_input", "unavailable"} => ~r.result)
    BY DEF Answers
  <2> HIDE DEF a
  <2> QED BY <2>1, <2>2, AnswerKeeps
<1>3. CASE GiveUp(w)
  <2>1. Answer(w, "timeout") /\ UNCHANGED <<sessions, current, seen>>
    BY <1>3 DEF GiveUp, WaiterOnly
  <2> QED BY <2>1, AnswerKeeps DEF Answers
<1> QED BY <1>1, <1>2, <1>3 DEF Recover

LEMMA RecoverySteps ==
  ASSUME RecoveryInv, [Next]_vars
  PROVE  RecoveryInv' /\ StepIsFair
<1>1. CASE \E url \in Sources : CommandStart(url)
  BY <1>1, CommandStartKeeps
<1>2. CASE \E s \in SessionIds : Command(s) \/ Run(s) \/ Expire(s)
  <2>1. PICK s \in SessionIds : OneMoves(s)
    BY <1>2, CommandMoves, RunMoves, ExpireMoves
  <2> QED BY <2>1, OneMovesKeeps, OneMovesFair
<1>3. CASE \E w \in Waiters, url \in Sources : Visit(w, url)
  BY <1>3, VisitKeeps
<1>4. CASE \E w \in Waiters : Recover(w) \/ GiveUp(w)
  BY <1>4, LookKeeps
<1>5. CASE Shutdown
  <2>1. RecoveryInv' /\ \A s \in SessionIds : sessions'[s].pc = sessions[s].pc
    BY <1>5, ShutdownKeeps
  <2>2. \A w \in Waiters : Waiting(w) => waiter'[w].answer = "none"
    BY <1>5, UnchangedAnswers DEF Shutdown
  <2> QED BY <2>1, <2>2 DEF StepIsFair, At
<1>6. CASE UNCHANGED vars
  <2>1. RecoveryInv'
    BY <1>6 DEF vars, RecoveryInv, RecoveryTypeOK, OneAfterTheOther
  <2>2. UNCHANGED <<sessions, waiter>>
    BY <1>6 DEF vars
  <2>3. \A w \in Waiters : Waiting(w) => waiter'[w].answer = "none"
    BY <2>2, UnchangedAnswers
  <2> QED BY <2>1, <2>2, <2>3 DEF StepIsFair, At
<1> QED BY <1>1, <1>2, <1>3, <1>4, <1>5, <1>6 DEF Next

-----------------------------------------------------------------------------
(* Theorems *)

\* The inductive invariant of the capture browser holds in every state.
THEOREM RecoveryCorrect == Spec => []RecoveryInv
<1>1. RecoveryInv /\ [Next]_vars => RecoveryInv'
  BY RecoverySteps
<1> QED BY <1>1, RecoveryStarts, PTL DEF Spec

LEMMA OnlyCurrentIsLive ==
  ASSUME RecoveryInv
  PROVE  OneBrowser
<1> DEFINE L == {s \in SessionIds : Live(s)}
<1>1. MaxSessions \in Nat /\ current \in Int
  BY RecoveryAssumption DEF RecoveryInv, RecoveryTypeOK
<1>2. L \subseteq {current}
  BY <1>1 DEF RecoveryInv, OneAfterTheOther, Live, SessionIds
<1>3. IsFiniteSet({current}) /\ Cardinality({current}) = 1
  BY FS_Singleton
<1>4. IsFiniteSet(L) /\ Cardinality(L) <= Cardinality({current})
  BY <1>2, <1>3, FS_Subset
<1> QED BY <1>3, <1>4 DEF OneBrowser

\* A second browser is never opened on the profile of one that still runs,
\* however starts, closes, expiries and waiting callers interleave.
THEOREM BrowsersDoNotOverlap == Spec => []OneBrowser
<1>1. RecoveryInv => OneBrowser
  BY OnlyCurrentIsLive
<1> QED BY <1>1, RecoveryCorrect, PTL

\* The model neither decides nor acts once the owner has taken over.
THEOREM OwnerKeepsControl == Spec => TakeoverHolds
<1>1. RecoveryInv /\ [Next]_vars =>
        [\A s \in SessionIds :
            LET asked == At(s, "request") /\ sessions'[s].pc = "deciding"
                acted == At(s, "act") /\ sessions'[s].pc = "pause"
            IN  asked \/ acted => ~sessions[s].human]_vars
  BY RecoverySteps DEF StepIsFair
<1> QED BY <1>1, RecoveryCorrect, PTL DEF Spec, TakeoverHolds

\* A page nobody asked to save is its own source's and stood still.
THEOREM UnaskedSavesAreStill == Spec => []SavedUnaskedWhenStill
<1>1. RecoveryInv => SavedUnaskedWhenStill
  BY DEF RecoveryInv, Sound, SavedUnaskedWhenStill
<1> QED BY <1>1, RecoveryCorrect, PTL

\* No waiting caller is sent away without a page that was already saved.
THEOREM SavedPagesAreHandedOver == Spec => SavedPageIsHandedOver
<1>1. RecoveryInv /\ [Next]_vars =>
        [\A w \in Waiters :
            waiter'[w].answer \in {"needs_input", "unavailable"} /\ Waiting(w)
               => ~sessions[waiter[w].session].result]_vars
  BY RecoverySteps DEF StepIsFair
<1> QED BY <1>1, RecoveryCorrect, PTL DEF Spec, SavedPageIsHandedOver
=============================================================================
