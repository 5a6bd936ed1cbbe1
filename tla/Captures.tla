------------------------------ MODULE Captures ------------------------------
(***************************************************************************)
(* What happens to saved items: the owner's and the browser's calls, the   *)
(* capture loop, uploads from the browser, pages recovered by hand, the    *)
(* classifier, removal, cleanup and the transfer of archives               *)
(* (internal/library: library.go, workers.go, browser_capture.go,          *)
(* recovery.go, enrichment.go, transfer.go).                               *)
(*                                                                         *)
(* persistCapture stores its file inside the transaction that holds the    *)
(* item's row, so it is one step with several ends: stored, refused, or,   *)
(* where Mishaps allow it, cut short by a crash or left in doubt by a      *)
(* commit whose answer is lost.                                            *)
(***************************************************************************)
EXTENDS SavedItems

CONSTANTS
    Capturers,      \* capture loops, one per server
    Pages,          \* what pages may be like
    MaxCalls,       \* bound: calls of the owner and the browser
    Calls,          \* the calls of the run
    Mishaps,        \* kinds of adverse events of the run
    MaxMishaps      \* bound: adverse events

ASSUME CapturesAssumption ==
    /\ MaxCalls \in Nat /\ MaxMishaps \in Nat
    /\ Pages \subseteq PageKinds
    /\ Mishaps \subseteq {"late", "crash", "commit"}
    /\ Calls \subseteq {"save", "sync", "edit", "recapture", "upload", "recover",
                        "approve", "reclassify", "delete", "transfer"}

VARIABLES
    capturer,       \* what each capture loop is doing
    classifier,     \* what EnrichOnce has read, under its advisory lock
    removals,       \* calls of Delete that have read their item
    restoring,      \* the archived items a Restore has still to bring back
    captureFiles,   \* files of captures on disk
    calls,          \* calls so far
    mishaps,        \* adverse events so far
    chosen,         \* history: the tags the owner chose last for each item
    imported,       \* history: leases handed out when a page was last brought in
    wrote,          \* history: the lease that wrote the item since then
    classified,     \* history: the text that was classified last
    unwanted        \* history: addresses the owner removed and did not save again

loopVars == <<capturer, classifier, removals, restoring, captureFiles, calls, mishaps>>
historyVars == <<chosen, imported, wrote, classified, unwanted>>
vars == <<itemVars, loopVars, historyVars>>

Resting == [pc |-> "idle", item |-> NoItem, token |-> NoToken, attempts |-> 0]
NotReading == [pc |-> "idle", item |-> NoItem, version |-> 0, tags |-> {}, text |-> NoText]
NotRestoring == [on |-> FALSE, left |-> {}]

CapturesInit ==
    /\ ItemsInit
    /\ capturer = [w \in Capturers |-> Resting]
    /\ classifier = NotReading
    /\ removals = {}
    /\ restoring = NotRestoring
    /\ captureFiles = {}
    /\ calls = 0
    /\ mishaps = 0
    /\ chosen = [i \in ItemIds |-> {}]
    /\ imported = [i \in ItemIds |-> 0]
    /\ wrote = [i \in ItemIds |-> NoToken]
    /\ classified = [i \in ItemIds |-> NoText]
    /\ unwanted = {}

Call(kind) == kind \in Calls /\ calls < MaxCalls /\ calls' = calls + 1

Mishap(kind) ==
    kind \in Mishaps /\ mishaps < MaxMishaps /\ mishaps' = mishaps + 1

\* What a call leaves alone.
Loops == UNCHANGED <<capturer, classifier, restoring, mishaps>>

-----------------------------------------------------------------------------
(* Calls *)

CallSave(u, tags) ==
    /\ Call("save")
    /\ Save(u, tags)
    /\ chosen' = [i \in ItemIds |-> IF ~Saved(i) /\ i = lastItem' THEN tags ELSE chosen[i]]
    /\ unwanted' = unwanted \ {u}
    /\ Loops /\ UNCHANGED <<removals, captureFiles, imported, wrote, classified>>

CallSync(u, n) ==
    /\ Call("sync")
    /\ \E named \in BOOLEAN : SaveFromBrowser(u, n, named)
    /\ Loops /\ UNCHANGED <<removals, captureFiles, historyVars>>

CallEdit(i, tags) ==
    /\ Call("edit")
    /\ Edit(i, tags)
    /\ chosen' = [chosen EXCEPT ![i] = tags]
    /\ Loops /\ UNCHANGED <<removals, captureFiles, imported, wrote, classified, unwanted>>

CallRow(i) ==
    /\ \/ Call("recapture") /\ Recapture(i)
       \/ Call("reclassify") /\ RetryEnrichment(i)
       \/ Call("approve") /\ ApproveContent(i)
    /\ Loops /\ UNCHANGED <<removals, captureFiles, historyVars>>

Import(i) ==
    /\ imported' = [imported EXCEPT ![i] = lastToken']
    /\ wrote' = [wrote EXCEPT ![i] = NoToken]
    /\ UNCHANGED <<chosen, classified, unwanted>>

\* A page the browser uploads, or one recovered by hand, is stored without a
\* lease and ends the lease there is.  An upload that is there is left alone.
CallUpload(i, page) ==
    /\ Call("upload")
    /\ Saved(i)
    /\ \/ /\ \E kind \in Pages \ {"blocked"} : StoreCapture(i, Upload(i, page), kind)
          /\ captureFiles' = captureFiles \cup {<<Upload(i, page), 0>>}
          /\ UNCHANGED lastToken
          /\ Import(i)
       \/ Stored(Upload(i, page)) /\ UNCHANGED <<itemVars, captureFiles, historyVars>>
    /\ Loops /\ UNCHANGED removals

CallUploadInDoubt(i, page) ==
    /\ Call("upload") /\ Mishap("commit")
    /\ StoreCapture(i, Upload(i, page), "page")
    /\ UNCHANGED <<lastToken, captureFiles, capturer, classifier, removals, restoring>>
    /\ Import(i)

CallRecover(i) ==
    /\ Call("recover")
    /\ lastToken < MaxTokens
    /\ lastToken' = lastToken + 1
    /\ \E kind \in Pages \ {"blocked", "empty"} :
          StoreCapture(i, ServerCapture(lastToken + 1), kind)
    /\ captureFiles' = captureFiles \cup {<<ServerCapture(lastToken + 1), 0>>}
    /\ Import(i)
    /\ Loops /\ UNCHANGED removals

\* Delete reads the item before it takes its locks.
CallDelete(i) ==
    /\ Call("delete")
    /\ Saved(i)
    /\ removals' = removals \cup {[call |-> calls, item |-> i, url |-> items[i].url]}
    /\ Loops /\ UNCHANGED <<itemVars, captureFiles, historyVars>>

Remove(d) ==
    /\ DeleteItem(d.item, d.url)
    /\ removals' = removals \ {d}
    /\ unwanted' = IF Saved(d.item) THEN unwanted \cup {d.url} ELSE unwanted
    /\ UNCHANGED <<capturer, classifier, restoring, captureFiles, calls, mishaps, chosen,
                   imported, wrote, classified>>

\* Export copies the files of all captures and fails without one of them.
CallExport ==
    /\ Call("transfer")
    /\ \A c \in CaptureIds : Stored(c) => captures[c].key \in captureFiles
    /\ Export
    /\ Loops /\ UNCHANGED <<removals, captureFiles, historyVars>>

\* Restore commits one item at a time, in the order of their random ids, and
\* may be interrupted; the tombstones come last.
CallRestore ==
    /\ Call("transfer")
    /\ ~restoring.on /\ archive # NoArchive
    /\ restoring' = [on |-> TRUE,
                     left |-> {i \in ItemIds : archive.items[i] # NoItemRow}]
    /\ UNCHANGED <<itemVars, capturer, classifier, removals, captureFiles, mishaps,
                   historyVars>>

RestoreOne(i) ==
    /\ i \in restoring.left
    /\ RestoreItem(i)
    /\ restoring' = [restoring EXCEPT !.left = @ \ {i}]
    /\ captureFiles' = captureFiles \cup {<<c, restores'>> : c \in Missing(i)}
    /\ chosen' = [chosen EXCEPT ![i] = IF Saved(i) THEN @ ELSE archive.items[i].tags]
    /\ classified' = [classified EXCEPT ![i] = IF Saved(i) THEN @ ELSE archive.items[i].text]
    /\ unwanted' = unwanted \ {archive.items[i].url}
    /\ UNCHANGED <<capturer, classifier, removals, calls, mishaps, imported, wrote>>

RestoreEnds ==
    /\ restoring.on
    /\ \/ restoring.left = {} /\ RestoreTombstones
       \/ restoring.left # {} /\ UNCHANGED itemVars
    /\ restoring' = NotRestoring
    /\ UNCHANGED <<capturer, classifier, removals, captureFiles, calls, mishaps,
                   historyVars>>

-----------------------------------------------------------------------------
(* CaptureOnce *)

SetCapturer(w, u) == capturer' = [capturer EXCEPT ![w] = u]

Claim(w) ==
    /\ capturer[w].pc = "idle"
    /\ \E i \in ItemIds :
          /\ ClaimCapture(i)
          /\ SetCapturer(w, [pc |-> "capture", item |-> i, token |-> lastToken + 1,
                             attempts |-> items[i].attempts + 1])
    /\ UNCHANGED <<classifier, removals, restoring, captureFiles, calls, mishaps, historyVars>>

\* Capture failed: the row is given back if it is still held.
GiveBack(w) ==
    LET u == capturer[w] IN
    /\ u.pc = "capture"
    /\ \/ FailCapture(u.item, u.token, u.attempts)
       \/ ~CaptureHeld(u.item, u.token) /\ UNCHANGED itemVars
    /\ SetCapturer(w, Resting)
    /\ UNCHANGED <<classifier, removals, restoring, captureFiles, calls, mishaps, historyVars>>

Wrote(u) ==
    /\ wrote' = [wrote EXCEPT ![u.item] = u.token]
    /\ UNCHANGED <<chosen, imported, classified, unwanted>>

Persist(w) ==
    LET u == capturer[w]
        c == ServerCapture(u.token)
    IN  /\ u.pc = "capture"
        /\ \/ /\ CaptureHeld(u.item, u.token)
              /\ \E kind \in Pages : StoreCapture(u.item, c, kind)
              /\ captureFiles' = captureFiles \cup {<<c, 0>>}
              /\ UNCHANGED lastToken
              /\ Wrote(u)
           \/ /\ ~CaptureHeld(u.item, u.token)
              /\ UNCHANGED <<itemVars, captureFiles, historyVars>>
        /\ SetCapturer(w, Resting)
        /\ UNCHANGED <<classifier, removals, restoring, calls, mishaps>>

\* The answer to COMMIT is lost: the file is removed, the row may be there.
PersistInDoubt(w) ==
    LET u == capturer[w] IN
    /\ u.pc = "capture" /\ Mishap("commit")
    /\ CaptureHeld(u.item, u.token)
    /\ \/ /\ StoreCapture(u.item, ServerCapture(u.token), "page")
          /\ UNCHANGED lastToken
          /\ Wrote(u)
       \/ UNCHANGED <<itemVars, historyVars>>
    /\ SetCapturer(w, Resting)
    /\ UNCHANGED <<classifier, removals, restoring, captureFiles, calls>>

\* The process ends, perhaps after the file was written.
Crash(w) ==
    LET u == capturer[w] IN
    /\ u.pc = "capture" /\ Mishap("crash")
    /\ captureFiles' \in {captureFiles, captureFiles \cup {<<ServerCapture(u.token), 0>>}}
    /\ SetCapturer(w, Resting)
    /\ UNCHANGED <<itemVars, classifier, removals, restoring, calls, historyVars>>

-----------------------------------------------------------------------------
(* EnrichOnce and CleanupOnce *)

ReadText(i) ==
    /\ classifier.pc = "idle"
    /\ Classifiable(i)
    /\ classifier' = [pc |-> "read", item |-> i, version |-> items[i].version,
                      tags |-> items[i].tags, text |-> items[i].text]
    /\ UNCHANGED <<itemVars, capturer, removals, restoring, captureFiles, calls,
                   mishaps, historyVars>>

\* Tags are added to those that were read; the row is written if it is still
\* the version that was read.
Classify ==
    LET r == items[classifier.item] IN
    /\ classifier.pc = "read"
    /\ \/ \E suggested \in SUBSET Tags :
             /\ StoreEnrichment(classifier.item, classifier.version,
                                Enriched(r, classifier.tags, suggested))
             /\ classified' = [classified EXCEPT ![classifier.item] = classifier.text]
       \/ /\ StoreEnrichment(classifier.item, classifier.version, EnrichFailed(r))
          /\ UNCHANGED classified
       \/ /\ ~(Saved(classifier.item) /\ r.version = classifier.version)
          /\ UNCHANGED <<itemVars, classified>>
    /\ classifier' = NotReading
    /\ UNCHANGED <<capturer, removals, restoring, captureFiles, calls, mishaps, chosen,
                   imported, wrote, unwanted>>

Cleanup(c) ==
    /\ FinishCaptureTask(c)
    /\ captureFiles' = captureFiles \ {captureTasks[c].key}
    /\ UNCHANGED <<capturer, classifier, removals, restoring, calls, mishaps, historyVars>>

-----------------------------------------------------------------------------

\* A lease runs out under a loop that is at work.
RunsOut ==
    \E w \in Capturers : /\ capturer[w].pc = "capture"
                         /\ CaptureHeld(capturer[w].item, capturer[w].token)
                         /\ items[capturer[w].item].until = 1

Pass ==
    /\ ItemTick
    /\ IF RunsOut THEN Mishap("late") ELSE UNCHANGED mishaps
    /\ UNCHANGED <<capturer, classifier, removals, restoring, captureFiles, calls,
                   historyVars>>

CallItem(i) ==
    \/ \E tags \in SUBSET Tags : CallEdit(i, tags)
    \/ CallRow(i)
    \/ \E page \in 1..MaxPages : CallUpload(i, page) \/ CallUploadInDoubt(i, page)
    \/ CallRecover(i)
    \/ CallDelete(i)
    \/ RestoreOne(i)

Next ==
    \/ \E u \in Urls : \/ \E tags \in SUBSET Tags : CallSave(u, tags)
                       \/ \E n \in Nodes : CallSync(u, n)
    \/ \E i \in ItemIds : CallItem(i)
    \/ CallExport \/ CallRestore \/ RestoreEnds
    \/ \E d \in removals : Remove(d)
    \/ \E w \in Capturers :
          Claim(w) \/ GiveBack(w) \/ Persist(w) \/ PersistInDoubt(w) \/ Crash(w)
    \/ \E i \in ItemIds : ReadText(i)
    \/ Classify
    \/ \E c \in CaptureIds : Cleanup(c)
    \/ Pass

Spec == CapturesInit /\ [][Next]_vars

\* The loops of capture, classification and cleanup run every two seconds, a
\* capture ends within its timeout and time passes.
Fairness ==
    /\ \A w \in Capturers : WF_vars(Claim(w)) /\ WF_vars(GiveBack(w) \/ Persist(w))
    /\ \A i \in ItemIds : WF_vars(ReadText(i))
    /\ WF_vars(Classify)
    /\ WF_vars(Pass)

FairSpec == Spec /\ Fairness

-----------------------------------------------------------------------------
(* Properties *)

\* A page that was brought in by the browser or by hand is only replaced by a
\* capture that began after it: the result of an earlier one, however late, is
\* dropped ("A completed recovery supersedes the outstanding capture lease").
ImportedPageKept ==
    \A i \in ItemIds : wrote[i] # NoToken => wrote[i] > imported[i]

\* What the owner chose last is there: the tags, whatever the classifier made
\* of an older version of the item in the meantime, and the title, which
\* captures, approval and synchronization leave alone.
OwnerEditsKept ==
    \A i \in ItemIds :
        /\ Saved(i) => chosen[i] \subseteq items[i].tags
        /\ items[i].edited => items[i].title = "edited"

\* An item that says it is classified was classified from the text it has,
\* unless that came with an approved article.
ClassifiedIsCurrent ==
    \A i \in ItemIds :
        Saved(i) /\ items[i].enrich = "complete"
            => items[i].text \in {classified[i], ApprovedText}

\* The file of every capture is there (OpenCapture).
CapturesReadable == \A c \in CaptureIds : Stored(c) => captures[c].key \in captureFiles

\* No file of a capture is forgotten: it belongs to a capture or to a queued
\* deletion task.
CaptureFilesAccounted ==
    \A k \in captureFiles :
        \/ \E c \in CaptureIds : captures[c].key = k
        \/ \E c \in CaptureIds : captureTasks[c] = [state |-> "queued", key |-> k]

\* What the owner removed is not brought back by the browser's reconciliation.
RemovedStaysRemoved == \A u \in unwanted : At(u) = {}

\* Every capture that is queued ends: with a page, a failure, or the item.
CaptureSettles ==
    \A i \in ItemIds :
        items[i].capture \in {"queued", "capturing"}
            ~> items[i].capture \notin {"queued", "capturing"}

=============================================================================
