------------------------------ MODULE Editions ------------------------------
(***************************************************************************)
(* The readings of one bookmark: prepare (Send, GeneratePDF, Translate),   *)
(* the reading editor, and ResumeRecovered, which gives a failed job a     *)
(* successor once the page was captured (internal/library).                *)
(*                                                                         *)
(* Requests for one item are serialised by the lock of its row, so each    *)
(* transaction is a step.  The editor and ResumeRecovered read outside of  *)
(* it, in steps of their own.  Jobs are numbered in the order of their     *)
(* created_at.  The owner's requests carry keys of their own here: what a  *)
(* repeated key does is in Delivery, as are the states of a delivery.      *)
(***************************************************************************)
EXTENDS Naturals, Sequences, FiniteSets

CONSTANTS
    Targets,        \* languages of an edition; "" is the original
    Tabs,           \* editors the owner has open
    Resumers,       \* callers of ResumeRecovered
    MaxAsks,        \* bound: requests of the owner, editors aside
    MaxCaptures,    \* bound: usable captures
    MaxSaves        \* bound: readings saved

ASSUME EditionsAssumption ==
    /\ "" \in Targets
    /\ {MaxAsks, MaxCaptures, MaxSaves} \subseteq Nat

VARIABLES
    jobs,           \* the jobs of the item, with their edition and edit
    item,           \* saved_items: job_id (0 is NULL) and version
    captures,       \* usable captures so far
    tab,            \* what each editor does
    resumer,        \* what each caller of ResumeRecovered does
    resumed,        \* item_actions: jobs with a 'recovery:' key
    counts,         \* requests and readings saved so far
    latest,         \* history: the last reading saved in each language
    wanted          \* history: jobs a Send reached, and their successors by Resume

rowVars == <<jobs, item>>
historyVars == <<latest, wanted>>
editionVars == <<rowVars, captures, tab, resumer, resumed, counts, historyVars>>

NoTab == [at |-> "closed", job |-> 0, version |-> 0, body |-> <<"none", 0>>,
          base |-> 0]
NoCandidate == [job |-> 0, mail |-> FALSE]
HasPDF(j) == j # 0 /\ jobs[j].status \in {"ready", "mailed"}
Language(j) == IF j = 0 THEN "" ELSE jobs[j].language

\* The job last made in a language.
Newest(target) ==
    LET made == {j \in DOMAIN jobs : jobs[j].language = target}
    IN  IF made = {} THEN 0 ELSE CHOOSE j \in made : \A k \in made : k <= j

Job(target, edit, mail) ==
    [status |-> "active", language |-> target, edit |-> edit, mail |-> mail,
     after |-> captures]

PointAt(j) == item' = [job |-> j, version |-> item.version + 1]

Counted(what) == counts' = [counts EXCEPT ![what] = @ + 1]

-----------------------------------------------------------------------------
(* prepare *)

\* Mutant of Copied: the new job starts from the page again.
CopiedNothing(previous) == 0

\* reading_edits of the previous job.
Copied(previous) == IF previous = 0 THEN 0 ELSE jobs[previous].edit

\* The edition exists: nothing is done, or it is sent.
Reuse(j, send) ==
    /\ HasPDF(j)
    /\ jobs' = IF send THEN [jobs EXCEPT ![j].status = "ready", ![j].mail = "yes"]
               ELSE jobs
    /\ PointAt(j)

\* It is on its way: the request joins it.
Join(j, send) ==
    /\ j # 0 /\ jobs[j].status = "active"
    /\ jobs' = IF send THEN [jobs EXCEPT ![j].mail = "yes"] ELSE jobs
    /\ PointAt(j)

\* There is none, or it failed.
Make(j, target, send) ==
    /\ ~HasPDF(j) /\ (j # 0 => jobs[j].status # "active")
    /\ jobs' = Append(jobs, Job(target, Copied(j), IF send THEN "yes" ELSE "no"))
    /\ PointAt(Len(jobs) + 1)

Prepare(j, target, send) ==
    \/ Reuse(j, send)
    \/ Join(j, send)
    \/ Make(j, target, send)

Asking ==
    /\ counts.asks < MaxAsks
    /\ Counted("asks")
    /\ UNCHANGED <<captures, tab, resumer, resumed, latest>>

Send ==
    /\ Asking
    /\ Prepare(item.job, Language(item.job), TRUE)
    /\ wanted' = wanted \cup {item'.job}

GeneratePDF ==
    /\ Asking
    /\ Prepare(item.job, Language(item.job), FALSE)
    /\ UNCHANGED wanted

Translate(target) ==
    /\ Asking
    /\ target # ""
    /\ Prepare(Newest(target), target, FALSE)
    /\ UNCHANGED wanted

\* The original is selected and never prepared here.
SelectOriginal ==
    /\ Asking
    /\ PointAt(Newest(""))
    /\ UNCHANGED <<jobs, wanted>>

\* Edit and Recapture touch the item and leave its reading alone.
Touch ==
    /\ Asking
    /\ PointAt(item.job)
    /\ UNCHANGED <<jobs, wanted>>

\* Enabling the mail settings pauses what was asked for before.
PausePendingDelivery ==
    /\ Asking
    /\ jobs' = [j \in DOMAIN jobs |->
           IF jobs[j].mail = "yes" /\ jobs[j].status # "mailed"
           THEN [jobs[j] EXCEPT !.mail = "paused"] ELSE jobs[j]]
    /\ UNCHANGED <<item, wanted>>

-----------------------------------------------------------------------------
(* The workers *)

Elsewhere == UNCHANGED <<captures, tab, resumer, resumed, counts, historyVars>>

\* The trigger on content_documents bumps the item that shows this job.
Finish(j) ==
    /\ jobs[j].status = "active"
    /\ jobs' = [jobs EXCEPT ![j].status = "ready"]
    /\ item' = IF item.job = j THEN [item EXCEPT !.version = @ + 1] ELSE item
    /\ Elsewhere

Fail(j) ==
    /\ jobs[j].status = "active"
    /\ jobs' = [jobs EXCEPT ![j].status = "failed"]
    /\ Elsewhere
    /\ UNCHANGED item

Mail(j) ==
    /\ jobs[j].status = "ready" /\ jobs[j].mail = "yes"
    /\ jobs' = [jobs EXCEPT ![j].status = "mailed"]
    /\ Elsewhere
    /\ UNCHANGED item

Capture ==
    /\ captures < MaxCaptures
    /\ captures' = captures + 1
    /\ PointAt(item.job)
    /\ UNCHANGED <<jobs, tab, resumer, resumed, counts, historyVars>>

-----------------------------------------------------------------------------
(* ResumeRecovered *)

\* Mutant of Candidate: any usable capture will do.
CandidateOfAny(j) ==
    /\ j # 0 /\ jobs[j].status = "failed" /\ j \notin resumed
    /\ captures > 0

Candidate(j) ==
    /\ j # 0 /\ jobs[j].status = "failed" /\ j \notin resumed
    /\ captures > jobs[j].after

FindCandidate(r) ==
    /\ resumer[r] = NoCandidate
    /\ Candidate(item.job)
    /\ resumer' = [resumer EXCEPT ![r] =
           [job |-> item.job, mail |-> jobs[item.job].mail # "no"]]
    /\ UNCHANGED <<rowVars, captures, tab, resumed, counts, historyVars>>

\* Mutant of StillShown: the job the item has now is not compared.
StillShownAny(j) == TRUE

StillShown(j) == item.job = j

Resume(r) ==
    LET c == resumer[r] IN
    /\ c # NoCandidate
    /\ StillShown(c.job) /\ c.job \notin resumed
    /\ resumed' = resumed \cup {c.job}
    /\ Prepare(item.job, Language(item.job), c.mail)
    /\ wanted' = IF item.job \in wanted THEN wanted \cup {item'.job} ELSE wanted
    /\ resumer' = [resumer EXCEPT ![r] = NoCandidate]
    /\ UNCHANGED <<captures, tab, counts, latest>>

\* Another job took its place, or another caller was first.
Skip(r) ==
    LET c == resumer[r] IN
    /\ c # NoCandidate
    /\ ~StillShown(c.job) \/ c.job \in resumed
    /\ resumer' = [resumer EXCEPT ![r] = NoCandidate]
    /\ UNCHANGED <<rowVars, captures, tab, resumed, counts, historyVars>>

-----------------------------------------------------------------------------
(* The editor *)

TabOnly(t, record) ==
    /\ tab' = [tab EXCEPT ![t] = record]
    /\ UNCHANGED <<rowVars, captures, resumer, resumed, counts, historyVars>>

\* What editorDraft opens for a job: its edit, its document, the last capture.
Body(j) ==
    IF j # 0 /\ jobs[j].edit # 0 THEN <<"edit", jobs[j].edit>>
    ELSE IF HasPDF(j) THEN <<"document", j>>
    ELSE <<"capture", captures>>

Nothing == <<"capture", 0>>

\* Get reads the item; the text is read after it.
OpenEditor(t) ==
    /\ tab[t].at = "closed" /\ counts.saves < MaxSaves
    /\ TabOnly(t, [NoTab EXCEPT !.at = "opening", !.job = item.job,
                                !.version = item.version])

ShowDraft(t) ==
    /\ tab[t].at = "opening"
    /\ TabOnly(t, IF Body(tab[t].job) = Nothing THEN NoTab
                  ELSE [tab[t] EXCEPT !.at = "open", !.body = Body(tab[t].job)])

\* The revision is a hash of job, version and text, so all three have to be
\* what they were; base is the version the transaction will ask for.
Submit(t) ==
    /\ tab[t].at = "open"
    /\ TabOnly(t, IF item.job = tab[t].job /\ item.version = tab[t].version
                  THEN [tab[t] EXCEPT !.at = "saving", !.base = item.version]
                  ELSE NoTab)

CheckRevision(t) ==
    /\ tab[t].at = "saving"
    /\ TabOnly(t, IF Body(tab[t].job) = tab[t].body
                  THEN [tab[t] EXCEPT !.at = "checked"] ELSE NoTab)

\* Mutant of VersionHolds: the check before the transaction is thought enough.
VersionHoldsAlways(t) == TRUE

VersionHolds(t) == item.version = tab[t].base

\* A job without a delivery, an edition in the language that was shown and the
\* edit itself.
SaveReading(t) ==
    LET target == Language(tab[t].job)
        edit == counts.saves + 1
    IN
    /\ tab[t].at = "checked" /\ counts.saves < MaxSaves
    /\ VersionHolds(t)
    /\ jobs' = Append(jobs, Job(target, edit, "no"))
    /\ PointAt(Len(jobs) + 1)
    /\ Counted("saves")
    /\ tab' = [tab EXCEPT ![t] = NoTab]
    /\ latest' = [latest EXCEPT ![target] = edit]
    /\ UNCHANGED <<captures, resumer, resumed, wanted>>

Conflict(t) ==
    /\ tab[t].at = "checked"
    /\ ~VersionHolds(t)
    /\ TabOnly(t, NoTab)

-----------------------------------------------------------------------------
(* The specification *)

EditionsInit ==
    /\ jobs = <<>>
    /\ item = [job |-> 0, version |-> 1]
    /\ captures = 0
    /\ tab = [t \in Tabs |-> NoTab]
    /\ resumer = [r \in Resumers |-> NoCandidate]
    /\ resumed = {}
    /\ counts = [asks |-> 0, saves |-> 0]
    /\ latest = [l \in Targets |-> 0]
    /\ wanted = {}

EditionsNext ==
    \/ Send \/ GeneratePDF \/ SelectOriginal \/ Touch \/ PausePendingDelivery
    \/ \E target \in Targets : Translate(target)
    \/ \E j \in DOMAIN jobs : Finish(j) \/ Fail(j) \/ Mail(j)
    \/ Capture
    \/ \E r \in Resumers : FindCandidate(r) \/ Resume(r) \/ Skip(r)
    \/ \E t \in Tabs :
          OpenEditor(t) \/ ShowDraft(t) \/ Submit(t) \/ CheckRevision(t)
              \/ SaveReading(t) \/ Conflict(t)

EditionsSpec == EditionsInit /\ [][EditionsNext]_editionVars

-----------------------------------------------------------------------------
(* Properties *)

\* What the owner wrote last in a language is what the item shows in it,
\* through failed jobs, translations, resumed jobs and back ("It neither
\* overwrites captures/previous PDFs", SaveReading; editions are selected by
\* Translate and copied by prepare).
OwnerReadingKept ==
    LET current == Language(item.job)
    IN  (IF item.job = 0 THEN 0 ELSE jobs[item.job].edit) = latest[current]

\* A reading is only replaced by one that was written over it: of two editors,
\* or an editor and a worker, the second is told to reopen.
EditsBuildOnShown ==
    [][\A t \in Tabs :
          tab[t].at = "checked" /\ Len(jobs') > Len(jobs) /\ tab'[t] = NoTab
              => Body(item.job) = tab[t].body]_editionVars

\* A capture lets a failed job try again once: of the jobs in one language no
\* more are resumed than there were captures ("A capture can resume a failed
\* job once: the new job is newer than that capture").
ResumesPerCapture ==
    \A l \in Targets :
        Cardinality({j \in resumed : jobs[j].language = l}) <= captures

\* No job is mailed but one that Send reached, or that took the place of a
\* failed job Send had reached: a PDF, a translation or a saved reading never
\* asks for delivery, and a resumer that finds another job shown than the one
\* whose destination it has read does not hand that destination on.
MailOnlyWhenAsked == \A j \in DOMAIN jobs : jobs[j].mail # "no" => j \in wanted

=============================================================================
