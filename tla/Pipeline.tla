------------------------------ MODULE Pipeline ------------------------------
(***************************************************************************)
(* One run of Processor.Process (internal/processing): from a submitted    *)
(* address to an approved article and its PDF.                             *)
(*                                                                         *)
(* The owner's edit of the reading version comes first, then the saved     *)
(* page, then the sources of internal/capture in their order, the text of  *)
(* the X embed, and a browser the owner may take over.  A page from        *)
(* any of them but the edit is published only after the AI approved it     *)
(* (internal/ai) and the calls were recorded.                              *)
(*                                                                         *)
(* Two contexts end the run: that of the job (a lost lease, a shutdown) and*)
(* the eight minutes shared by the sources.  Both are variables; a step    *)
(* reads them where the code does.                                         *)
(***************************************************************************)
EXTENDS Naturals, Sequences

CONSTANTS
    Submissions,    \* submitted addresses, by kind; see Addresses
    Provider,       \* how the AI is reached
    Languages       \* languages a reading can be translated to

\* A plain page, a post on X, its address at the mirror, a snapshot of the
\* Wayback Machine, of archive.ph, and a short archive address that does not
\* name its source.
Addresses == {"page", "post", "mirrored", "wayback", "ph", "short"}

ASSUME PipelineAssumption ==
    /\ Submissions \subseteq Addresses
    /\ Provider \in {"key", "subscription", "unconfigured"}
    /\ "" \notin Languages

VARIABLES
    submitted,      \* the address of the job
    language,       \* the language asked for, or ""
    pc,             \* where Process is
    ctx, budget,    \* the context of the job, that of the sources
    left,           \* the sources still to come
    src,            \* the source at hand
    got,            \* what its retrieval returned
    tries,          \* whether an attempt was made in the loop over the sources
    fallback,       \* the text of the embed is kept
    originalErr, transient,
    attempts,       \* the calls of this approval: their statuses
    verdict,        \* what Analyze returns
    outcome,        \* what Process returns, and where it ended
    unrecorded,     \* history: calls that are not in the database
    proof,          \* history: the recorded attempt of this approval
    storeDown,      \* history: a record was refused by the database
    own             \* history: the last failure of the submitted address

envVars == <<submitted, ctx, budget>>
loopVars == <<left, tries, fallback, originalErr, transient, own>>
callVars == <<attempts, verdict, unrecorded, proof, storeDown>>
pipelineVars == <<envVars, language, pc, src, got, loopVars, callVars, outcome>>

-----------------------------------------------------------------------------
(* Errors *)

Error(cat, retry) == [cat |-> cat, retry |-> retry]
NoError == Error("none", FALSE)

\* The error of a context or of SetStage: not a ProcessingError.
Raw == Error("raw", FALSE)

Recoverable(e) ==
    e.cat \in {"paywall", "access_denied", "fetch_failed", "render_timeout", "insufficient",
               "unsupported", "pdf_quality", "format_failed"}

\* The context a step runs under.
Live == ctx = "live" /\ (src \in {"edit", "saved"} \/ budget = "live")

\* What a renderer or a fetcher reports, and mapRenderError.
RenderFailures == {"blocked", "timeout", "limit", "other"}

MapRenderError(f) ==
    IF ~Live THEN Raw
    ELSE CASE f = "blocked" -> Error("blocked_target", FALSE)
           [] f = "timeout" -> Error("render_timeout", TRUE)
           [] f = "limit" -> Error("fetch_failed", FALSE)
           [] OTHER -> Error("fetch_failed", TRUE)

-----------------------------------------------------------------------------
(* Sources *)

\* The part of the order that is known before anything is retrieved.
FirstSources(s) ==
    (CASE s = "post" -> <<"mirror", "embed">> [] s = "mirrored" -> <<s>> [] OTHER -> <<>>)
        \o <<s, "archives">>

Static(u) == u \in {"mirror", "embed", "canonical"}

\* Archives.Candidates: what the archives answer for s.  The query of CDX
\* never answers with the submitted snapshot.
Candidates(s, available, cdx) ==
    LET snapshot == IF available # "" /\ available # s THEN available ELSE cdx IN
    IF s = "short" THEN <<>>
    ELSE (IF s \in {"wayback", "ph"} THEN <<"page">> ELSE <<>>)
            \o (IF snapshot = "" THEN <<>> ELSE <<snapshot>>)
            \o <<"ph", "is">>

MaxArchives == 3

\* At most three of them, without the submitted address.
ArchiveSources(s, available, cdx) ==
    LET others == SelectSeq(Candidates(s, available, cdx), LAMBDA u : u # s)
    IN  SubSeq(others, 1, IF Len(others) < MaxArchives THEN Len(others) ELSE MaxArchives)

-----------------------------------------------------------------------------
(* How an error goes on *)

End(o) == pc' = "over" /\ outcome' = o
Goto(where) == pc' = where /\ UNCHANGED outcome

Failing(e) == [ok |-> FALSE, err |-> e, at |-> pc]
Published == [ok |-> TRUE, err |-> NoError, at |-> pc]
NoProof == [src |-> "none", status |-> "none", language |-> ""]
NotOver == [ok |-> FALSE, err |-> NoError, at |-> "none"]

\* Mutant of Original: every source that fails is remembered as the original.
OriginalLatest(e) == e

Original(e) == IF src = submitted \/ originalErr = NoError THEN e ELSE originalErr

\* An archive that is blocked by policy does not stop the others.
StopsLoop(e) ==
    ~Recoverable(e) /\ ~(e.cat = "blocked_target" /\ src # submitted) /\ budget = "live" /\ ctx = "live"

\* The page at hand failed with e.
Failed(e) ==
    IF src = "saved" /\ Recoverable(e) /\ ctx = "live"
    THEN \/ Goto("sources") /\ UNCHANGED loopVars
         \/ End(Failing(Raw)) /\ UNCHANGED loopVars
    ELSE
    IF src \in {"saved", "edit", "browser"} \/ (src = "fallback" /\ ~Recoverable(e))
    THEN End(Failing(e)) /\ UNCHANGED loopVars
    ELSE
    IF src = "fallback" THEN Goto("exhausted") /\ UNCHANGED loopVars
    ELSE    /\ originalErr' = Original(e)
            /\ transient' = (transient \/ (e # Raw /\ src # submitted /\ e.retry))
            /\ own' = IF src = submitted THEN e ELSE own
            /\ IF StopsLoop(e) THEN End(Failing(e)) ELSE Goto("next")
            /\ UNCHANGED <<left, tries, fallback>>

-----------------------------------------------------------------------------
(* Process, up to the sources *)

ReadEdit ==
    /\ pc = "edit"
    /\ \/ End(Failing(Error("storage_failed", TRUE)))
       \/ ctx = "live" /\ Goto("language")
       \/ ctx = "live" /\ End(Failing(Error("insufficient", FALSE)))
       \/ ctx = "live" /\ Goto("format")
    /\ UNCHANGED <<envVars, language, src, got, loopVars, callVars>>

\* Translate stores valid languages only, so that check never fails.
ReadLanguage ==
    /\ pc = "language"
    /\ \/ End(Failing(Error("storage_failed", TRUE))) /\ UNCHANGED <<language, src>>
       \/ /\ ctx = "live" /\ Goto("saved") /\ src' = "saved"
          /\ \E l \in Languages \cup {""} : language' = l
    /\ UNCHANGED <<envVars, got, loopVars, callVars>>

\* SavedPage and RenderSaved.
ReadSaved ==
    /\ pc = "saved"
    /\ \/ End(Failing(Error("fetch_failed", TRUE)))
       \/ ctx = "live" /\ Goto("sources")
       \/ \E f \in RenderFailures : End(Failing(MapRenderError(f)))
       \/ ctx = "live" /\ Goto("extract")
    /\ UNCHANGED <<envVars, language, src, got, loopVars, callVars>>

StartSources ==
    /\ pc = "sources"
    /\ budget' = "live" /\ left' = FirstSources(submitted)
    /\ Goto("next")
    /\ UNCHANGED <<submitted, ctx, language, src, got, tries, fallback, originalErr,
                   transient, own, callVars>>

-----------------------------------------------------------------------------
(* The loop over the sources *)

\* A fallback that was retrieved is kept for the end.
Keeps(u, result) == u = "embed" /\ result = "page"

\* The next source is retrieved; emit then looks at the context again.
Fetch ==
    /\ pc = "next" /\ left # <<>> /\ Head(left) # "archives"
    /\ IF budget = "live" /\ ctx = "live"
       THEN \E result \in RenderFailures \cup {"page"}, moved \in BOOLEAN :
               /\ src' = Head(left) /\ got' = result
               /\ moved => Keeps(Head(left), result)
               \* The embed names the canonical address of the post.
               /\ left' = IF moved THEN <<"canonical">> \o Tail(left) ELSE Tail(left)
               /\ fallback' = (fallback \/ Keeps(Head(left), result))
               /\ Goto(IF Keeps(Head(left), result) THEN "next" ELSE "attempt")
       ELSE Goto("exhausted") /\ UNCHANGED <<src, got, left, fallback>>
    /\ UNCHANGED <<envVars, language, tries, originalErr, transient, own, callVars>>

Discover ==
    /\ pc = "next" /\ left = <<"archives">>
    /\ \E available \in {"", "wayback"}, cdx \in {"", "cdx"} :
          left' = IF budget = "live" /\ ctx = "live" THEN ArchiveSources(submitted, available, cdx) ELSE <<>>
    /\ Goto("next")
    /\ UNCHANGED <<envVars, language, src, got, tries, fallback, originalErr, transient, own, callVars>>

NoMoreSources ==
    /\ pc = "next" /\ left = <<>>
    /\ Goto("exhausted")
    /\ UNCHANGED <<envVars, language, src, got, loopVars, callVars>>

\* SetStage before every attempt but the first; it may fail.
Stage ==
    /\ pc = "attempt"
    /\ tries' = TRUE
    /\ \/ tries /\ End(Failing(Raw))
       \/ (tries => ctx = "live") /\ Goto("render")
    /\ UNCHANGED <<envVars, language, src, got, left, fallback, originalErr, transient, own, callVars>>

\* processAttempt: a static source is rendered in the browser first.
Rendered == IF got # "page" THEN {got} ELSE IF Static(src) \/ src = "fallback"
            THEN RenderFailures \cup {"page"} ELSE {"page"}

Attempt ==
    /\ pc = "render"
    /\ \E r \in Rendered :
          IF r = "page" THEN Goto("extract") /\ UNCHANGED loopVars ELSE Failed(MapRenderError(r))
    /\ UNCHANGED <<envVars, language, src, got, callVars>>

\* processPage up to the approval: a page without a screenshot, a SetStage
\* that fails, or a request for the AI.
Extract ==
    /\ pc = "extract"
    /\ \/ Failed(Error("fetch_failed", TRUE))
       \/ Failed(Raw)
       \/ ctx = "live" /\ Goto("analyze") /\ UNCHANGED loopVars
    /\ got' = "none" /\ proof' = NoProof
    /\ UNCHANGED <<envVars, language, src, attempts, verdict, unrecorded, storeDown>>

-----------------------------------------------------------------------------
(* Client.Analyze *)

\* classifyHTTPStatus and mapProcessingError; "invalid" is a request that is
\* refused or an answer that is too large.
ClassifyStatus == {"auth", "model", "unavailable", "invalid"}

CallWithKey == ClassifyStatus \cup {"malformed", "answer"}

\* Only response.completed authorizes the text of a stream.
ReadResponsesStream == {"answer", "malformed", "invalid", "unavailable"}

SubscriptionCall == {"auth", "unavailable", "invalid"} \cup ClassifyStatus \cup ReadResponsesStream

Call ==
    IF Provider = "unconfigured" THEN {"auth"}
    ELSE IF ~Live THEN {"unavailable"}
    ELSE IF Provider = "key" THEN CallWithKey ELSE SubscriptionCall

MapProcessingError(code) ==
    CASE code = "unavailable" -> Error("ai_unavailable", TRUE)
      [] code = "auth" -> Error("ai_auth_failed", FALSE)
      [] code = "model" -> Error("ai_model_unsupported", FALSE)
      [] code = "error_page" -> Error("fetch_failed", FALSE)
      [] code \in {"paywall", "access_denied", "unsupported", "insufficient"} -> Error(code, FALSE)
      [] OTHER -> Error("ai_invalid_response", FALSE)

Classes == {"article", "paywall", "access_denied", "error_page", "unsupported"}

\* The answers of a model; "none" is what is not in the schema.
Answers == [class : Classes \cup {"none"},
            decision : {"accept", "replace", "reject", "none"}, language : Languages \cup {""}]

\* A translation is a replacement in the language that was asked for.
Translated(decision, l) == language = "" \/ (decision = "replace" /\ l = language)

\* parseApproved: "malformed", the code of a rejection, or the decision.
ParseApproved(a, candidate) ==
    IF a.class = "none" \/ (a.decision = "none" /\ a.class = "article") THEN "malformed"
    ELSE IF a.class # "article" THEN a.class
    ELSE IF a.decision = "reject" THEN "insufficient"
    ELSE IF ~Translated(a.decision, a.language) THEN "malformed"
    ELSE IF a.decision = "accept" /\ ~candidate THEN "insufficient"
    ELSE a.decision

Decided(decision, l) == [cat |-> decision, retry |-> FALSE, language |-> l]
Approving(v) == v.cat \in {"accept", "replace"}

Rejection(status, code) == [status |-> status, verdict |-> MapProcessingError(code)]

\* What becomes of the content of an answer.
Parsed(a, candidate) ==
    LET p == ParseApproved(a, candidate) IN
    IF p = "malformed" THEN Rejection(p, "invalid")
    ELSE IF p \in {"accept", "replace"}
         THEN [status |-> "succeeded", verdict |-> Decided(p, a.language)]
         ELSE Rejection("rejected", p)

\* One call: its status and the verdict.
Reply ==
    {Rejection(IF code = "malformed" THEN code ELSE "failed", code) : code \in Call \ {"answer"}}
        \cup IF "answer" \in Call THEN {Parsed(a, c) : a \in Answers, c \in BOOLEAN} ELSE {}

CallProvider(after(_)) ==
    \E r \in Reply :
        /\ attempts' = Append(attempts, r.status)
        /\ verdict' = r.verdict
        /\ unrecorded' = unrecorded + 1
        /\ pc' = after(r.status)

\* The request may be too large; then nothing is called.
Analyze ==
    /\ pc = "analyze"
    /\ \/ /\ Failed(IF Live THEN MapProcessingError("invalid") ELSE Raw)
          /\ UNCHANGED callVars
       \/ /\ CallProvider(LAMBDA status : IF status = "malformed" THEN "repair" ELSE "record")
          /\ UNCHANGED <<loopVars, outcome, proof, storeDown>>
    /\ UNCHANGED <<envVars, language, src, got>>

\* One repair, and only of an answer that is malformed.
Repair ==
    /\ pc = "repair"
    /\ \/ pc' = "record" /\ UNCHANGED <<attempts, verdict, unrecorded>>
       \/ CallProvider(LAMBDA status : "record")
    /\ UNCHANGED <<envVars, language, src, got, loopVars, outcome, proof, storeDown>>

-----------------------------------------------------------------------------
(* ArticleApprover.Approve *)

\* Mutant of MayRecord: the record is written under the context of the job.
MayRecordLive == Live

\* The record is written under a context of its own when that of the job is
\* done.
MayRecord == TRUE

\* Mutant of AfterRefusal: the article is approved without a record.
AfterRefusalGoOn == IF Approving(verdict) THEN Goto("approve") /\ UNCHANGED loopVars
                    ELSE Failed(Error("storage_failed", TRUE))

AfterRefusal == Failed(Error("storage_failed", TRUE))

Record ==
    /\ pc = "record"
    /\ \/ /\ MayRecord
          /\ unrecorded' = 0
          /\ proof' = [src |-> src, status |-> attempts[Len(attempts)],
                       language |-> IF Approving(verdict) THEN verdict.language ELSE ""]
          /\ IF Approving(verdict) THEN Goto("approve") /\ UNCHANGED loopVars
             ELSE Failed(IF Live THEN verdict ELSE Raw)
          /\ UNCHANGED storeDown
       \/ AfterRefusal /\ storeDown' = TRUE /\ UNCHANGED <<unrecorded, proof>>
       \/ ~MayRecord /\ AfterRefusal /\ UNCHANGED <<unrecorded, proof, storeDown>>
    /\ attempts' = <<>>
    /\ verdict' = IF pc' = "approve" THEN verdict ELSE NoError
    /\ UNCHANGED <<envVars, language, src, got>>

\* The checks of Approve and of approveArticle.
ApproveArticle ==
    /\ pc = "approve"
    /\ \/ Translated(verdict.cat, verdict.language) /\ Goto("format") /\ UNCHANGED loopVars
       \/ Failed(Error("ai_invalid_response", FALSE))
       \/ Failed(Error("insufficient", FALSE))
    /\ verdict' = NoError
    /\ UNCHANGED <<envVars, language, src, got, attempts, unrecorded, proof, storeDown>>

\* formatArticle: SetStage, Pandoc and the checks of the PDF.
FormatArticle ==
    /\ pc = "format"
    /\ \/ Live /\ End(Published) /\ UNCHANGED loopVars
       \/ Failed(Raw)
       \/ Live /\ \E cat \in {"pdf_quality", "format_failed"} : Failed(Error(cat, FALSE))
    /\ UNCHANGED <<envVars, language, src, got, callVars>>

-----------------------------------------------------------------------------
(* After the sources *)

\* The text of the embed, under the name of a fallback.
TryFallback ==
    /\ pc = "exhausted" /\ fallback /\ budget = "live" /\ ctx = "live"
    /\ fallback' = FALSE /\ src' = "fallback" /\ got' = "page"
    /\ Goto("render") \/ End(Failing(Raw))
    /\ UNCHANGED <<envVars, language, left, tries, originalErr, transient, own, callVars>>

\* The browser session of RecoverySession; it may not be configured, or fail.
RecoverInBrowser ==
    /\ pc = "exhausted" /\ ~(fallback /\ budget = "live") /\ ctx = "live"
    /\ \/ budget = "live" /\ End(Failing(Raw)) /\ UNCHANGED src
       \/ budget = "live" /\ Goto("extract") /\ src' = "browser"
       \/ Goto("final") /\ UNCHANGED src
    /\ UNCHANGED <<envVars, language, got, loopVars, callVars>>

JobIsOver ==
    /\ pc = "exhausted" /\ ctx = "done"
    /\ End(Failing(Raw))
    /\ UNCHANGED <<envVars, language, src, got, loopVars, callVars>>

\* All sources failed: the original failure, which is retried if a source
\* other than the submitted address may work later.
FinalError ==
    IF originalErr \in {NoError, Raw} THEN Raw
    ELSE [originalErr EXCEPT !.retry = @ \/ transient]

ReportOriginal ==
    /\ pc = "final"
    /\ End(Failing(FinalError))
    /\ UNCHANGED <<envVars, language, src, got, loopVars, callVars>>

-----------------------------------------------------------------------------
\* A shutdown, or the lease of the job is lost.
Cancel ==
    /\ ctx = "live" /\ pc # "over"
    /\ ctx' = "done"
    /\ UNCHANGED <<submitted, budget, language, pc, src, got, loopVars, callVars, outcome>>

\* Eight minutes after the sources were started.
Deadline ==
    /\ budget = "live" /\ pc # "over"
    /\ budget' = "done"
    /\ UNCHANGED <<submitted, ctx, language, pc, src, got, loopVars, callVars, outcome>>

PipelineInit ==
    /\ submitted \in Submissions
    /\ language = "" /\ pc = "edit" /\ ctx = "live" /\ budget = "off"
    /\ left = <<>> /\ src = "edit" /\ got = "none" /\ tries = FALSE /\ fallback = FALSE
    /\ originalErr = NoError /\ transient = FALSE
    /\ attempts = <<>> /\ verdict = NoError /\ outcome = NotOver
    /\ unrecorded = 0 /\ storeDown = FALSE /\ own = NoError
    /\ proof = NoProof

PipelineNext ==
    \/ ReadEdit \/ ReadLanguage \/ ReadSaved \/ StartSources
    \/ Fetch \/ Discover \/ NoMoreSources \/ Stage \/ Attempt \/ Extract
    \/ Analyze \/ Repair \/ Record \/ ApproveArticle \/ FormatArticle
    \/ TryFallback \/ RecoverInBrowser \/ JobIsOver \/ ReportOriginal
    \/ Cancel \/ Deadline

PipelineSpec == PipelineInit /\ [][PipelineNext]_pipelineVars

-----------------------------------------------------------------------------
(* Properties *)

\* A PDF is published from the owner's own edit, or from a page whose last
\* call is recorded as a success, for this page and in the language asked for.
OnlyApprovedIsPublished ==
    outcome.ok /\ src # "edit" =>
        /\ proof.src = src /\ proof.status = "succeeded"
        /\ language # "" => proof.language = language

\* Calls remain durably recorded (README, "AI calls remain durably recorded"):
\* before the next source is tried and when the run is over, whatever happened
\* to the job meanwhile, unless the database refused a record.
CallsAreRecorded ==
    unrecorded > 0 => pc \in {"repair", "record"} \/ storeDown

\* When all sources have failed the category of the submitted address is the
\* one reported, and it is never made final while another source may recover.
OriginalFailureKept ==
    outcome.at = "final" /\ own \notin {NoError, Raw} =>
        outcome.err.cat = own.cat /\ (own.retry => outcome.err.retry)

=============================================================================
