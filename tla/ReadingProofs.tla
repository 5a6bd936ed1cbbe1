--------------------------- MODULE ReadingProofs ---------------------------
(***************************************************************************)
(* What Process publishes was approved and recorded, for every kind of     *)
(* address, provider and set of languages; and the readings of one item    *)
(* are the owner's, for every number of requests, editors, captures and    *)
(* callers of ResumeRecovered.                                             *)
(***************************************************************************)
EXTENDS Pipeline, Editions, FiniteSetTheorems, TLAPS

-----------------------------------------------------------------------------
(* The run of Process *)

Categories ==
    {"none", "raw", "blocked_target", "render_timeout", "fetch_failed", "storage_failed",
     "ai_unavailable", "ai_auth_failed", "ai_model_unsupported", "ai_invalid_response",
     "paywall", "access_denied", "unsupported", "insufficient", "pdf_quality", "format_failed"}
Errors == [cat : Categories, retry : BOOLEAN]
Statuses == {"malformed", "succeeded", "rejected", "failed"}

\* What the submitted address reported is what the loop remembers.
OriginalIsOwn ==
    /\ own \in Errors /\ transient \in BOOLEAN
    /\ own # NoError => originalErr = own

\* A verdict is an error, or an approval in the last call that was made.
CallsMade ==
    /\ unrecorded \in Nat /\ attempts \in Seq(Statuses)
    /\ pc \in {"repair", "record"} =>
          /\ attempts # <<>>
          /\ IF Approving(verdict) THEN attempts[Len(attempts)] = "succeeded"
             ELSE verdict \in Errors

\* The page at hand has a recorded approval.
Approved ==
    /\ proof.src = src /\ proof.status = "succeeded"
    /\ language # "" => proof.language = language

ApprovalFirst ==
    /\ pc \in {"edit", "language"} => src = "edit"
    /\ pc = "approve" => /\ Approving(verdict)
                         /\ proof.src = src /\ proof.status = "succeeded"
                         /\ proof.language = verdict.language
    /\ pc = "format" /\ src # "edit" => Approved

OverAtTheEnd == pc # "over" => ~outcome.ok /\ outcome.at # "final"

\* The inductive invariant.
PipelineInv ==
    /\ OriginalIsOwn /\ CallsMade /\ ApprovalFirst /\ OverAtTheEnd
    /\ OnlyApprovedIsPublished /\ CallsAreRecorded /\ OriginalFailureKept

LEMMA ErrorTypes ==
  ASSUME NEW c \in Categories, NEW r \in BOOLEAN
  PROVE  Error(c, r) \in Errors /\ ~Approving(Error(c, r))
  BY DEF Errors, Categories, Approving, Error

LEMMA RenderErrors == ASSUME NEW f PROVE MapRenderError(f) \in Errors
<1>1. MapRenderError(f) \in
          {Raw, Error("blocked_target", FALSE), Error("render_timeout", TRUE),
           Error("fetch_failed", FALSE), Error("fetch_failed", TRUE)}
  BY Zenon DEF MapRenderError
<1> QED BY <1>1, ErrorTypes, Zenon DEF Raw, Categories

LEMMA ProcessingErrors ==
  ASSUME NEW code
  PROVE  MapProcessingError(code) \in Errors /\ ~Approving(MapProcessingError(code))
<1>1. \/ MapProcessingError(code) \in
            {Error("ai_unavailable", TRUE), Error("ai_auth_failed", FALSE),
             Error("ai_model_unsupported", FALSE), Error("fetch_failed", FALSE),
             Error("ai_invalid_response", FALSE)}
      \/ MapProcessingError(code) = Error(code, FALSE)
         /\ code \in {"paywall", "access_denied", "unsupported", "insufficient"}
  BY Zenon DEF MapProcessingError
<1> QED BY <1>1, ErrorTypes, Zenon DEF Categories

USE DEF NoError, Raw, Error, NoProof

LEMMA Rejections ==
  ASSUME NEW status \in Statuses, NEW code, NEW r, r = Rejection(status, code)
  PROVE  r.status \in Statuses /\ ~Approving(r.verdict) /\ r.verdict \in Errors
  BY ProcessingErrors DEF Rejection

\* Only a call that succeeded approves.
LEMMA Replies ==
  ASSUME NEW r \in Reply
  PROVE  /\ r.status \in Statuses
         /\ IF Approving(r.verdict) THEN r.status = "succeeded" ELSE r.verdict \in Errors
<1>1. \/ \E code : r = Rejection(IF code = "malformed" THEN code ELSE "failed", code)
      \/ \E a \in Answers, c \in BOOLEAN : r = Parsed(a, c)
  BY DEF Reply
<1>2. ASSUME NEW code, r = Rejection(IF code = "malformed" THEN code ELSE "failed", code)
      PROVE  r.status \in Statuses /\ ~Approving(r.verdict) /\ r.verdict \in Errors
  BY <1>2, Rejections DEF Statuses
<1>3. ASSUME NEW p, NEW l,
             r = IF p = "malformed" THEN Rejection(p, "invalid")
                 ELSE IF p \in {"accept", "replace"}
                      THEN [status |-> "succeeded", verdict |-> Decided(p, l)]
                      ELSE Rejection("rejected", p)
      PROVE  /\ r.status \in Statuses
             /\ IF Approving(r.verdict) THEN r.status = "succeeded" ELSE r.verdict \in Errors
  <2>1. CASE p = "malformed" \/ p \notin {"accept", "replace"}
    BY <1>3, <2>1, Rejections DEF Statuses
  <2>2. CASE p \in {"accept", "replace"}
    BY <1>3, <2>2 DEF Statuses, Decided, Approving
  <2> QED BY <2>1, <2>2
<1> QED BY <1>1, <1>2, <1>3 DEF Parsed

\* Where an error may lead, and what the loop remembers of it.
LEMMA FailedFacts ==
  ASSUME NEW e \in Errors, Failed(e), OriginalIsOwn, pc # "final"
  PROVE  /\ OriginalIsOwn'
         /\ pc' \in {"sources", "exhausted", "next", "over"}
         /\ IF pc' = "over" THEN ~outcome'.ok /\ outcome'.at # "final" ELSE outcome' = outcome
<1>1. \A o : o = Failing(Raw) \/ o = Failing(e) => ~o.ok /\ o.at # "final"
  BY DEF Failing
<1>2. CASE UNCHANGED loopVars
  <2>1. OriginalIsOwn'
    BY <1>2 DEF OriginalIsOwn, loopVars
  <2> QED BY <1>1, <2>1 DEF Failed, Goto, End
<1>3. CASE ~ UNCHANGED loopVars
  <2>1. /\ originalErr' = Original(e)
        /\ transient' = (transient \/ (e # Raw /\ src # submitted /\ e.retry))
        /\ own' = IF src = submitted THEN e ELSE own
        /\ IF StopsLoop(e) THEN End(Failing(e)) ELSE Goto("next")
    BY <1>3 DEF Failed
  <2>2. transient' \in BOOLEAN
    BY <2>1 DEF OriginalIsOwn
  <2>3. own' \in Errors /\ (own' # NoError => originalErr' = own')
    BY <2>1 DEF OriginalIsOwn, Original
  <2> QED BY <1>1, <2>1, <2>2, <2>3 DEF OriginalIsOwn, Goto, End
<1> QED BY <1>2, <1>3

\* A step away from the approval, after which nothing is published.
LEMMA QuietStep ==
  ASSUME PipelineInv, OriginalIsOwn', ~outcome'.ok, outcome'.at # "final",
         pc' \notin {"edit", "language", "repair", "record", "approve", "format"},
         unrecorded' \in Nat, attempts' \in Seq(Statuses), CallsAreRecorded'
  PROVE  PipelineInv'
  BY DEF PipelineInv, CallsMade, ApprovalFirst, OverAtTheEnd, OnlyApprovedIsPublished,
         OriginalFailureKept

\* The same of a step that calls nobody.
LEMMA QuietWithoutCall ==
  ASSUME PipelineInv, pc \notin {"over", "repair", "record"}, OriginalIsOwn',
         UNCHANGED <<unrecorded, attempts, storeDown>>,
         pc' \notin {"edit", "language", "repair", "record", "approve", "format"},
         outcome' = outcome \/ (~outcome'.ok /\ outcome'.at # "final")
  PROVE  PipelineInv'
<1>1. ~outcome'.ok /\ outcome'.at # "final"
  BY DEF PipelineInv, OverAtTheEnd
<1>2. unrecorded' \in Nat /\ attempts' \in Seq(Statuses) /\ CallsAreRecorded'
  BY DEF PipelineInv, CallsMade, CallsAreRecorded
<1> QED BY <1>1, <1>2, QuietStep

\* A page that failed, when the calls are accounted for.
LEMMA FailedStep ==
  ASSUME PipelineInv, pc \notin {"over", "final"}, NEW e \in Errors, Failed(e),
         unrecorded' \in Nat, attempts' \in Seq(Statuses),
         \/ unrecorded' = 0
         \/ storeDown'
         \/ UNCHANGED <<unrecorded, storeDown>> /\ pc \notin {"repair", "record"}
  PROVE  PipelineInv'
<1>1. /\ OriginalIsOwn'
      /\ pc' \in {"sources", "exhausted", "next", "over"}
      /\ IF pc' = "over" THEN ~outcome'.ok /\ outcome'.at # "final" ELSE outcome' = outcome
  BY FailedFacts DEF PipelineInv
<1>2. ~outcome'.ok /\ outcome'.at # "final"
  BY <1>1 DEF PipelineInv, OverAtTheEnd
<1>3. CallsAreRecorded'
  BY DEF PipelineInv, CallsMade, CallsAreRecorded
<1> QED BY <1>1, <1>2, <1>3, QuietStep

LEMMA SameLoop ==
  ASSUME PipelineInv, UNCHANGED <<own, originalErr, transient>>
  PROVE  OriginalIsOwn'
  BY DEF PipelineInv, OriginalIsOwn

LEMMA Constants ==
  /\ Raw \in Errors /\ \A r \in BOOLEAN : Error("fetch_failed", r) \in Errors
  /\ Error("storage_failed", TRUE) \in Errors
  /\ Error("ai_invalid_response", FALSE) \in Errors
  /\ Error("insufficient", FALSE) \in Errors
  /\ Error("pdf_quality", FALSE) \in Errors
  /\ Error("format_failed", FALSE) \in Errors
<1> HIDE DEF Error
<1> QED BY ErrorTypes, Zenon DEF Categories, Raw

LEMMA EndsBadly ==
  ASSUME NEW e, pc # "final", End(Failing(e))
  PROVE  ~outcome'.ok /\ outcome'.at # "final" /\ pc' = "over"
  BY DEF End, Failing

LEMMA BeginningKeeps ==
  ASSUME PipelineInv, ReadEdit \/ ReadLanguage \/ ReadSaved \/ StartSources
  PROVE  PipelineInv'
<1>1. OriginalIsOwn'
  BY SameLoop DEF ReadEdit, ReadLanguage, ReadSaved, StartSources, loopVars
<1>2. /\ pc \in {"edit", "language", "saved", "sources"}
      /\ UNCHANGED <<unrecorded, attempts, storeDown, proof, verdict>>
      /\ outcome' = outcome \/ (~outcome'.ok /\ outcome'.at # "final")
  <2>1. CASE ReadEdit
    BY EndsBadly, <2>1 DEF ReadEdit, callVars, Goto, End
  <2>2. CASE ReadLanguage
    BY EndsBadly, <2>2 DEF ReadLanguage, callVars, Goto, End
  <2>3. CASE ReadSaved
    BY EndsBadly, <2>3 DEF ReadSaved, callVars, Goto, End
  <2>4. CASE StartSources
    BY EndsBadly, <2>4 DEF StartSources, callVars, Goto, End
  <2> QED BY <2>1, <2>2, <2>3, <2>4
<1>3. CASE pc' \notin {"edit", "language", "repair", "record", "approve", "format"}
  BY <1>1, <1>2, <1>3, QuietWithoutCall
<1>4. CASE pc' \in {"edit", "language", "repair", "record", "approve", "format"}
  <2>1. pc' \in {"language", "format"} /\ pc = "edit" /\ src' = src /\ outcome' = outcome
    BY <1>4 DEF ReadEdit, ReadLanguage, ReadSaved, StartSources, Goto, End
  <2>2. src' = "edit" /\ ~outcome'.ok /\ outcome'.at # "final"
    BY <2>1 DEF PipelineInv, ApprovalFirst, OverAtTheEnd
  <2> QED BY <1>1, <1>2, <2>1, <2>2
          DEF PipelineInv, CallsMade, ApprovalFirst, OverAtTheEnd, OnlyApprovedIsPublished,
              OriginalFailureKept, CallsAreRecorded
<1> QED BY <1>3, <1>4

LEMMA LoopKeeps ==
  ASSUME PipelineInv,
         Fetch \/ Discover \/ NoMoreSources \/ Stage \/ TryFallback \/ RecoverInBrowser \/ JobIsOver
  PROVE  PipelineInv'
<1>1. OriginalIsOwn'
  BY SameLoop DEF Fetch, Discover, NoMoreSources, Stage, TryFallback, RecoverInBrowser, JobIsOver, loopVars
<1>2. /\ pc \in {"next", "attempt", "exhausted"}
      /\ UNCHANGED <<unrecorded, attempts, storeDown>>
      /\ outcome' = outcome \/ (~outcome'.ok /\ outcome'.at # "final")
      /\ pc' \in {"next", "attempt", "exhausted", "render", "extract", "final", "over"}
  <2>1. CASE Fetch
    BY EndsBadly, <2>1 DEF Fetch, callVars, Goto, End
  <2>2. CASE Discover
    BY EndsBadly, <2>2 DEF Discover, callVars, Goto, End
  <2>3. CASE NoMoreSources
    BY EndsBadly, <2>3 DEF NoMoreSources, callVars, Goto, End
  <2>4. CASE Stage
    BY EndsBadly, <2>4 DEF Stage, callVars, Goto, End
  <2>5. CASE TryFallback
    BY EndsBadly, <2>5 DEF TryFallback, callVars, Goto, End
  <2>6. CASE RecoverInBrowser
    BY EndsBadly, <2>6 DEF RecoverInBrowser, callVars, Goto, End
  <2>7. CASE JobIsOver
    BY EndsBadly, <2>7 DEF JobIsOver, callVars, Goto, End
  <2> QED BY <2>1, <2>2, <2>3, <2>4, <2>5, <2>6, <2>7
<1> QED BY <1>1, <1>2, QuietWithoutCall

LEMMA AttemptKeeps ==
  ASSUME PipelineInv, Attempt \/ Extract
  PROVE  PipelineInv'
<1>1. /\ pc \in {"render", "extract"}
      /\ UNCHANGED <<unrecorded, attempts, storeDown>>
      /\ unrecorded' \in Nat /\ attempts' \in Seq(Statuses)
  BY DEF Attempt, Extract, callVars, PipelineInv, CallsMade
<1>2. ASSUME NEW e \in Errors, Failed(e)
      PROVE  PipelineInv'
  BY <1>1, <1>2, FailedStep
<1>3. ASSUME Goto("extract") \/ Goto("analyze"), UNCHANGED loopVars
      PROVE  PipelineInv'
  <2>1. OriginalIsOwn'
    BY <1>3, SameLoop DEF loopVars
  <2> QED BY <1>1, <1>3, <2>1, QuietWithoutCall DEF Goto
<1>4. \/ \E r : Failed(MapRenderError(r))
      \/ Failed(Error("fetch_failed", TRUE)) \/ Failed(Raw)
      \/ (Goto("extract") \/ Goto("analyze")) /\ UNCHANGED loopVars
  BY DEF Attempt, Extract
<1> QED BY <1>2, <1>3, <1>4, RenderErrors, Constants

\* A call that was made waits to be recorded.
LEMMA CallFacts ==
  ASSUME PipelineInv, pc \in {"analyze", "repair"}, NEW r \in Reply,
         attempts' = Append(attempts, r.status), verdict' = r.verdict,
         unrecorded' = unrecorded + 1, pc' \in {"repair", "record"},
         UNCHANGED <<own, originalErr, transient, outcome, src, language, proof>>
  PROVE  PipelineInv'
<1>1. OriginalIsOwn'
  BY SameLoop
<1>2. /\ attempts' \in Seq(Statuses) /\ attempts' # <<>>
      /\ attempts'[Len(attempts')] = r.status
  <2>1. attempts \in Seq(Statuses) /\ r.status \in Statuses
    BY Replies DEF PipelineInv, CallsMade
  <2> QED BY <2>1
<1>3. CallsMade' /\ CallsAreRecorded'
  BY <1>2, Replies DEF PipelineInv, CallsMade, CallsAreRecorded, Approving
<1>4. ~outcome'.ok /\ outcome'.at # "final"
  BY DEF PipelineInv, OverAtTheEnd
<1> QED BY <1>1, <1>3, <1>4
        DEF PipelineInv, ApprovalFirst, OverAtTheEnd, OnlyApprovedIsPublished, OriginalFailureKept

LEMMA AnalyzeKeeps ==
  ASSUME PipelineInv, Analyze
  PROVE  PipelineInv'
<1>1. CASE \E r \in Reply :
             /\ attempts' = Append(attempts, r.status) /\ verdict' = r.verdict
             /\ unrecorded' = unrecorded + 1 /\ pc' \in {"repair", "record"}
             /\ UNCHANGED <<loopVars, outcome, proof, storeDown>>
  BY <1>1, CallFacts DEF Analyze, loopVars
<1>2. CASE Failed(IF Live THEN MapProcessingError("invalid") ELSE Raw) /\ UNCHANGED callVars
  <2>1. PICK e \in Errors : Failed(e)
    BY <1>2, ProcessingErrors, Constants
  <2>2. /\ pc = "analyze" /\ UNCHANGED <<unrecorded, storeDown, attempts>>
        /\ unrecorded \in Nat /\ attempts \in Seq(Statuses)
    BY <1>2 DEF Analyze, callVars, PipelineInv, CallsMade
  <2> QED BY <2>1, <2>2, FailedStep
<1> QED BY <1>1, <1>2 DEF Analyze, CallProvider

LEMMA RepairKeeps ==
  ASSUME PipelineInv, Repair
  PROVE  PipelineInv'
<1>1. CASE pc' = "record" /\ UNCHANGED <<attempts, verdict, unrecorded>>
  <2>1. OriginalIsOwn'
    BY SameLoop DEF Repair, loopVars
  <2>2. UNCHANGED <<outcome, src, language, proof>> /\ pc = "repair"
    BY DEF Repair
  <2>3. ~outcome'.ok /\ outcome'.at # "final"
    BY <2>2 DEF PipelineInv, OverAtTheEnd
  <2>4. CallsMade' /\ CallsAreRecorded'
    BY <1>1, <2>2 DEF PipelineInv, CallsMade, CallsAreRecorded, Approving
  <2> QED BY <1>1, <2>1, <2>3, <2>4
          DEF PipelineInv, ApprovalFirst, OverAtTheEnd, OnlyApprovedIsPublished, OriginalFailureKept
<1>2. CASE \E r \in Reply :
             /\ attempts' = Append(attempts, r.status) /\ verdict' = r.verdict
             /\ unrecorded' = unrecorded + 1 /\ pc' = "record"
  BY <1>2, CallFacts DEF Repair, loopVars
<1> QED BY <1>1, <1>2 DEF Repair, CallProvider

\* The record of an approval is that of the page at hand.
LEMMA RecordKeeps ==
  ASSUME PipelineInv, Record
  PROVE  PipelineInv'
<1>1. /\ pc = "record" /\ attempts' = <<>> /\ UNCHANGED <<src, language>>
      /\ attempts' \in Seq(Statuses) /\ unrecorded' \in Nat
      /\ ~outcome.ok /\ outcome.at # "final"
  <2>1. pc = "record" /\ attempts' = <<>> /\ UNCHANGED <<src, language>>
    BY DEF Record
  <2>2. attempts' \in Seq(Statuses)
    BY <2>1
  <2>3. unrecorded' = 0 \/ unrecorded' = unrecorded
    BY DEF Record
  <2> QED BY <2>1, <2>2, <2>3 DEF PipelineInv, CallsMade, OverAtTheEnd
<1>2. ASSUME NEW e \in Errors, Failed(e), unrecorded' = 0 \/ storeDown'
      PROVE  PipelineInv'
  BY <1>1, <1>2, FailedStep
<1>3. CASE AfterRefusal /\ storeDown' = TRUE
  BY <1>2, <1>3, Constants DEF AfterRefusal
<1>4. CASE ~Approving(verdict) /\ Failed(IF Live THEN verdict ELSE Raw) /\ unrecorded' = 0
  BY <1>1, <1>2, <1>4, Constants DEF PipelineInv, CallsMade
<1>5. CASE /\ Approving(verdict) /\ Goto("approve") /\ UNCHANGED loopVars
           /\ unrecorded' = 0 /\ UNCHANGED storeDown
           /\ proof' = [src |-> src, status |-> attempts[Len(attempts)],
                        language |-> IF Approving(verdict) THEN verdict.language ELSE ""]
  <2>1. /\ pc' = "approve" /\ outcome' = outcome /\ verdict' = verdict
        /\ attempts[Len(attempts)] = "succeeded"
    BY <1>1, <1>5 DEF Goto, Record, PipelineInv, CallsMade
  <2>2. OriginalIsOwn'
    BY <1>5, SameLoop DEF loopVars
  <2>3. ApprovalFirst'
    BY <1>1, <1>5, <2>1 DEF ApprovalFirst, Approving
  <2>4. ~outcome'.ok /\ outcome'.at # "final"
    BY <1>1, <2>1
  <2>5. CallsMade' /\ CallsAreRecorded'
    BY <1>1, <1>5, <2>1 DEF CallsMade, CallsAreRecorded
  <2> QED BY <2>2, <2>3, <2>4, <2>5
          DEF PipelineInv, OverAtTheEnd, OnlyApprovedIsPublished, OriginalFailureKept
<1> QED BY <1>3, <1>4, <1>5 DEF Record, MayRecord

LEMMA ApproveKeeps ==
  ASSUME PipelineInv, ApproveArticle
  PROVE  PipelineInv'
<1>1. /\ pc = "approve"
      /\ UNCHANGED <<src, language, proof, attempts, unrecorded, storeDown>>
      /\ attempts' \in Seq(Statuses) /\ unrecorded' \in Nat
      /\ ~outcome.ok /\ outcome.at # "final"
  BY DEF ApproveArticle, PipelineInv, CallsMade, OverAtTheEnd
<1>2. ASSUME NEW e \in Errors, Failed(e)
      PROVE  PipelineInv'
  BY <1>1, <1>2, FailedStep
<1>3. CASE Translated(verdict.cat, verdict.language) /\ Goto("format") /\ UNCHANGED loopVars
  <2>1. OriginalIsOwn'
    BY <1>3, SameLoop DEF loopVars
  <2>2. ApprovalFirst'
    BY <1>1, <1>3 DEF PipelineInv, ApprovalFirst, Goto, Translated, Approved
  <2> QED BY <1>1, <1>3, <2>1, <2>2
          DEF PipelineInv, CallsMade, OverAtTheEnd, OnlyApprovedIsPublished, CallsAreRecorded,
              OriginalFailureKept, Goto
<1> QED BY <1>2, <1>3, Constants DEF ApproveArticle

LEMMA FormatKeeps ==
  ASSUME PipelineInv, FormatArticle
  PROVE  PipelineInv'
<1>1. /\ pc = "format"
      /\ UNCHANGED <<src, language, proof, attempts, unrecorded, storeDown>>
      /\ attempts' \in Seq(Statuses) /\ unrecorded' \in Nat
  BY DEF FormatArticle, PipelineInv, CallsMade, callVars
<1>2. ASSUME NEW e \in Errors, Failed(e)
      PROVE  PipelineInv'
  BY <1>1, <1>2, FailedStep
<1>3. CASE End(Published) /\ UNCHANGED loopVars
  <2>1. OriginalIsOwn'
    BY <1>3, SameLoop DEF loopVars
  <2>2. pc' = "over" /\ outcome'.at = "format"
    BY <1>1, <1>3 DEF End, Published
  <2>3. OnlyApprovedIsPublished'
    BY <1>1 DEF PipelineInv, ApprovalFirst, Approved, OnlyApprovedIsPublished
  <2> QED BY <1>1, <2>1, <2>2, <2>3
          DEF PipelineInv, CallsMade, ApprovalFirst, OverAtTheEnd, CallsAreRecorded, OriginalFailureKept
<1> QED BY <1>2, <1>3, Constants DEF FormatArticle

LEMMA ReportKeeps ==
  ASSUME PipelineInv, ReportOriginal
  PROVE  PipelineInv'
<1>1. /\ pc = "final" /\ pc' = "over" /\ outcome' = Failing(FinalError)
      /\ UNCHANGED <<own, originalErr, transient, unrecorded, attempts, storeDown>>
  BY DEF ReportOriginal, End, loopVars, callVars
<1>2. OriginalIsOwn'
  BY <1>1, SameLoop
<1>3. OriginalFailureKept'
  <2>1. SUFFICES ASSUME own \notin {NoError, Raw}
                 PROVE  FinalError.cat = own.cat /\ (own.retry => FinalError.retry)
    BY <1>1 DEF OriginalFailureKept, Failing
  <2>2. originalErr = own /\ own \in Errors
    BY <2>1 DEF PipelineInv, OriginalIsOwn
  <2> QED BY <2>1, <2>2 DEF FinalError, Errors
<1>4. ~outcome'.ok
  BY <1>1 DEF Failing
<1> QED BY <1>1, <1>2, <1>3, <1>4
        DEF PipelineInv, CallsMade, ApprovalFirst, OverAtTheEnd, OnlyApprovedIsPublished, CallsAreRecorded

LEMMA ContextKeeps ==
  ASSUME PipelineInv, Cancel \/ Deadline \/ UNCHANGED pipelineVars
  PROVE  PipelineInv'
<1>1. UNCHANGED <<pc, src, language, outcome, loopVars, callVars>>
  BY DEF Cancel, Deadline, pipelineVars
<1> QED BY <1>1
        DEF PipelineInv, OriginalIsOwn, CallsMade, ApprovalFirst, Approved, OverAtTheEnd,
            OnlyApprovedIsPublished, CallsAreRecorded, OriginalFailureKept, loopVars, callVars, Approving

LEMMA PipelineStarts == PipelineInit => PipelineInv
<1> SUFFICES ASSUME PipelineInit PROVE PipelineInv
  OBVIOUS
<1>1. NoError \in Errors
  BY DEF Errors, Categories
<1>2. ~outcome.ok /\ outcome.at # "final"
  BY DEF PipelineInit, NotOver
<1>3. pc = "edit" /\ src = "edit" /\ own = NoError /\ transient = FALSE /\ unrecorded = 0
      /\ attempts = <<>> /\ originalErr = NoError
  BY DEF PipelineInit
<1>4. attempts \in Seq(Statuses)
  BY <1>3
<1>5. OriginalIsOwn
  BY <1>1, <1>3 DEF OriginalIsOwn
<1>6. CallsMade /\ ApprovalFirst /\ CallsAreRecorded
  BY <1>3, <1>4 DEF CallsMade, ApprovalFirst, CallsAreRecorded
<1> QED BY <1>2, <1>5, <1>6
        DEF PipelineInv, OverAtTheEnd, OnlyApprovedIsPublished, OriginalFailureKept

LEMMA PipelineSteps == PipelineInv /\ [PipelineNext]_pipelineVars => PipelineInv'
  BY BeginningKeeps, LoopKeeps, AttemptKeeps, AnalyzeKeeps, RepairKeeps, RecordKeeps, ApproveKeeps,
     FormatKeeps, ReportKeeps, ContextKeeps DEF PipelineNext

\* Each run of Process is described by PipelineInv, whatever the sources, the
\* provider and the contexts do.
THEOREM PipelineCorrect == PipelineSpec => []PipelineInv
  BY PipelineStarts, PipelineSteps, PTL DEF PipelineSpec

\* No path through saved page, mirrors, archives, embed and browser, repaired
\* answers and refused records leads to a PDF that no recorded approval is
\* about (Approve in internal/ai/approval.go, processPage).
THEOREM PagesAreApproved == PipelineSpec => []OnlyApprovedIsPublished
<1>1. PipelineInv => OnlyApprovedIsPublished
  BY DEF PipelineInv
<1> QED BY <1>1, PipelineCorrect, PTL

\* No call of the AI is left without a record when a run goes on or ends, also
\* of a job that was cancelled meanwhile, unless the database refused one.
THEOREM NoCallIsLost == PipelineSpec => []CallsAreRecorded
<1>1. PipelineInv => CallsAreRecorded
  BY DEF PipelineInv
<1> QED BY <1>1, PipelineCorrect, PTL

\* However many mirrors, archives and embeds fail before or after it, what is
\* reported of the job is the failure of the submitted address (Process).
THEOREM SubmittedFailureIsReported == PipelineSpec => []OriginalFailureKept
<1>1. PipelineInv => OriginalFailureKept
  BY DEF PipelineInv
<1> QED BY <1>1, PipelineCorrect, PTL
-----------------------------------------------------------------------------
(* The readings of one item: the invariant *)

JobRow == [status : {"active", "ready", "mailed", "failed"}, language : Targets,
           edit : Nat, mail : {"no", "yes", "paused"}, after : Nat]
Bodies == {"none", "edit", "document", "capture"} \X Nat
TabRow == [at : {"closed", "opening", "open", "saving", "checked"}, job : Nat,
           version : Nat, body : Bodies, base : Nat]

EditionsTypes ==
    /\ jobs \in Seq(JobRow)
    /\ item \in [job : Nat, version : Nat] /\ item.job <= Len(jobs)
    /\ captures \in Nat
    /\ tab \in [Tabs -> TabRow] /\ \A t \in Tabs : tab[t].job <= Len(jobs)
    /\ resumer \in [Resumers -> [job : Nat, mail : BOOLEAN]]
    /\ resumed \subseteq DOMAIN jobs
    /\ counts \in [asks : Nat, saves : Nat]
    /\ latest \in [Targets -> Nat]

\* j is the last of the jobs in a language, 0 when there is none.
IsLast(s, target, j) ==
    \/ j = 0 /\ \A k \in DOMAIN s : s[k].language # target
    \/ /\ j \in DOMAIN s /\ s[j].language = target
       /\ \A k \in DOMAIN s : s[k].language = target => k <= j

EditOf(s, j) == IF j = 0 THEN 0 ELSE s[j].edit

\* The last job in a language carries what was written last in it, and the
\* item shows the last one of its language.
LastReadings ==
    /\ \A l \in Targets : \E j \in Nat :
           IsLast(jobs, l, j) /\ EditOf(jobs, j) = latest[l]
    /\ IsLast(jobs, Language(item.job), item.job)

\* What a caller of ResumeRecovered found failed stays failed, and a capture
\* that came after it stays; the destination it read is one Send had left.
CandidatesHold ==
    \A r \in Resumers : resumer[r] # NoCandidate =>
        /\ resumer[r].job \in DOMAIN jobs
        /\ jobs[resumer[r].job].status = "failed"
        /\ jobs[resumer[r].job].after < captures
        /\ resumer[r].mail => resumer[r].job \in wanted

\* A resumed job was made before a capture that its successors come after.
ResumedInOrder ==
    \A j \in resumed :
        /\ jobs[j].after < captures
        /\ \A k \in DOMAIN jobs :
               jobs[k].language = jobs[j].language /\ j < k
                   => jobs[j].after < jobs[k].after

\* As long as the item has the version that was compared, it shows the job the
\* editor has open, and once the revision was checked its text.
TabsHold ==
    \A t \in Tabs :
        tab[t].at \in {"saving", "checked"} =>
            /\ tab[t].base <= item.version
            /\ tab[t].base = item.version =>
                  /\ item.job = tab[t].job
                  /\ tab[t].at = "checked" => Body(item.job) = tab[t].body

EditionsInv ==
    /\ EditionsTypes /\ LastReadings /\ CandidatesHold /\ ResumedInOrder
    /\ TabsHold /\ MailOnlyWhenAsked

-----------------------------------------------------------------------------
(* Rows are only added, and keep what they are *)

Grows(s, n) ==
    /\ Len(s) <= Len(n)
    /\ \A j \in DOMAIN s :
           /\ n[j].language = s[j].language /\ n[j].edit = s[j].edit
           /\ n[j].after = s[j].after
           /\ s[j].status = "failed" => n[j].status = "failed"

\* Every job is as it was but for its status and its mail.
Kept == jobs' \in Seq(JobRow) /\ Len(jobs') = Len(jobs) /\ Grows(jobs, jobs')

\* One job is added.
Added(row) == row \in JobRow /\ jobs' = Append(jobs, row)

LEMMA Rows ==
  ASSUME NEW s \in Seq(JobRow)
  PROVE  /\ Len(s) \in Nat /\ DOMAIN s = 1..Len(s)
         /\ \A j \in DOMAIN s : s[j] \in JobRow
  OBVIOUS

LEMMA Appending ==
  ASSUME NEW s \in Seq(JobRow), NEW row \in JobRow
  PROVE  /\ Append(s, row) \in Seq(JobRow) /\ Len(Append(s, row)) = Len(s) + 1
         /\ DOMAIN Append(s, row) = 1..(Len(s) + 1)
         /\ \A j \in DOMAIN s : Append(s, row)[j] = s[j]
         /\ Append(s, row)[Len(s) + 1] = row
         /\ Grows(s, Append(s, row))
<1>1. /\ Append(s, row) \in Seq(JobRow) /\ Len(Append(s, row)) = Len(s) + 1
      /\ DOMAIN Append(s, row) = 1..(Len(s) + 1)
      /\ \A j \in DOMAIN s : Append(s, row)[j] = s[j]
      /\ Append(s, row)[Len(s) + 1] = row
  OBVIOUS
<1>2. Grows(s, Append(s, row))
  BY <1>1, Rows DEF Grows
<1> QED BY <1>1, <1>2

LEMMA LastIsUnique ==
  ASSUME NEW s \in Seq(JobRow), NEW l, NEW i, NEW j, IsLast(s, l, i), IsLast(s, l, j)
  PROVE  i = j
  BY Rows DEF IsLast

LEMMA LastKept ==
  ASSUME NEW s \in Seq(JobRow), NEW n \in Seq(JobRow), Grows(s, n), Len(n) = Len(s),
         NEW l, NEW j, IsLast(s, l, j)
  PROVE  IsLast(n, l, j) /\ EditOf(n, j) = EditOf(s, j)
  BY Rows DEF Grows, IsLast, EditOf

LEMMA LastAdded ==
  ASSUME NEW s \in Seq(JobRow), NEW row \in JobRow, NEW l, NEW j \in Nat, IsLast(s, l, j)
  PROVE  /\ IsLast(Append(s, row), row.language, Len(s) + 1)
         /\ EditOf(Append(s, row), Len(s) + 1) = row.edit
         /\ l # row.language => /\ IsLast(Append(s, row), l, j)
                                /\ EditOf(Append(s, row), j) = EditOf(s, j)
<1> DEFINE n == Append(s, row)
<1>1. /\ n \in Seq(JobRow) /\ Len(n) = Len(s) + 1 /\ DOMAIN n = 1..(Len(s) + 1)
      /\ \A k \in DOMAIN s : n[k] = s[k]
      /\ n[Len(s) + 1] = row
  BY Appending
<1>2. Len(s) \in Nat /\ DOMAIN s = 1..Len(s)
  BY Rows
<1> HIDE DEF n
<1>3. IsLast(n, row.language, Len(s) + 1)
  BY <1>1, <1>2 DEF IsLast
<1>4. EditOf(n, Len(s) + 1) = row.edit
  BY <1>1, <1>2 DEF EditOf
<1>5. ASSUME l # row.language PROVE IsLast(n, l, j) /\ EditOf(n, j) = EditOf(s, j)
  BY <1>1, <1>2, <1>5 DEF IsLast, EditOf
<1> QED BY <1>3, <1>4, <1>5 DEF n

\* Newest finds the last job.
LEMMA NewestIsLast ==
  ASSUME jobs \in Seq(JobRow), NEW l, NEW j, IsLast(jobs, l, j)
  PROVE  Newest(l) = j
<1> DEFINE made == {k \in DOMAIN jobs : jobs[k].language = l}
<1>1. CASE j = 0 /\ \A k \in DOMAIN jobs : jobs[k].language # l
  BY <1>1 DEF Newest
<1>2. CASE j \in DOMAIN jobs /\ jobs[j].language = l
           /\ \A k \in DOMAIN jobs : jobs[k].language = l => k <= j
  <2>1. j \in made /\ \A k \in made : k <= j
    BY <1>2
  <2>2. \A i \in made : (\A k \in made : k <= i) => i = j
    BY <2>1, Rows
  <2> DEFINE m == CHOOSE i \in made : \A k \in made : k <= i
  <2>3. m \in made /\ \A k \in made : k <= m
    BY <2>1
  <2>4. m = j
    BY <2>2, <2>3
  <2>5. made # {}
    BY <2>1
  <2>6. Newest(l) = m
    BY <2>5 DEF Newest
  <2> QED BY <2>4, <2>6
<1> QED BY <1>1, <1>2 DEF IsLast

-----------------------------------------------------------------------------
(* What the parts of the invariant need of a step *)

LEMMA InvFacts ==
  ASSUME EditionsInv
  PROVE  /\ jobs \in Seq(JobRow) /\ Len(jobs) \in Nat /\ DOMAIN jobs = 1..Len(jobs)
         /\ item.job \in Nat /\ item.version \in Nat /\ item.job <= Len(jobs)
         /\ captures \in Nat /\ resumed \subseteq DOMAIN jobs
         /\ latest \in [Targets -> Nat]
         /\ Language(item.job) \in Targets
         /\ IsLast(jobs, Language(item.job), item.job)
<1>1. /\ jobs \in Seq(JobRow) /\ Len(jobs) \in Nat /\ DOMAIN jobs = 1..Len(jobs)
      /\ item.job \in Nat /\ item.version \in Nat /\ item.job <= Len(jobs)
      /\ captures \in Nat /\ resumed \subseteq DOMAIN jobs
      /\ latest \in [Targets -> Nat]
  BY Rows DEF EditionsInv, EditionsTypes
<1>2. Language(item.job) \in Targets
  <2>1. CASE item.job = 0
    BY <2>1, EditionsAssumption DEF Language
  <2>2. CASE item.job # 0
    <3>1. jobs[item.job] \in JobRow
      BY <1>1, <2>2, Rows
    <3> QED BY <2>2, <3>1 DEF Language, JobRow
  <2> QED BY <2>1, <2>2
<1> QED BY <1>1, <1>2 DEF EditionsInv, LastReadings

LEMMA TypesStep ==
  ASSUME EditionsInv,
         jobs' \in Seq(JobRow), Grows(jobs, jobs'),
         item' \in [job : Nat, version : Nat], item'.job <= Len(jobs'),
         captures' \in Nat, UNCHANGED <<tab, resumer, resumed>>,
         counts' \in [asks : Nat, saves : Nat], latest' \in [Targets -> Nat]
  PROVE  EditionsTypes'
<1>1. Len(jobs) \in Nat /\ Len(jobs') \in Nat /\ Len(jobs) <= Len(jobs')
      /\ DOMAIN jobs = 1..Len(jobs) /\ DOMAIN jobs' = 1..Len(jobs')
  BY InvFacts, Rows DEF Grows
<1>2. DOMAIN jobs \subseteq DOMAIN jobs'
  BY <1>1
<1>3. \A t \in Tabs : tab[t].job <= Len(jobs')
  BY <1>1 DEF EditionsInv, EditionsTypes, TabRow
<1> QED BY <1>2, <1>3 DEF EditionsInv, EditionsTypes

LEMMA OrderStep ==
  ASSUME EditionsInv,
         jobs' \in Seq(JobRow), Grows(jobs, jobs'),
         \A k \in DOMAIN jobs' : k \notin DOMAIN jobs => jobs'[k].after = captures,
         captures' \in Nat, captures <= captures', UNCHANGED resumed
  PROVE  ResumedInOrder'
<1>1. /\ DOMAIN jobs = 1..Len(jobs) /\ Len(jobs) \in Nat
      /\ \A j \in DOMAIN jobs : jobs[j] \in JobRow
      /\ \A j \in DOMAIN jobs' : jobs'[j] \in JobRow
      /\ captures \in Nat /\ resumed \subseteq DOMAIN jobs
  BY InvFacts, Rows
<1>2. DOMAIN jobs' = 1..Len(jobs') /\ Len(jobs') \in Nat
  BY Rows
<1>3. \A j \in DOMAIN jobs : jobs[j].after \in Nat
  BY <1>1 DEF JobRow
<1> SUFFICES ASSUME NEW j \in resumed
             PROVE  /\ jobs'[j].after < captures'
                    /\ \A k \in DOMAIN jobs' :
                          jobs'[k].language = jobs'[j].language /\ j < k
                              => jobs'[j].after < jobs'[k].after
  BY DEF ResumedInOrder
<1>4. jobs[j].after < captures /\ jobs'[j].after = jobs[j].after
      /\ jobs'[j].language = jobs[j].language /\ j \in DOMAIN jobs
  BY <1>1 DEF EditionsInv, ResumedInOrder, Grows
<1>5. ASSUME NEW k \in DOMAIN jobs', jobs'[k].language = jobs'[j].language, j < k
      PROVE  jobs'[j].after < jobs'[k].after
  <2>1. CASE k \in DOMAIN jobs
    <3>1. jobs'[k].after = jobs[k].after /\ jobs'[k].language = jobs[k].language
      BY <2>1 DEF Grows
    <3> QED BY <2>1, <3>1, <1>4, <1>5 DEF EditionsInv, ResumedInOrder
  <2>2. CASE k \notin DOMAIN jobs
    BY <2>2, <1>4
  <2> QED BY <2>1, <2>2
<1>6. jobs'[j].after < captures'
  BY <1>1, <1>3, <1>4
<1> QED BY <1>5, <1>6

LEMMA CandidateStep ==
  ASSUME EditionsInv,
         jobs' \in Seq(JobRow), Grows(jobs, jobs'),
         captures' \in Nat, captures <= captures', wanted \subseteq wanted',
         NEW r \in Resumers, resumer[r] # NoCandidate
  PROVE  /\ resumer[r].job \in DOMAIN jobs'
         /\ jobs'[resumer[r].job].status = "failed"
         /\ jobs'[resumer[r].job].after < captures'
         /\ resumer[r].mail => resumer[r].job \in wanted'
<1> DEFINE c == resumer[r].job
<1>1. c \in DOMAIN jobs /\ jobs[c].status = "failed" /\ jobs[c].after < captures
  BY DEF EditionsInv, CandidatesHold
<1>2. /\ DOMAIN jobs = 1..Len(jobs) /\ Len(jobs) \in Nat
      /\ DOMAIN jobs' = 1..Len(jobs') /\ Len(jobs') \in Nat /\ captures \in Nat
      /\ Len(jobs) <= Len(jobs')
  BY InvFacts, Rows DEF Grows
<1> HIDE DEF c
<1>3. jobs[c].after \in Nat
  BY <1>1, InvFacts, Rows DEF JobRow
<1>4. jobs'[c].status = "failed" /\ jobs'[c].after = jobs[c].after
  BY <1>1 DEF Grows
<1>5. c \in DOMAIN jobs'
  BY <1>1, <1>2
<1>6. jobs'[c].after < captures'
  BY <1>1, <1>2, <1>3, <1>4
<1>7. resumer[r].mail => c \in wanted'
  BY DEF EditionsInv, CandidatesHold, c
<1> QED BY <1>4, <1>5, <1>6, <1>7 DEF c

LEMMA CandidatesStep ==
  ASSUME EditionsInv,
         jobs' \in Seq(JobRow), Grows(jobs, jobs'),
         captures' \in Nat, captures <= captures', wanted \subseteq wanted',
         UNCHANGED resumer
  PROVE  CandidatesHold'
<1> SUFFICES ASSUME NEW r \in Resumers, resumer[r] # NoCandidate
             PROVE  /\ resumer[r].job \in DOMAIN jobs'
                    /\ jobs'[resumer[r].job].status = "failed"
                    /\ jobs'[resumer[r].job].after < captures'
                    /\ resumer[r].mail => resumer[r].job \in wanted'
  BY DEF CandidatesHold
<1> QED BY CandidateStep

LEMMA TabsStep ==
  ASSUME EditionsInv, UNCHANGED tab,
         item'.version \in Nat,
         \/ item'.version = item.version + 1
         \/ item' = item /\ Body(item.job)' = Body(item.job)
  PROVE  TabsHold'
<1>1. \A t \in Tabs : tab[t].base \in Nat
  BY DEF EditionsInv, EditionsTypes, TabRow
<1>2. item.version \in Nat
  BY InvFacts
<1>3. CASE item'.version = item.version + 1
  BY <1>1, <1>2, <1>3 DEF EditionsInv, TabsHold
<1>4. CASE item' = item /\ Body(item.job)' = Body(item.job)
  BY <1>4 DEF EditionsInv, TabsHold
<1> QED BY <1>3, <1>4

LEMMA LastKeptStep ==
  ASSUME EditionsInv, Kept, UNCHANGED latest, item'.job \in Nat,
         NEW l \in Targets, IsLast(jobs, l, item'.job), item'.job = 0 => l = ""
  PROVE  LastReadings'
<1>1. ASSUME NEW k \in Targets
      PROVE  \E j \in Nat : IsLast(jobs', k, j) /\ EditOf(jobs', j) = latest'[k]
  <2>1. PICK j \in Nat : IsLast(jobs, k, j) /\ EditOf(jobs, j) = latest[k]
    BY DEF EditionsInv, LastReadings
  <2>2. IsLast(jobs', k, j) /\ EditOf(jobs', j) = EditOf(jobs, j)
    BY <2>1, LastKept, InvFacts DEF Kept
  <2> QED BY <2>1, <2>2
<1>2. IsLast(jobs', l, item'.job)
  BY LastKept, InvFacts DEF Kept
<1>3. IsLast(jobs', Language(item.job)', item'.job)
  <2>1. CASE item'.job = 0
    BY <1>2, <2>1 DEF Language
  <2>2. CASE item'.job # 0
    BY <1>2, <2>2 DEF IsLast, Language
  <2> QED BY <2>1, <2>2
<1> QED BY <1>1, <1>3 DEF LastReadings

LEMMA LastAddedStep ==
  ASSUME EditionsInv, NEW row, Added(row), item'.job = Len(jobs) + 1,
         latest' \in [Targets -> Nat], latest'[row.language] = row.edit,
         \A l \in Targets : l # row.language => latest'[l] = latest[l]
  PROVE  LastReadings'
<1>1. row \in JobRow /\ jobs \in Seq(JobRow) /\ Len(jobs) \in Nat /\ row.language \in Targets
  BY InvFacts DEF Added, JobRow
<1>2. ASSUME NEW k \in Targets
      PROVE  \E j \in Nat : IsLast(jobs', k, j) /\ EditOf(jobs', j) = latest'[k]
  <2>1. PICK j \in Nat : IsLast(jobs, k, j) /\ EditOf(jobs, j) = latest[k]
    BY DEF EditionsInv, LastReadings
  <2>2. CASE k = row.language
    <3>1. IsLast(jobs', k, Len(jobs) + 1) /\ EditOf(jobs', Len(jobs) + 1) = row.edit
      BY <1>1, <2>1, <2>2, LastAdded DEF Added
    <3> QED BY <1>1, <2>2, <3>1
  <2>3. CASE k # row.language
    <3>1. IsLast(jobs', k, j) /\ EditOf(jobs', j) = EditOf(jobs, j)
      BY <1>1, <2>1, <2>3, LastAdded DEF Added
    <3> QED BY <2>1, <2>3, <3>1
  <2> QED BY <2>2, <2>3
<1>3. IsLast(jobs', Language(item.job)', item'.job)
  <2>1. IsLast(jobs', row.language, Len(jobs) + 1)
    <3>1. PICK j \in Nat : IsLast(jobs, row.language, j)
      BY <1>1 DEF EditionsInv, LastReadings
    <3> QED BY <1>1, <3>1, LastAdded DEF Added
  <2>2. jobs'[Len(jobs) + 1] = row
    BY <1>1, Appending DEF Added
  <2>3. Language(item.job)' = row.language
    <3>1. item'.job # 0 /\ jobs'[item'.job] = row
      BY <1>1, <2>2
    <3> QED BY <3>1, Zenon DEF Language
  <2> QED BY <2>1, <2>3
<1> QED BY <1>2, <1>3 DEF LastReadings

-----------------------------------------------------------------------------
(* prepare *)

\* One row gets another status or mail.
RowChange(s, n, j, status, mail) ==
    n = [s EXCEPT ![j] = [s[j] EXCEPT !.status = status, !.mail = mail]]

LEMMA RowChanged ==
  ASSUME NEW s \in Seq(JobRow), NEW j \in DOMAIN s, s[j].status # "failed",
         NEW status \in {"active", "ready", "mailed", "failed"},
         NEW mail \in {"no", "yes", "paused"},
         NEW n, RowChange(s, n, j, status, mail)
  PROVE  /\ n \in Seq(JobRow) /\ Len(n) = Len(s) /\ DOMAIN n = DOMAIN s
         /\ Grows(s, n)
         /\ \A k \in DOMAIN s : k # j => n[k] = s[k]
         /\ n[j].status = status /\ n[j].mail = mail
<1> DEFINE row == [s[j] EXCEPT !.status = status, !.mail = mail]
<1>1. s[j] \in JobRow /\ Len(s) \in Nat /\ DOMAIN s = 1..Len(s)
  BY Rows
<1>2. /\ row \in JobRow /\ row.status = status /\ row.mail = mail
      /\ row.language = s[j].language /\ row.edit = s[j].edit
      /\ row.after = s[j].after
  BY <1>1 DEF JobRow
<1> HIDE DEF row
<1>3. n = [s EXCEPT ![j] = row]
  BY DEF RowChange, row
<1>4. n \in Seq(JobRow) /\ Len(n) = Len(s) /\ DOMAIN n = DOMAIN s
  BY <1>1, <1>2, <1>3
<1>5. n[j] = row /\ \A k \in DOMAIN s : k # j => n[k] = s[k]
  BY <1>1, <1>3
<1>6. Grows(s, n)
  BY <1>1, <1>2, <1>4, <1>5 DEF Grows
<1> QED BY <1>2, <1>4, <1>5, <1>6

LEMMA SameStatus ==
  ASSUME NEW r \in JobRow, NEW v
  PROVE  /\ [r EXCEPT !.mail = v] = [r EXCEPT !.status = r.status, !.mail = v]
         /\ [r EXCEPT !.status = v] = [r EXCEPT !.status = v, !.mail = r.mail]
  BY DEF JobRow

LEMMA ReuseKeeps ==
  ASSUME EditionsInv, NEW j \in DOMAIN jobs, NEW send,
         Reuse(j, send) \/ Join(j, send)
  PROVE  Kept
<1>1. /\ jobs \in Seq(JobRow) /\ jobs[j] \in JobRow /\ Len(jobs) \in Nat
      /\ jobs[j].status \in {"active", "ready", "mailed", "failed"}
      /\ jobs[j].status # "failed"
  BY InvFacts, Rows DEF Reuse, Join, HasPDF, JobRow
<1>2. CASE jobs' = jobs
  BY <1>1, <1>2 DEF Kept, Grows
<1>3. CASE jobs' = [jobs EXCEPT ![j].status = "ready", ![j].mail = "yes"]
  <2>1. RowChange(jobs, jobs', j, "ready", "yes")
    BY <1>1, <1>3 DEF RowChange
  <2> QED BY <1>1, <2>1, RowChanged DEF Kept
<1>4. CASE jobs' = [jobs EXCEPT ![j].mail = "yes"]
  <2>1. jobs' = [jobs EXCEPT ![j] = [jobs[j] EXCEPT !.mail = "yes"]]
    BY <1>4
  <2>2. RowChange(jobs, jobs', j, jobs[j].status, "yes")
    BY <1>1, <2>1, SameStatus DEF RowChange
  <2> QED BY <1>1, <2>2, RowChanged DEF Kept
<1> QED BY <1>2, <1>3, <1>4, Zenon DEF Reuse, Join

\* The row prepare adds, and that it is a row.
LEMMA MakeAdds ==
  ASSUME EditionsInv, NEW j \in Nat, j <= Len(jobs), NEW target \in Targets, NEW send,
         Make(j, target, send)
  PROVE  \E row \in JobRow :
             /\ Added(row) /\ row.after = captures /\ row.language = target
             /\ row.edit = EditOf(jobs, j)
             /\ row.mail = IF send THEN "yes" ELSE "no"
<1> DEFINE mail == IF send THEN "yes" ELSE "no"
           row == Job(target, Copied(j), mail)
<1>1. mail \in {"no", "yes", "paused"}
  BY Zenon
<1>2. Copied(j) = EditOf(jobs, j) /\ Copied(j) \in Nat
  <2>1. CASE j = 0
    BY <2>1 DEF Copied, EditOf
  <2>2. CASE j # 0
    <3>1. j \in DOMAIN jobs
      BY <2>2, InvFacts
    <3>2. jobs[j] \in JobRow
      BY <3>1, InvFacts, Rows
    <3> QED BY <2>2, <3>2 DEF Copied, EditOf, JobRow
  <2> QED BY <2>1, <2>2
<1>3. jobs' = Append(jobs, row)
  BY Zenon DEF Make
<1> HIDE DEF mail
<1>4. /\ row \in JobRow /\ row.after = captures /\ row.language = target
      /\ row.edit = Copied(j) /\ row.mail = mail
  BY <1>1, <1>2, InvFacts DEF Job, JobRow
<1> HIDE DEF row
<1>5. Added(row)
  BY <1>3, <1>4 DEF Added
<1> QED BY <1>2, <1>4, <1>5, Zenon DEF mail

\* What prepare does for the last job of a language.
LEMMA PrepareRows ==
  ASSUME EditionsInv, NEW target \in Targets, NEW j \in Nat, IsLast(jobs, target, j),
         NEW send, Prepare(j, target, send), UNCHANGED latest
  PROVE  /\ jobs' \in Seq(JobRow) /\ Grows(jobs, jobs')
         /\ \A k \in DOMAIN jobs' : k \notin DOMAIN jobs => jobs'[k].after = captures
         /\ item' \in [job : Nat, version : Nat] /\ item'.job <= Len(jobs')
         /\ item'.version = item.version + 1
         /\ LastReadings'
<1>1. /\ jobs \in Seq(JobRow) /\ DOMAIN jobs = 1..Len(jobs) /\ Len(jobs) \in Nat
      /\ item.version \in Nat /\ latest \in [Targets -> Nat]
  BY InvFacts
<1>2. j <= Len(jobs) /\ (j # 0 => j \in DOMAIN jobs)
  BY <1>1 DEF IsLast
<1>3. CASE Reuse(j, send) \/ Join(j, send)
  <2>1. j # 0 /\ item' = [job |-> j, version |-> item.version + 1]
    BY <1>3 DEF Reuse, Join, HasPDF, PointAt
  <2>2. Kept
    BY <1>2, <1>3, <2>1, ReuseKeeps
  <2>3. item'.job = j /\ item'.version = item.version + 1
        /\ item' \in [job : Nat, version : Nat]
    BY <2>1, <1>1
  <2>4. LastReadings'
    BY <2>1, <2>2, <2>3, LastKeptStep
  <2>5. DOMAIN jobs' = DOMAIN jobs
    BY <1>1, <2>2, Rows DEF Kept
  <2> QED BY <1>2, <2>2, <2>3, <2>4, <2>5 DEF Kept
<1>4. CASE Make(j, target, send)
  <2>1. PICK row \in JobRow :
            /\ Added(row) /\ row.after = captures /\ row.language = target
            /\ row.edit = EditOf(jobs, j)
    BY <1>2, <1>4, MakeAdds
  <2>2. item' = [job |-> Len(jobs) + 1, version |-> item.version + 1]
    BY <1>4 DEF Make, PointAt
  <2>3. item'.job = Len(jobs) + 1 /\ item'.version = item.version + 1
        /\ item' \in [job : Nat, version : Nat]
    BY <2>2, <1>1
  <2>4. latest[target] = row.edit
    <3>1. PICK i \in Nat : IsLast(jobs, target, i) /\ EditOf(jobs, i) = latest[target]
      BY DEF EditionsInv, LastReadings
    <3>2. i = j
      BY <1>1, <3>1, LastIsUnique
    <3> QED BY <2>1, <3>1, <3>2
  <2>5. LastReadings'
    BY <1>1, <2>1, <2>3, <2>4, LastAddedStep
  <2>6. /\ jobs' \in Seq(JobRow) /\ Grows(jobs, jobs') /\ Len(jobs') = Len(jobs) + 1
        /\ DOMAIN jobs' = 1..(Len(jobs) + 1) /\ jobs'[Len(jobs) + 1] = row
    BY <1>1, <2>1, Appending DEF Added
  <2>7. \A k \in DOMAIN jobs' : k \notin DOMAIN jobs => k = Len(jobs) + 1
    BY <1>1, <2>6
  <2> QED BY <1>1, <2>1, <2>3, <2>5, <2>6, <2>7
<1> QED BY <1>3, <1>4 DEF Prepare

\* Only a job that Send reached gets mail, or one that takes its place.
LEMMA PrepareMail ==
  ASSUME EditionsInv, NEW target \in Targets, NEW j \in Nat, IsLast(jobs, target, j),
         NEW send, Prepare(j, target, send), wanted \subseteq wanted',
         send => item'.job \in wanted'
  PROVE  MailOnlyWhenAsked'
<1>1. /\ jobs \in Seq(JobRow) /\ DOMAIN jobs = 1..Len(jobs) /\ Len(jobs) \in Nat
      /\ \A k \in DOMAIN jobs : jobs[k] \in JobRow
  BY InvFacts, Rows
<1>2. j <= Len(jobs) /\ (j # 0 => j \in DOMAIN jobs)
  BY <1>1 DEF IsLast
<1>3. \A k \in DOMAIN jobs : jobs[k].mail # "no" => k \in wanted'
  BY DEF EditionsInv, MailOnlyWhenAsked
<1>4. CASE Reuse(j, send) \/ Join(j, send)
  <2>1. /\ j # 0 /\ jobs[j].status # "failed"
        /\ item' = [job |-> j, version |-> item.version + 1]
    BY <1>4 DEF Reuse, Join, HasPDF, PointAt
  <2>2. send => j \in wanted'
    <3>1. item'.job = j
      BY <2>1
    <3> QED BY <2>1, <3>1
  <2>3. j \in DOMAIN jobs
    BY <1>2, <2>1
  <2>4. CASE jobs' = jobs
    BY <1>3, <2>4 DEF MailOnlyWhenAsked
  <2>5. CASE send /\ jobs' = [jobs EXCEPT ![j].status = "ready", ![j].mail = "yes"]
    <3>1. DOMAIN jobs' = DOMAIN jobs /\ \A k \in DOMAIN jobs : k # j => jobs'[k] = jobs[k]
      BY <1>1, <2>3, <2>5 DEF JobRow
    <3> QED BY <1>3, <2>2, <2>5, <3>1 DEF MailOnlyWhenAsked
  <2>6. CASE send /\ jobs' = [jobs EXCEPT ![j].mail = "yes"]
    <3>1. DOMAIN jobs' = DOMAIN jobs /\ \A k \in DOMAIN jobs : k # j => jobs'[k] = jobs[k]
      BY <1>1, <2>3, <2>6 DEF JobRow
    <3> QED BY <1>3, <2>2, <2>6, <3>1 DEF MailOnlyWhenAsked
  <2> QED BY <1>4, <2>4, <2>5, <2>6, Zenon DEF Reuse, Join
<1>5. CASE Make(j, target, send)
  <2>1. PICK row \in JobRow :
            Added(row) /\ row.mail = IF send THEN "yes" ELSE "no"
    BY <1>2, <1>5, MakeAdds
  <2>2. item' = [job |-> Len(jobs) + 1, version |-> item.version + 1]
    BY <1>5 DEF Make, PointAt
  <2>3. item'.job = Len(jobs) + 1
    BY <2>2
  <2>4. row.mail # "no" => send
    BY <2>1, Zenon
  <2>5. row.mail # "no" => Len(jobs) + 1 \in wanted'
    BY <2>1, <2>3, <2>4
  <2>6. /\ DOMAIN jobs' = 1..(Len(jobs) + 1) /\ jobs'[Len(jobs) + 1] = row
        /\ \A k \in DOMAIN jobs : jobs'[k] = jobs[k]
    BY <1>1, <2>1, Appending DEF Added
  <2>7. \A k \in DOMAIN jobs' : k \notin DOMAIN jobs => k = Len(jobs) + 1
    BY <1>1, <2>6
  <2> QED BY <1>3, <2>5, <2>6, <2>7 DEF MailOnlyWhenAsked
<1> QED BY <1>4, <1>5 DEF Prepare

-----------------------------------------------------------------------------
(* The owner's requests and the workers *)

LEMMA AskingFacts ==
  ASSUME EditionsInv, Asking
  PROVE  /\ counts' \in [asks : Nat, saves : Nat]
         /\ captures' = captures /\ tab' = tab /\ resumer' = resumer
         /\ resumed' = resumed /\ latest' = latest
         /\ latest' \in [Targets -> Nat] /\ captures' \in Nat /\ captures <= captures'
<1>1. counts' \in [asks : Nat, saves : Nat]
  <2>1. counts \in [asks : Nat, saves : Nat]
    BY DEF EditionsInv, EditionsTypes
  <2>2. counts' = [counts EXCEPT !.asks = counts.asks + 1]
    BY DEF Asking, Counted
  <2> QED BY ONLY <2>1, <2>2
<1>2. /\ captures' = captures /\ tab' = tab /\ resumer' = resumer
      /\ resumed' = resumed /\ latest' = latest
  BY DEF Asking
<1>3. captures \in Nat /\ latest \in [Targets -> Nat]
  BY InvFacts
<1> QED BY <1>1, <1>2, <1>3

LEMMA PrepareStep ==
  ASSUME EditionsInv, NEW target \in Targets, NEW j \in Nat, IsLast(jobs, target, j),
         NEW send, Asking, Prepare(j, target, send),
         wanted \subseteq wanted', send => item'.job \in wanted'
  PROVE  EditionsInv'
<1>1. /\ counts' \in [asks : Nat, saves : Nat]
      /\ captures' = captures /\ tab' = tab /\ resumer' = resumer
      /\ resumed' = resumed /\ latest' = latest
      /\ latest' \in [Targets -> Nat] /\ captures' \in Nat /\ captures <= captures'
  BY AskingFacts
<1>2. /\ jobs' \in Seq(JobRow) /\ Grows(jobs, jobs')
      /\ \A k \in DOMAIN jobs' : k \notin DOMAIN jobs => jobs'[k].after = captures
      /\ item' \in [job : Nat, version : Nat] /\ item'.job <= Len(jobs')
      /\ item'.version = item.version + 1
      /\ LastReadings'
  BY <1>1, PrepareRows
<1>3. EditionsTypes'
  BY <1>1, <1>2, TypesStep
<1>4. CandidatesHold' /\ ResumedInOrder'
  BY <1>1, <1>2, CandidatesStep, OrderStep
<1>5. TabsHold'
  BY <1>1, <1>2, TabsStep
<1>6. MailOnlyWhenAsked'
  BY PrepareMail
<1> QED BY <1>2, <1>3, <1>4, <1>5, <1>6 DEF EditionsInv

LEMMA SendStep == ASSUME EditionsInv, Send PROVE EditionsInv'
<1>1. /\ Language(item.job) \in Targets /\ item.job \in Nat
      /\ IsLast(jobs, Language(item.job), item.job)
  BY InvFacts
<1>2. /\ Asking /\ Prepare(item.job, Language(item.job), TRUE)
      /\ wanted \subseteq wanted' /\ item'.job \in wanted'
  BY DEF Send
<1> QED BY <1>1, <1>2, PrepareStep

LEMMA GenerateStep == ASSUME EditionsInv, GeneratePDF PROVE EditionsInv'
<1>1. /\ Language(item.job) \in Targets /\ item.job \in Nat
      /\ IsLast(jobs, Language(item.job), item.job)
  BY InvFacts
<1>2. /\ Asking /\ Prepare(item.job, Language(item.job), FALSE)
      /\ wanted \subseteq wanted'
  BY DEF GeneratePDF
<1> QED BY <1>1, <1>2, PrepareStep

\* Newest is the last job of every language.
LEMMA NewestFacts ==
  ASSUME EditionsInv, NEW l \in Targets
  PROVE  Newest(l) \in Nat /\ Newest(l) <= Len(jobs) /\ IsLast(jobs, l, Newest(l))
<1>1. PICK j \in Nat : IsLast(jobs, l, j)
  BY DEF EditionsInv, LastReadings
<1>2. Newest(l) = j
  BY <1>1, NewestIsLast, InvFacts
<1>3. j <= Len(jobs)
  BY <1>1, InvFacts DEF IsLast
<1> QED BY <1>1, <1>2, <1>3

LEMMA TranslateStep ==
  ASSUME EditionsInv, NEW target \in Targets, Translate(target) PROVE EditionsInv'
<1>1. Newest(target) \in Nat /\ IsLast(jobs, target, Newest(target))
  BY NewestFacts
<1>2. /\ Asking /\ Prepare(Newest(target), target, FALSE)
      /\ wanted \subseteq wanted'
  BY DEF Translate
<1> QED BY <1>1, <1>2, PrepareStep

\* Another job is shown, or the same one once more.
LEMMA PointStep ==
  ASSUME EditionsInv, NEW j \in Nat, j <= Len(jobs), NEW l \in Targets,
         IsLast(jobs, l, j), j = 0 => l = "",
         PointAt(j), UNCHANGED <<jobs, tab, resumer, resumed, latest, wanted>>,
         captures' \in Nat, captures <= captures',
         counts' \in [asks : Nat, saves : Nat]
  PROVE  EditionsInv'
<1>1. /\ jobs \in Seq(JobRow) /\ Len(jobs) \in Nat /\ item.version \in Nat
      /\ latest \in [Targets -> Nat]
  BY InvFacts
<1>2. item'.job = j /\ item'.version = item.version + 1
      /\ item' \in [job : Nat, version : Nat]
  <2>1. item' = [job |-> j, version |-> item.version + 1]
    BY DEF PointAt
  <2>2. j \in Nat
    OBVIOUS
  <2> QED BY ONLY <1>1, <2>1, <2>2
<1>3. Kept /\ jobs' \in Seq(JobRow) /\ Grows(jobs, jobs')
  <2>1. jobs' = jobs
    OBVIOUS
  <2> QED BY ONLY <1>1, <2>1 DEF Kept, Grows
<1>4. EditionsTypes'
  BY <1>1, <1>2, <1>3, TypesStep
<1>5. CandidatesHold' /\ ResumedInOrder'
  BY <1>3, CandidatesStep, OrderStep
<1>6. TabsHold'
  BY <1>2, TabsStep
<1>7. LastReadings'
  BY <1>2, <1>3, LastKeptStep
<1>8. MailOnlyWhenAsked'
  BY DEF EditionsInv, MailOnlyWhenAsked
<1> QED BY <1>4, <1>5, <1>6, <1>7, <1>8 DEF EditionsInv

LEMMA SelectStep == ASSUME EditionsInv, SelectOriginal PROVE EditionsInv'
<1>1. "" \in Targets
  BY EditionsAssumption
<1>2. /\ Newest("") \in Nat /\ Newest("") <= Len(jobs)
      /\ IsLast(jobs, "", Newest(""))
  BY <1>1, NewestFacts
<1>3. Asking /\ PointAt(Newest("")) /\ UNCHANGED <<jobs, wanted>>
  BY DEF SelectOriginal
<1> QED BY <1>1, <1>2, <1>3, AskingFacts, PointStep

LEMMA TouchStep == ASSUME EditionsInv, Touch PROVE EditionsInv'
<1>1. /\ Language(item.job) \in Targets /\ item.job \in Nat /\ item.job <= Len(jobs)
      /\ IsLast(jobs, Language(item.job), item.job)
  BY InvFacts
<1>2. item.job = 0 => Language(item.job) = ""
  BY DEF Language
<1>3. Asking /\ PointAt(item.job) /\ UNCHANGED <<jobs, wanted>>
  BY DEF Touch
<1> QED BY <1>1, <1>2, <1>3, AskingFacts, PointStep

LEMMA CaptureStep == ASSUME EditionsInv, Capture PROVE EditionsInv'
<1>1. /\ Language(item.job) \in Targets /\ item.job \in Nat /\ item.job <= Len(jobs)
      /\ IsLast(jobs, Language(item.job), item.job) /\ captures \in Nat
  BY InvFacts
<1>2. item.job = 0 => Language(item.job) = ""
  BY DEF Language
<1>3. PointAt(item.job) /\ UNCHANGED <<jobs, tab, resumer, resumed, latest, wanted>>
  BY DEF Capture, historyVars
<1>4. captures' \in Nat /\ captures <= captures'
  BY <1>1 DEF Capture
<1>5. counts' \in [asks : Nat, saves : Nat]
  BY DEF Capture, EditionsInv, EditionsTypes
<1> QED BY <1>1, <1>2, <1>3, <1>4, <1>5, PointStep

\* Statuses and mail change, and the item shows the same text or a new version.
LEMMA KeptStep ==
  ASSUME EditionsInv, Kept,
         UNCHANGED <<captures, tab, resumer, resumed, latest, wanted>>,
         counts' \in [asks : Nat, saves : Nat],
         item' \in [job : Nat, version : Nat], item'.job = item.job,
         \/ item'.version = item.version + 1
         \/ item' = item /\ Body(item.job)' = Body(item.job),
         \A j \in DOMAIN jobs : jobs'[j].mail # "no" => jobs[j].mail # "no"
  PROVE  EditionsInv'
<1>1. /\ jobs \in Seq(JobRow) /\ Len(jobs) \in Nat /\ item.version \in Nat
      /\ latest \in [Targets -> Nat] /\ item.job \in Nat /\ captures \in Nat
      /\ item.job <= Len(jobs)
      /\ Language(item.job) \in Targets /\ IsLast(jobs, Language(item.job), item.job)
  BY InvFacts
<1>2. item.job = 0 => Language(item.job) = ""
  BY DEF Language
<1>3. /\ jobs' \in Seq(JobRow) /\ Grows(jobs, jobs') /\ Len(jobs') = Len(jobs)
      /\ DOMAIN jobs' = DOMAIN jobs
  BY <1>1, Rows DEF Kept
<1>4. EditionsTypes'
  BY <1>1, <1>3, TypesStep
<1>5. CandidatesHold' /\ ResumedInOrder'
  BY <1>1, <1>3, CandidatesStep, OrderStep
<1>6. TabsHold'
  BY TabsStep
<1>7. LastReadings'
  BY <1>1, <1>2, <1>3, LastKeptStep
<1>8. MailOnlyWhenAsked'
  BY <1>3 DEF EditionsInv, MailOnlyWhenAsked, Grows
<1> QED BY <1>4, <1>5, <1>6, <1>7, <1>8 DEF EditionsInv

\* What is open of a job depends on its edit and on its having a PDF.
LEMMA SameBody ==
  ASSUME captures' = captures, item' = item,
         item.job # 0 => /\ jobs'[item.job].edit = jobs[item.job].edit
                         /\ HasPDF(item.job)' <=> HasPDF(item.job)
  PROVE  Body(item.job)' = Body(item.job)
<1>1. CASE item.job = 0
  <2>1. item'.job = 0
    BY <1>1
  <2>2. ~HasPDF(item.job) /\ ~HasPDF(item.job)'
    BY <1>1, <2>1 DEF HasPDF
  <2> QED BY <1>1, <2>1, <2>2, Zenon DEF Body
<1>2. CASE item.job # 0
  <2>1. item'.job = item.job
    OBVIOUS
  <2>2. jobs'[item'.job].edit = jobs[item.job].edit
    BY <1>2
  <2>3. CASE jobs[item.job].edit # 0
    BY <1>2, <2>1, <2>2, <2>3, Zenon DEF Body
  <2>4. CASE jobs[item.job].edit = 0 /\ HasPDF(item.job)
    BY <1>2, <2>1, <2>2, <2>4, Zenon DEF Body
  <2>5. CASE jobs[item.job].edit = 0 /\ ~HasPDF(item.job)
    BY <1>2, <2>1, <2>2, <2>5, Zenon DEF Body
  <2> QED BY <2>3, <2>4, <2>5
<1> QED BY <1>1, <1>2

LEMMA ItemRow ==
  ASSUME EditionsInv
  PROVE  /\ item \in [job : Nat, version : Nat]
         /\ item = [job |-> item.job, version |-> item.version]
         /\ item.job # 0 => item.job \in DOMAIN jobs
         /\ counts \in [asks : Nat, saves : Nat]
<1>1. item \in [job : Nat, version : Nat] /\ counts \in [asks : Nat, saves : Nat]
  BY DEF EditionsInv, EditionsTypes
<1>2. item.job # 0 => item.job \in DOMAIN jobs
  BY InvFacts
<1> QED BY <1>1, <1>2

\* A worker sets the status of a job.
LEMMA StatusStep ==
  ASSUME EditionsInv, NEW j \in DOMAIN jobs, jobs[j].status # "failed",
         NEW status \in {"ready", "mailed", "failed"},
         jobs' = [jobs EXCEPT ![j].status = status], Elsewhere,
         item' \in [job : Nat, version : Nat], item'.job = item.job,
         \/ item'.version = item.version + 1
         \/ item' = item /\ Body(item.job)' = Body(item.job)
  PROVE  EditionsInv'
<1>1. /\ jobs \in Seq(JobRow) /\ jobs[j] \in JobRow /\ Len(jobs) \in Nat
      /\ jobs[j].mail \in {"no", "yes", "paused"}
  BY InvFacts, Rows DEF JobRow
<1>2. RowChange(jobs, jobs', j, status, jobs[j].mail)
  <2>1. jobs' = [jobs EXCEPT ![j] = [jobs[j] EXCEPT !.status = status]]
    OBVIOUS
  <2> QED BY <1>1, <2>1, SameStatus DEF RowChange
<1>3. /\ jobs' \in Seq(JobRow) /\ Len(jobs') = Len(jobs) /\ Grows(jobs, jobs')
      /\ \A k \in DOMAIN jobs : k # j => jobs'[k] = jobs[k]
      /\ jobs'[j].mail = jobs[j].mail
  <2>1. /\ status \in {"active", "ready", "mailed", "failed"}
        /\ j \in DOMAIN jobs /\ jobs[j].status # "failed"
    OBVIOUS
  <2> QED BY ONLY <1>1, <1>2, <2>1, RowChanged
<1>4. Kept
  BY <1>3 DEF Kept
<1>5. \A k \in DOMAIN jobs : jobs'[k].mail # "no" => jobs[k].mail # "no"
  BY <1>3
<1>6. UNCHANGED <<captures, tab, resumer, resumed, counts, latest, wanted>>
  BY DEF Elsewhere, historyVars
<1>7. counts' \in [asks : Nat, saves : Nat]
  BY <1>6, ItemRow
<1> QED BY <1>4, <1>5, <1>6, <1>7, KeptStep

\* The status of j becomes one that has a PDF exactly if it had one.
LEMMA PdfKept ==
  ASSUME EditionsInv, NEW j \in DOMAIN jobs, NEW status,
         jobs' = [jobs EXCEPT ![j].status = status], item' = item, captures' = captures,
         item.job = j => (status \in {"ready", "mailed"} <=>
                              jobs[j].status \in {"ready", "mailed"})
  PROVE  Body(item.job)' = Body(item.job)
<1>1. /\ jobs \in Seq(JobRow) /\ jobs[j] \in JobRow
      /\ item.job # 0 => item.job \in DOMAIN jobs
  BY InvFacts, Rows, ItemRow
<1>2. /\ jobs'[j].status = status /\ jobs'[j].edit = jobs[j].edit
      /\ \A k \in DOMAIN jobs : k # j => jobs'[k] = jobs[k]
  BY <1>1 DEF JobRow
<1>3. ASSUME item.job # 0
      PROVE  /\ jobs'[item.job].edit = jobs[item.job].edit
             /\ HasPDF(item.job)' <=> HasPDF(item.job)
  BY <1>1, <1>2, <1>3 DEF HasPDF
<1> QED BY <1>3, SameBody

LEMMA FinishStep ==
  ASSUME EditionsInv, NEW j \in DOMAIN jobs, Finish(j) PROVE EditionsInv'
<1>1. /\ jobs[j].status = "active" /\ jobs' = [jobs EXCEPT ![j].status = "ready"]
      /\ item' = IF item.job = j THEN [item EXCEPT !.version = @ + 1] ELSE item
      /\ Elsewhere
  BY DEF Finish
<1>2. CASE item.job = j
  <2>1. item' = [item EXCEPT !.version = item.version + 1]
    BY <1>1, <1>2
  <2>2. item' \in [job : Nat, version : Nat] /\ item'.job = item.job
        /\ item'.version = item.version + 1
    BY <2>1, ItemRow
  <2> QED BY <1>1, <2>2, StatusStep
<1>3. CASE item.job # j
  <2>1. item' = item /\ item' \in [job : Nat, version : Nat] /\ item'.job = item.job
    BY <1>1, <1>3, ItemRow
  <2>2. captures' = captures
    BY <1>1 DEF Elsewhere
  <2>3. Body(item.job)' = Body(item.job)
    BY <1>1, <1>3, <2>1, <2>2, PdfKept
  <2> QED BY <1>1, <2>1, <2>3, StatusStep
<1> QED BY <1>2, <1>3

LEMMA FailStep ==
  ASSUME EditionsInv, NEW j \in DOMAIN jobs, Fail(j) PROVE EditionsInv'
<1>1. /\ jobs[j].status = "active" /\ jobs' = [jobs EXCEPT ![j].status = "failed"]
      /\ item' = item /\ Elsewhere
  BY DEF Fail
<1>2. item' \in [job : Nat, version : Nat] /\ item'.job = item.job
  BY <1>1, ItemRow
<1>3. captures' = captures
  BY <1>1 DEF Elsewhere
<1>4. Body(item.job)' = Body(item.job)
  BY <1>1, <1>3, PdfKept
<1> QED BY <1>1, <1>2, <1>4, StatusStep

LEMMA MailStep ==
  ASSUME EditionsInv, NEW j \in DOMAIN jobs, Mail(j) PROVE EditionsInv'
<1>1. /\ jobs[j].status = "ready" /\ jobs' = [jobs EXCEPT ![j].status = "mailed"]
      /\ item' = item /\ Elsewhere
  BY DEF Mail
<1>2. item' \in [job : Nat, version : Nat] /\ item'.job = item.job
  BY <1>1, ItemRow
<1>3. captures' = captures
  BY <1>1 DEF Elsewhere
<1>4. Body(item.job)' = Body(item.job)
  BY <1>1, <1>3, PdfKept
<1> QED BY <1>1, <1>2, <1>4, StatusStep

LEMMA PauseStep == ASSUME EditionsInv, PausePendingDelivery PROVE EditionsInv'
<1> DEFINE Row(j) == IF jobs[j].mail = "yes" /\ jobs[j].status # "mailed"
                     THEN [jobs[j] EXCEPT !.mail = "paused"] ELSE jobs[j]
<1>1. Asking /\ item' = item /\ wanted' = wanted /\ jobs' = [j \in DOMAIN jobs |-> Row(j)]
  BY DEF PausePendingDelivery
<1>2. /\ jobs \in Seq(JobRow) /\ Len(jobs) \in Nat /\ DOMAIN jobs = 1..Len(jobs)
      /\ \A k \in DOMAIN jobs : jobs[k] \in JobRow
  BY InvFacts, Rows
<1>3. ASSUME NEW j \in DOMAIN jobs
      PROVE  /\ Row(j) \in JobRow /\ Row(j).language = jobs[j].language
             /\ Row(j).edit = jobs[j].edit /\ Row(j).after = jobs[j].after
             /\ Row(j).status = jobs[j].status
             /\ Row(j).mail # "no" => jobs[j].mail # "no"
  <2>1. jobs[j] \in JobRow
    BY <1>2
  <2> QED BY <2>1 DEF JobRow
<1> HIDE DEF Row
<1>4. /\ jobs' \in Seq(JobRow) /\ Len(jobs') = Len(jobs)
      /\ \A j \in DOMAIN jobs : jobs'[j] = Row(j)
  BY <1>1, <1>2, <1>3
<1>5. Kept
  BY <1>2, <1>3, <1>4 DEF Kept, Grows
<1>6. item' \in [job : Nat, version : Nat] /\ item'.job = item.job
      /\ (item.job # 0 => item.job \in DOMAIN jobs)
  BY <1>1, ItemRow
<1>7. Body(item.job)' = Body(item.job)
  <2>1. captures' = captures
    BY <1>1, AskingFacts
  <2>2. ASSUME item.job # 0
        PROVE  /\ jobs'[item.job].edit = jobs[item.job].edit
               /\ HasPDF(item.job)' <=> HasPDF(item.job)
    BY <1>1, <1>3, <1>4, <1>6, <2>2 DEF HasPDF
  <2> QED BY <1>1, <2>1, <2>2, SameBody
<1>8. \A j \in DOMAIN jobs : jobs'[j].mail # "no" => jobs[j].mail # "no"
  BY <1>3, <1>4
<1> QED BY <1>1, <1>5, <1>6, <1>7, <1>8, AskingFacts, KeptStep

-----------------------------------------------------------------------------
(* ResumeRecovered *)

LEMMA FindStep ==
  ASSUME EditionsInv, NEW r \in Resumers, FindCandidate(r) PROVE EditionsInv'
<1> DEFINE c == [job |-> item.job, mail |-> jobs[item.job].mail # "no"]
<1>1. /\ resumer' = [resumer EXCEPT ![r] = c]
      /\ UNCHANGED <<jobs, item, captures, tab, resumed, counts, latest, wanted>>
      /\ item.job # 0 /\ jobs[item.job].status = "failed"
      /\ captures > jobs[item.job].after
  BY DEF FindCandidate, Candidate, rowVars, historyVars
<1>2. /\ item.job \in Nat /\ item.job \in DOMAIN jobs /\ captures \in Nat
      /\ jobs[item.job].after \in Nat
  BY <1>1, InvFacts, ItemRow, Rows DEF JobRow
<1>3. resumer \in [Resumers -> [job : Nat, mail : BOOLEAN]]
  BY DEF EditionsInv, EditionsTypes
<1>4. c \in [job : Nat, mail : BOOLEAN] /\ c.job = item.job
      /\ (c.mail => item.job \in wanted)
  <2>1. (jobs[item.job].mail # "no") \in BOOLEAN
    BY Zenon
  <2>2. c.mail = (jobs[item.job].mail # "no")
    BY Zenon
  <2>3. c.mail => item.job \in wanted
    BY <1>2, <2>2 DEF EditionsInv, MailOnlyWhenAsked
  <2> HIDE DEF c
  <2>4. c = [job |-> item.job, mail |-> jobs[item.job].mail # "no"]
    BY DEF c
  <2>5. c \in [job : Nat, mail : BOOLEAN] /\ c.job = item.job
    BY <1>2, <2>1, <2>4
  <2> QED BY <2>3, <2>5
<1> HIDE DEF c
<1>5. /\ resumer' \in [Resumers -> [job : Nat, mail : BOOLEAN]]
      /\ resumer'[r] = c /\ \A k \in Resumers : k # r => resumer'[k] = resumer[k]
  BY <1>1, <1>3, <1>4
<1>6. CandidatesHold'
  <2> SUFFICES ASSUME NEW k \in Resumers, resumer'[k] # NoCandidate
               PROVE  /\ resumer'[k].job \in DOMAIN jobs
                      /\ jobs[resumer'[k].job].status = "failed"
                      /\ jobs[resumer'[k].job].after < captures
                      /\ resumer'[k].mail => resumer'[k].job \in wanted
    BY <1>1, Zenon DEF CandidatesHold
  <2>1. CASE k = r
    BY <1>1, <1>2, <1>4, <1>5, <2>1
  <2>2. CASE k # r
    BY <1>5, <2>2 DEF EditionsInv, CandidatesHold
  <2> QED BY <2>1, <2>2
<1>7. EditionsTypes'
  BY <1>1, <1>5 DEF EditionsInv, EditionsTypes
<1>8. LastReadings' /\ ResumedInOrder' /\ MailOnlyWhenAsked'
  BY <1>1 DEF EditionsInv, LastReadings, Language, ResumedInOrder, MailOnlyWhenAsked
<1>9. TabsHold'
  BY <1>1 DEF EditionsInv, TabsHold, Body, HasPDF
<1> QED BY <1>6, <1>7, <1>8, <1>9 DEF EditionsInv

\* A caller that gives up, or is done, has no candidate any more.
LEMMA Forgotten ==
  ASSUME EditionsInv, NEW r \in Resumers,
         resumer' = [resumer EXCEPT ![r] = NoCandidate],
         jobs' \in Seq(JobRow), Grows(jobs, jobs'), captures' = captures,
         wanted \subseteq wanted'
  PROVE  CandidatesHold' /\ resumer' \in [Resumers -> [job : Nat, mail : BOOLEAN]]
<1>1. resumer \in [Resumers -> [job : Nat, mail : BOOLEAN]]
  BY DEF EditionsInv, EditionsTypes
<1>2. NoCandidate \in [job : Nat, mail : BOOLEAN]
  BY DEF NoCandidate
<1>3. /\ resumer' \in [Resumers -> [job : Nat, mail : BOOLEAN]]
      /\ \A k \in Resumers : resumer'[k] # NoCandidate => resumer'[k] = resumer[k]
  BY <1>1, <1>2
<1>4. captures' \in Nat /\ captures <= captures'
  BY InvFacts
<1>5. CandidatesHold'
  <2> SUFFICES ASSUME NEW k \in Resumers, resumer'[k] # NoCandidate
               PROVE  /\ resumer'[k].job \in DOMAIN jobs'
                      /\ jobs'[resumer'[k].job].status = "failed"
                      /\ jobs'[resumer'[k].job].after < captures'
                      /\ resumer'[k].mail => resumer'[k].job \in wanted'
    BY DEF CandidatesHold
  <2>1. resumer'[k] = resumer[k] /\ resumer[k] # NoCandidate
    BY <1>3
  <2> QED BY <1>4, <2>1, CandidateStep
<1> QED BY <1>3, <1>5

LEMMA SkipStep ==
  ASSUME EditionsInv, NEW r \in Resumers, Skip(r) PROVE EditionsInv'
<1>1. /\ resumer' = [resumer EXCEPT ![r] = NoCandidate]
      /\ UNCHANGED <<jobs, item, captures, tab, resumed, counts, latest, wanted>>
  BY DEF Skip, rowVars, historyVars
<1>2. jobs' \in Seq(JobRow) /\ Grows(jobs, jobs')
  BY <1>1, InvFacts DEF Grows
<1>3. CandidatesHold' /\ resumer' \in [Resumers -> [job : Nat, mail : BOOLEAN]]
  BY <1>1, <1>2, Forgotten
<1>7. EditionsTypes'
  BY <1>1, <1>3 DEF EditionsInv, EditionsTypes
<1>8. LastReadings' /\ ResumedInOrder' /\ MailOnlyWhenAsked'
  BY <1>1 DEF EditionsInv, LastReadings, Language, ResumedInOrder, MailOnlyWhenAsked
<1>9. TabsHold'
  BY <1>1 DEF EditionsInv, TabsHold, Body, HasPDF
<1> QED BY <1>3, <1>7, <1>8, <1>9 DEF EditionsInv

\* The job is shown and failed, so prepare makes one in its place, and makes it
\* after the capture.
LEMMA ResumeStep ==
  ASSUME EditionsInv, NEW r \in Resumers, Resume(r) PROVE EditionsInv'
<1> DEFINE c == resumer[r].job
<1>1. /\ resumer[r] # NoCandidate /\ item.job = c
      /\ resumed' = resumed \cup {c}
      /\ Prepare(item.job, Language(item.job), resumer[r].mail)
      /\ resumer' = [resumer EXCEPT ![r] = NoCandidate]
      /\ wanted' = IF item.job \in wanted THEN wanted \cup {item'.job} ELSE wanted
      /\ UNCHANGED <<captures, tab, counts, latest>>
  BY DEF Resume, StillShown
<1>w. wanted \subseteq wanted' /\ (resumer[r].mail => item'.job \in wanted')
  <2>1. resumer[r].mail => item.job \in wanted
    BY <1>1 DEF EditionsInv, CandidatesHold
  <2> QED BY ONLY <1>1, <2>1
<1>2. c \in DOMAIN jobs /\ jobs[c].status = "failed" /\ jobs[c].after < captures
  BY <1>1 DEF EditionsInv, CandidatesHold
<1>3. /\ jobs \in Seq(JobRow) /\ Len(jobs) \in Nat /\ DOMAIN jobs = 1..Len(jobs)
      /\ captures \in Nat /\ resumed \subseteq DOMAIN jobs
      /\ Language(item.job) \in Targets /\ item.job \in Nat
      /\ IsLast(jobs, Language(item.job), item.job)
      /\ latest \in [Targets -> Nat]
  BY InvFacts
<1>4. item.job # 0 /\ Language(item.job) = jobs[c].language
      /\ \A k \in DOMAIN jobs : jobs[k].language = jobs[c].language => k <= c
  <2>1. c # 0 /\ item.job # 0
    BY <1>1, <1>2, <1>3
  <2>2. Language(item.job) = jobs[c].language
    BY <1>1, <2>1, Zenon DEF Language
  <2>3. IsLast(jobs, jobs[c].language, c)
    BY <1>1, <1>3, <2>2
  <2> QED BY <2>1, <2>2, <2>3 DEF IsLast
<1>5. /\ jobs' \in Seq(JobRow) /\ Grows(jobs, jobs')
      /\ \A k \in DOMAIN jobs' : k \notin DOMAIN jobs => jobs'[k].after = captures
      /\ item' \in [job : Nat, version : Nat] /\ item'.job <= Len(jobs')
      /\ item'.version = item.version + 1
      /\ LastReadings'
  BY <1>1, <1>3, PrepareRows
<1>6. MailOnlyWhenAsked'
  BY <1>1, <1>3, <1>w, PrepareMail
<1>7. CandidatesHold' /\ resumer' \in [Resumers -> [job : Nat, mail : BOOLEAN]]
  BY <1>1, <1>5, <1>w, Forgotten
<1>8. TabsHold'
  BY <1>1, <1>5, TabsStep
<1>9. /\ Len(jobs') \in Nat /\ DOMAIN jobs' = 1..Len(jobs') /\ Len(jobs) <= Len(jobs')
      /\ DOMAIN jobs \subseteq DOMAIN jobs'
  BY <1>3, <1>5, Rows DEF Grows
<1>10. EditionsTypes'
  <2>1. tab \in [Tabs -> TabRow] /\ \A t \in Tabs : tab[t].job <= Len(jobs')
    BY <1>3, <1>9 DEF EditionsInv, EditionsTypes, TabRow
  <2>2. resumed' \subseteq DOMAIN jobs'
    BY <1>1, <1>2, <1>3, <1>9
  <2>3. counts' \in [asks : Nat, saves : Nat]
    BY <1>1, ItemRow
  <2> QED BY <1>1, <1>3, <1>5, <1>7, <2>1, <2>2, <2>3 DEF EditionsTypes
<1> HIDE DEF c
<1>11. ResumedInOrder'
  <2> SUFFICES ASSUME NEW j \in resumed'
               PROVE  /\ jobs'[j].after < captures'
                      /\ \A k \in DOMAIN jobs' :
                            jobs'[k].language = jobs'[j].language /\ j < k
                                => jobs'[j].after < jobs'[k].after
    BY DEF ResumedInOrder
  <2>1. j \in DOMAIN jobs /\ j \in Nat /\ c \in Nat
    BY <1>1, <1>2, <1>3
  <2>2. /\ jobs[j].after < captures /\ jobs'[j].after = jobs[j].after
        /\ jobs'[j].language = jobs[j].language
    BY <1>1, <1>2, <1>5, <2>1 DEF EditionsInv, ResumedInOrder, Grows
  <2>3. ASSUME NEW k \in DOMAIN jobs', jobs'[k].language = jobs'[j].language, j < k
        PROVE  jobs'[j].after < jobs'[k].after
    <3>1. CASE k \notin DOMAIN jobs
      BY <1>5, <2>2, <3>1
    <3>2. CASE k \in DOMAIN jobs
      <4>1. jobs'[k].after = jobs[k].after /\ jobs'[k].language = jobs[k].language
        BY <1>5, <3>2 DEF Grows
      <4>2. k \in Nat
        BY <1>3, <3>2
      <4>3. j # c
        <5>1. jobs[k].language = jobs[j].language /\ ~(k <= j)
          BY <2>1, <2>2, <2>3, <4>1, <4>2
        <5> QED BY <1>4, <3>2, <5>1
      <4> QED BY <1>1, <2>2, <2>3, <3>2, <4>1, <4>3 DEF EditionsInv, ResumedInOrder
    <3> QED BY <3>1, <3>2
  <2> QED BY <1>1, <2>2, <2>3
<1> QED BY <1>5, <1>6, <1>7, <1>8, <1>10, <1>11 DEF EditionsInv

-----------------------------------------------------------------------------
(* The editor *)

\* What TabsHold says of one editor.
TabGood(record) ==
    record.at \in {"saving", "checked"} =>
        /\ record.base <= item.version
        /\ record.base = item.version =>
              /\ item.job = record.job
              /\ record.at = "checked" => Body(item.job) = record.body

LEMMA TabOnlyStep ==
  ASSUME EditionsInv, NEW t \in Tabs, NEW record \in TabRow, record.job <= Len(jobs),
         TabGood(record), TabOnly(t, record)
  PROVE  EditionsInv'
<1>1. /\ tab' = [tab EXCEPT ![t] = record]
      /\ UNCHANGED <<jobs, item, captures, resumer, resumed, counts, latest, wanted>>
  BY DEF TabOnly, rowVars, historyVars
<1>2. tab \in [Tabs -> TabRow]
  BY DEF EditionsInv, EditionsTypes
<1>3. /\ tab' \in [Tabs -> TabRow] /\ tab'[t] = record
      /\ \A u \in Tabs : u # t => tab'[u] = tab[u]
  BY <1>1, <1>2
<1>4. Body(item.job)' = Body(item.job)
  BY <1>1, Zenon DEF Body, HasPDF
<1>5. TabsHold'
  <2>1. \A u \in Tabs : TabGood(tab[u])
    BY DEF EditionsInv, TabsHold, TabGood
  <2>2. \A u \in Tabs : TabGood(tab'[u])
    BY <1>3, <2>1
  <2> QED BY <1>1, <1>4, <2>2 DEF TabsHold, TabGood
<1>6. EditionsTypes'
  <2>1. \A u \in Tabs : tab'[u].job <= Len(jobs)
    BY <1>3 DEF EditionsInv, EditionsTypes
  <2> QED BY <1>1, <1>3, <2>1 DEF EditionsInv, EditionsTypes
<1>7. LastReadings' /\ ResumedInOrder' /\ MailOnlyWhenAsked'
  BY <1>1 DEF EditionsInv, LastReadings, Language, ResumedInOrder, MailOnlyWhenAsked
<1>8. CandidatesHold'
  BY <1>1 DEF EditionsInv, CandidatesHold
<1> QED BY <1>5, <1>6, <1>7, <1>8 DEF EditionsInv

LEMMA NoTabGood ==
  NoTab \in TabRow /\ NoTab.job = 0 /\ NoTab.at = "closed" /\ TabGood(NoTab)
  BY DEF NoTab, TabRow, Bodies, TabGood

LEMMA TabFacts ==
  ASSUME EditionsInv, NEW t \in Tabs
  PROVE  /\ tab[t] \in TabRow /\ tab[t].job <= Len(jobs) /\ tab[t].job \in Nat
         /\ TabGood(tab[t]) /\ 0 <= Len(jobs)
<1>1. tab[t] \in TabRow /\ tab[t].job <= Len(jobs) /\ TabGood(tab[t])
  BY DEF EditionsInv, EditionsTypes, TabsHold, TabGood
<1>2. tab[t].job \in Nat
  BY <1>1 DEF TabRow
<1>3. 0 <= Len(jobs)
  BY InvFacts
<1> QED BY <1>1, <1>2, <1>3

LEMMA CloseStep ==
  ASSUME EditionsInv, NEW t \in Tabs, TabOnly(t, NoTab) PROVE EditionsInv'
  BY NoTabGood, TabFacts, TabOnlyStep

LEMMA BodyType ==
  ASSUME EditionsInv, NEW j \in Nat, j <= Len(jobs) PROVE Body(j) \in Bodies
<1>1. captures \in Nat
  BY InvFacts
<1>2. CASE j # 0 /\ jobs[j].edit # 0
  <2>1. j \in DOMAIN jobs
    BY <1>2, InvFacts
  <2>2. jobs[j] \in JobRow
    BY <2>1, InvFacts, Rows
  <2>3. jobs[j].edit \in Nat
    BY <2>2 DEF JobRow
  <2>4. Body(j) = <<"edit", jobs[j].edit>>
    BY <1>2, Zenon DEF Body
  <2> QED BY <2>3, <2>4 DEF Bodies
<1>3. CASE ~(j # 0 /\ jobs[j].edit # 0) /\ HasPDF(j)
  <2>1. Body(j) = <<"document", j>>
    BY <1>3, Zenon DEF Body
  <2> QED BY <2>1 DEF Bodies
<1>4. CASE ~(j # 0 /\ jobs[j].edit # 0) /\ ~HasPDF(j)
  <2>1. Body(j) = <<"capture", captures>>
    BY <1>4, Zenon DEF Body
  <2> QED BY <1>1, <2>1 DEF Bodies
<1> QED BY <1>2, <1>3, <1>4

LEMMA OpenStep ==
  ASSUME EditionsInv, NEW t \in Tabs, OpenEditor(t) PROVE EditionsInv'
<1> DEFINE record == [NoTab EXCEPT !.at = "opening", !.job = item.job,
                                   !.version = item.version]
<1>1. TabOnly(t, record)
  BY DEF OpenEditor
<1>2. item.job \in Nat /\ item.version \in Nat /\ item.job <= Len(jobs)
  BY InvFacts
<1>3. record \in TabRow /\ record.job = item.job /\ record.at = "opening"
  BY <1>2 DEF NoTab, TabRow, Bodies
<1> HIDE DEF record
<1>4. TabGood(record)
  BY <1>3 DEF TabGood
<1> QED BY <1>1, <1>2, <1>3, <1>4, TabOnlyStep

LEMMA ShowStep ==
  ASSUME EditionsInv, NEW t \in Tabs, ShowDraft(t) PROVE EditionsInv'
<1> DEFINE record == [tab[t] EXCEPT !.at = "open", !.body = Body(tab[t].job)]
<1>1. TabOnly(t, NoTab) \/ TabOnly(t, record)
  BY Zenon DEF ShowDraft
<1>2. CASE TabOnly(t, NoTab)
  BY <1>2, CloseStep
<1>3. CASE TabOnly(t, record)
  <2>1. tab[t] \in TabRow /\ tab[t].job <= Len(jobs) /\ Body(tab[t].job) \in Bodies
    BY TabFacts, BodyType
  <2>2. record \in TabRow /\ record.job = tab[t].job /\ record.at = "open"
    BY <2>1 DEF TabRow
  <2> HIDE DEF record
  <2>3. TabGood(record)
    BY <2>2 DEF TabGood
  <2> QED BY <1>3, <2>1, <2>2, <2>3, TabOnlyStep
<1> QED BY <1>1, <1>2, <1>3

LEMMA SubmitStep ==
  ASSUME EditionsInv, NEW t \in Tabs, Submit(t) PROVE EditionsInv'
<1> DEFINE record == [tab[t] EXCEPT !.at = "saving", !.base = item.version]
<1>1. TabOnly(t, NoTab) \/ (TabOnly(t, record) /\ item.job = tab[t].job)
  BY Zenon DEF Submit
<1>2. CASE TabOnly(t, NoTab)
  BY <1>2, CloseStep
<1>3. CASE TabOnly(t, record) /\ item.job = tab[t].job
  <2>1. tab[t] \in TabRow /\ tab[t].job <= Len(jobs) /\ item.version \in Nat
    BY TabFacts, InvFacts
  <2>2. record \in TabRow /\ record.job = tab[t].job /\ record.at = "saving"
        /\ record.base = item.version
    BY <2>1 DEF TabRow
  <2> HIDE DEF record
  <2>3. TabGood(record)
    BY <1>3, <2>1, <2>2 DEF TabGood
  <2> QED BY <1>3, <2>1, <2>2, <2>3, TabOnlyStep
<1> QED BY <1>1, <1>2, <1>3

LEMMA CheckStep ==
  ASSUME EditionsInv, NEW t \in Tabs, CheckRevision(t) PROVE EditionsInv'
<1> DEFINE record == [tab[t] EXCEPT !.at = "checked"]
<1>1. TabOnly(t, NoTab) \/ (TabOnly(t, record) /\ Body(tab[t].job) = tab[t].body)
  BY Zenon DEF CheckRevision
<1>2. CASE TabOnly(t, NoTab)
  BY <1>2, CloseStep
<1>3. CASE TabOnly(t, record) /\ Body(tab[t].job) = tab[t].body
  <2>1. tab[t] \in TabRow /\ tab[t].job <= Len(jobs) /\ TabGood(tab[t])
        /\ tab[t].at = "saving"
    BY TabFacts DEF CheckRevision
  <2>2. record \in TabRow /\ record.job = tab[t].job /\ record.at = "checked"
        /\ record.base = tab[t].base /\ record.body = tab[t].body
    BY <2>1 DEF TabRow
  <2> HIDE DEF record
  <2>3. TabGood(record)
    BY <1>3, <2>1, <2>2 DEF TabGood
  <2> QED BY <1>3, <2>1, <2>2, <2>3, TabOnlyStep
<1> QED BY <1>1, <1>2, <1>3

LEMMA ConflictStep ==
  ASSUME EditionsInv, NEW t \in Tabs, Conflict(t) PROVE EditionsInv'
  BY CloseStep DEF Conflict

\* A reading is saved: one more job, which the item shows.
LEMMA SaveStep ==
  ASSUME EditionsInv, NEW t \in Tabs, SaveReading(t) PROVE EditionsInv'
<1> DEFINE target == Language(tab[t].job)
           edit == counts.saves + 1
           row == Job(target, edit, "no")
<1>1. /\ jobs' = Append(jobs, row)
      /\ item' = [job |-> Len(jobs) + 1, version |-> item.version + 1]
      /\ counts' = [counts EXCEPT !.saves = counts.saves + 1]
      /\ tab' = [tab EXCEPT ![t] = NoTab]
      /\ latest' = [latest EXCEPT ![target] = edit]
      /\ UNCHANGED <<captures, resumer, resumed, wanted>>
  BY DEF SaveReading, PointAt, Counted
<1>2. /\ jobs \in Seq(JobRow) /\ Len(jobs) \in Nat /\ DOMAIN jobs = 1..Len(jobs)
      /\ item.version \in Nat /\ captures \in Nat /\ latest \in [Targets -> Nat]
      /\ resumed \subseteq DOMAIN jobs
  BY InvFacts
<1>3. counts \in [asks : Nat, saves : Nat]
  BY ItemRow
<1>4. target \in Targets
  <2>1. CASE tab[t].job = 0
    BY <2>1, EditionsAssumption DEF Language
  <2>2. CASE tab[t].job # 0
    <3>1. tab[t].job \in DOMAIN jobs
      BY <1>2, <2>2, TabFacts
    <3>2. jobs[tab[t].job] \in JobRow
      BY <1>2, <3>1, Rows
    <3> QED BY <2>2, <3>2 DEF Language, JobRow
  <2> QED BY <2>1, <2>2
<1>5. edit \in Nat /\ counts' \in [asks : Nat, saves : Nat]
  BY <1>1, <1>3
<1> HIDE DEF target, edit
<1>6. /\ row \in JobRow /\ row.language = target /\ row.edit = edit
      /\ row.after = captures /\ row.mail = "no"
  BY <1>2, <1>4, <1>5 DEF Job, JobRow
<1> HIDE DEF row
<1>7. /\ item' \in [job : Nat, version : Nat] /\ item'.job = Len(jobs) + 1
      /\ item'.version = item.version + 1
  BY <1>1, <1>2
<1>8. /\ latest' \in [Targets -> Nat] /\ latest'[target] = edit
      /\ \A l \in Targets : l # target => latest'[l] = latest[l]
  BY <1>1, <1>2, <1>4, <1>5
<1>9. LastReadings'
  BY <1>1, <1>6, <1>7, <1>8, LastAddedStep DEF Added
<1>10. /\ jobs' \in Seq(JobRow) /\ Grows(jobs, jobs') /\ Len(jobs') = Len(jobs) + 1
       /\ DOMAIN jobs' = 1..(Len(jobs) + 1) /\ jobs'[Len(jobs) + 1] = row
       /\ \A k \in DOMAIN jobs : jobs'[k] = jobs[k]
  BY <1>1, <1>2, <1>6, Appending
<1>11. \A k \in DOMAIN jobs' : k \notin DOMAIN jobs => k = Len(jobs) + 1
  BY <1>2, <1>10
<1>12. captures' \in Nat /\ captures <= captures'
  BY <1>1, <1>2
<1>13. CandidatesHold' /\ ResumedInOrder'
  BY <1>1, <1>6, <1>10, <1>11, <1>12, CandidatesStep, OrderStep
<1>14. /\ tab' \in [Tabs -> TabRow] /\ tab'[t] = NoTab
       /\ \A u \in Tabs : u # t => tab'[u] = tab[u]
  BY <1>1, NoTabGood DEF EditionsInv, EditionsTypes
<1>15. TabsHold'
  <2> SUFFICES ASSUME NEW u \in Tabs, tab'[u].at \in {"saving", "checked"}
               PROVE  tab'[u].base <= item'.version /\ tab'[u].base # item'.version
    BY DEF TabsHold
  <2>1. u # t
    BY <1>14, NoTabGood
  <2>2. tab[u].base \in Nat /\ tab[u].base <= item.version
    BY <1>14, <2>1, TabFacts DEF TabGood, TabRow
  <2> QED BY <1>2, <1>7, <1>14, <2>1, <2>2
<1>16. MailOnlyWhenAsked'
  BY <1>1, <1>6, <1>10, <1>11 DEF EditionsInv, MailOnlyWhenAsked
<1>17. EditionsTypes'
  <2>1. \A u \in Tabs : tab'[u].job <= Len(jobs')
    <3> TAKE u \in Tabs
    <3>1. CASE u = t
      BY <1>2, <1>10, <1>14, <3>1, NoTabGood
    <3>2. CASE u # t
      BY <1>2, <1>10, <1>14, <3>2, TabFacts
    <3> QED BY <3>1, <3>2
  <2>2. resumed' \subseteq DOMAIN jobs' /\ item'.job <= Len(jobs')
    BY <1>1, <1>2, <1>7, <1>10
  <2>3. resumer' \in [Resumers -> [job : Nat, mail : BOOLEAN]]
    BY <1>1 DEF EditionsInv, EditionsTypes
  <2> QED BY <1>5, <1>7, <1>8, <1>10, <1>12, <1>14, <2>1, <2>2, <2>3 DEF EditionsTypes
<1> QED BY <1>9, <1>13, <1>15, <1>16, <1>17 DEF EditionsInv

-----------------------------------------------------------------------------
(* The readings of one item: the results *)

LEMMA EditionsStart == EditionsInit => EditionsInv
<1> SUFFICES ASSUME EditionsInit PROVE EditionsInv
  OBVIOUS
<1>1. /\ jobs = <<>> /\ item = [job |-> 0, version |-> 1] /\ captures = 0
      /\ tab = [t \in Tabs |-> NoTab] /\ resumer = [r \in Resumers |-> NoCandidate]
      /\ resumed = {} /\ counts = [asks |-> 0, saves |-> 0]
      /\ latest = [l \in Targets |-> 0]
  BY DEF EditionsInit
<1>2. jobs \in Seq(JobRow) /\ Len(jobs) = 0 /\ DOMAIN jobs = {}
  BY <1>1
<1>3. /\ item \in [job : Nat, version : Nat] /\ item.job = 0 /\ captures \in Nat
      /\ counts \in [asks : Nat, saves : Nat] /\ latest \in [Targets -> Nat]
  BY <1>1
<1>4. tab \in [Tabs -> TabRow] /\ \A t \in Tabs : tab[t].job = 0 /\ tab[t].at = "closed"
  BY <1>1, NoTabGood
<1>5. NoCandidate \in [job : Nat, mail : BOOLEAN]
  BY DEF NoCandidate
<1>6. resumer \in [Resumers -> [job : Nat, mail : BOOLEAN]]
      /\ \A r \in Resumers : resumer[r] = NoCandidate
  BY <1>1, <1>5
<1>7. EditionsTypes
  BY <1>1, <1>2, <1>3, <1>4, <1>6 DEF EditionsTypes
<1>8. LastReadings
  <2>1. ASSUME NEW l PROVE IsLast(jobs, l, 0)
    BY <1>2 DEF IsLast
  <2>2. ASSUME NEW l \in Targets PROVE EditOf(jobs, 0) = latest[l]
    BY <1>1 DEF EditOf
  <2> QED BY <1>3, <2>1, <2>2 DEF LastReadings
<1>9. CandidatesHold
  BY <1>6 DEF CandidatesHold
<1>10. ResumedInOrder
  BY <1>1 DEF ResumedInOrder
<1>11. TabsHold
  BY <1>4 DEF TabsHold
<1>12. MailOnlyWhenAsked
  BY <1>2 DEF MailOnlyWhenAsked
<1> QED BY <1>7, <1>8, <1>9, <1>10, <1>11, <1>12 DEF EditionsInv

LEMMA EditionsStutter == ASSUME EditionsInv, UNCHANGED editionVars PROVE EditionsInv'
<1>1. /\ jobs' = jobs /\ item' = item /\ captures' = captures /\ tab' = tab
      /\ resumer' = resumer /\ resumed' = resumed /\ counts' = counts
      /\ latest' = latest /\ wanted' = wanted
  BY DEF editionVars, rowVars, historyVars
<1>2. EditionsTypes'
  BY <1>1 DEF EditionsInv, EditionsTypes
<1>3. LastReadings' /\ ResumedInOrder' /\ MailOnlyWhenAsked'
  BY <1>1 DEF EditionsInv, LastReadings, Language, ResumedInOrder, MailOnlyWhenAsked
<1>4. CandidatesHold'
  BY <1>1 DEF EditionsInv, CandidatesHold
<1>5. TabsHold'
  BY <1>1 DEF EditionsInv, TabsHold, Body, HasPDF
<1> QED BY <1>2, <1>3, <1>4, <1>5 DEF EditionsInv

LEMMA EditionsStep == EditionsInv /\ [EditionsNext]_editionVars => EditionsInv'
<1> SUFFICES ASSUME EditionsInv, [EditionsNext]_editionVars PROVE EditionsInv'
  OBVIOUS
<1>1. CASE Send \/ GeneratePDF \/ SelectOriginal \/ Touch \/ PausePendingDelivery
  BY <1>1, SendStep, GenerateStep, SelectStep, TouchStep, PauseStep
<1>2. CASE \E target \in Targets : Translate(target)
  BY <1>2, TranslateStep
<1>3. CASE \E j \in DOMAIN jobs : Finish(j) \/ Fail(j) \/ Mail(j)
  BY <1>3, FinishStep, FailStep, MailStep
<1>4. CASE Capture
  BY <1>4, CaptureStep
<1>5. CASE \E r \in Resumers : FindCandidate(r) \/ Resume(r) \/ Skip(r)
  BY <1>5, FindStep, ResumeStep, SkipStep
<1>6. CASE \E t \in Tabs :
              OpenEditor(t) \/ ShowDraft(t) \/ Submit(t) \/ CheckRevision(t)
                  \/ SaveReading(t) \/ Conflict(t)
  BY <1>6, OpenStep, ShowStep, SubmitStep, CheckStep, SaveStep, ConflictStep
<1>7. CASE UNCHANGED editionVars
  BY <1>7, EditionsStutter
<1> QED BY <1>1, <1>2, <1>3, <1>4, <1>5, <1>6, <1>7 DEF EditionsNext

\* Prepare, the workers, ResumeRecovered and the editor keep the inductive
\* invariant.
THEOREM EditionsCorrect == EditionsSpec => []EditionsInv
<1> QED BY EditionsStart, EditionsStep, PTL DEF EditionsSpec

\* The item shows what the owner wrote last in the language it shows: prepare
\* copies it into every new job of that language, and Translate selects the
\* newest one.
THEOREM OwnersReadingIsShown == EditionsSpec => []OwnerReadingKept
<1>1. EditionsInv => OwnerReadingKept
  <2> SUFFICES ASSUME EditionsInv PROVE OwnerReadingKept
    OBVIOUS
  <2>1. /\ jobs \in Seq(JobRow) /\ Language(item.job) \in Targets /\ item.job \in Nat
        /\ IsLast(jobs, Language(item.job), item.job)
    BY InvFacts
  <2>2. PICK j \in Nat : /\ IsLast(jobs, Language(item.job), j)
                         /\ EditOf(jobs, j) = latest[Language(item.job)]
    BY <2>1 DEF EditionsInv, LastReadings
  <2>3. j = item.job
    BY <2>1, <2>2, LastIsUnique
  <2> QED BY <2>2, <2>3 DEF OwnerReadingKept, EditOf
<1> QED BY <1>1, EditionsCorrect, PTL

\* Mail is for the jobs that Send reached and for those that took the place of
\* a failed one it had reached: however requests, editors and overlapping callers
\* of ResumeRecovered interleave, a destination is handed from a failed job to
\* its own successor and to no other job (prepare, ResumeRecovered).
THEOREM MailIsAskedFor == EditionsSpec => []MailOnlyWhenAsked
<1>1. EditionsInv => MailOnlyWhenAsked
  BY DEF EditionsInv
<1> QED BY <1>1, EditionsCorrect, PTL

\* Resumed jobs of one language were made after different numbers of captures.
LEMMA ResumedCount == EditionsInv => ResumesPerCapture
<1> SUFFICES ASSUME EditionsInv, NEW l \in Targets
             PROVE  Cardinality({j \in resumed : jobs[j].language = l}) <= captures
  BY DEF ResumesPerCapture
<1> DEFINE S == {j \in resumed : jobs[j].language = l}
           T == 0..(captures - 1)
           f == [j \in S |-> jobs[j].after]
<1>1. /\ captures \in Nat /\ resumed \subseteq DOMAIN jobs
      /\ DOMAIN jobs = 1..Len(jobs) /\ Len(jobs) \in Nat
      /\ \A j \in DOMAIN jobs : jobs[j].after \in Nat
  BY InvFacts, Rows DEF JobRow
<1>2. \A j \in S : jobs[j].after \in T
  BY <1>1 DEF EditionsInv, ResumedInOrder
<1>3. ASSUME NEW i \in S, NEW j \in S, i < j PROVE jobs[i].after < jobs[j].after
  BY <1>1, <1>3 DEF EditionsInv, ResumedInOrder
<1>4. \A i, j \in S : jobs[i].after = jobs[j].after => i = j
  <2> TAKE i, j \in S
  <2>1. i \in Nat /\ j \in Nat /\ jobs[i].after \in Nat /\ jobs[j].after \in Nat
    BY <1>1
  <2>2. i < j => jobs[i].after < jobs[j].after
    BY <1>3
  <2>3. j < i => jobs[j].after < jobs[i].after
    BY <1>3
  <2> QED BY <2>1, <2>2, <2>3
<1>5. f \in Injection(S, T)
  BY <1>2, <1>4 DEF Injection, IsInjective
<1>6. IsFiniteSet(T) /\ Cardinality(T) = captures
  <2>1. 0 \in Int /\ captures - 1 \in Int
    BY <1>1
  <2>2. /\ IsFiniteSet(T)
        /\ Cardinality(T) = IF 0 > captures - 1 THEN 0 ELSE (captures - 1) - 0 + 1
    BY <2>1, FS_Interval
  <2> QED BY <1>1, <2>2
<1>7. Cardinality(S) <= Cardinality(T)
  BY <1>5, <1>6, FS_Injection
<1> QED BY <1>6, <1>7

\* A capture lets a failed job of a language be resumed once: the candidates are
\* older than a capture, and the job that takes their place is not.
THEOREM CapturesResumeOnce == EditionsSpec => []ResumesPerCapture
<1> QED BY ResumedCount, EditionsCorrect, PTL

\* SaveReading replaces the text that the editor showed: the version it compares
\* in its transaction covers what was read before it.
THEOREM EditorsSeeWhatTheyReplace == EditionsSpec => EditsBuildOnShown
<1> DEFINE Step == \A t \in Tabs :
          tab[t].at = "checked" /\ Len(jobs') > Len(jobs) /\ tab'[t] = NoTab
              => Body(item.job) = tab[t].body
<1>1. EditionsInv /\ [EditionsNext]_editionVars => [Step]_editionVars
  <2> SUFFICES ASSUME EditionsInv, EditionsNext, NEW t \in Tabs,
                      tab[t].at = "checked", tab'[t] = NoTab, Len(jobs') > Len(jobs)
               PROVE  Body(item.job) = tab[t].body
    OBVIOUS
  <2>1. tab[t] # NoTab
    BY NoTabGood
  <2>2. tab' # tab
    BY <2>1
  <2>3. jobs' # jobs
    BY InvFacts
  <2>4. PICK u \in Tabs :
            OpenEditor(u) \/ ShowDraft(u) \/ Submit(u) \/ CheckRevision(u)
                \/ SaveReading(u) \/ Conflict(u)
    <3>1. CASE Send \/ GeneratePDF \/ SelectOriginal \/ Touch \/ PausePendingDelivery
               \/ \E target \in Targets : Translate(target)
      BY <2>2, <3>1 DEF Send, GeneratePDF, SelectOriginal, Touch, PausePendingDelivery,
                        Translate, Asking
    <3>2. CASE \E j \in DOMAIN jobs : Finish(j) \/ Fail(j) \/ Mail(j)
      BY <2>2, <3>2 DEF Finish, Fail, Mail, Elsewhere
    <3>3. CASE Capture \/ \E r \in Resumers : FindCandidate(r) \/ Resume(r) \/ Skip(r)
      BY <2>2, <3>3 DEF Capture, FindCandidate, Resume, Skip
    <3> QED BY <3>1, <3>2, <3>3 DEF EditionsNext
  <2>5. SaveReading(u)
    <3>1. CASE OpenEditor(u) \/ ShowDraft(u) \/ Submit(u) \/ CheckRevision(u) \/ Conflict(u)
      BY <2>3, <3>1 DEF OpenEditor, ShowDraft, Submit, CheckRevision, Conflict, TabOnly, rowVars
    <3> QED BY <2>4, <3>1
  <2>6. u = t
    <3>1. tab' = [tab EXCEPT ![u] = NoTab] /\ tab \in [Tabs -> TabRow]
      BY <2>5 DEF SaveReading, EditionsInv, EditionsTypes
    <3> QED BY <2>1, <3>1
  <2>7. item.version = tab[t].base
    BY <2>5, <2>6 DEF SaveReading, VersionHolds
  <2> QED BY <2>7 DEF EditionsInv, TabsHold
<1> QED BY <1>1, EditionsCorrect, PTL DEF EditionsSpec, EditsBuildOnShown

=============================================================================
