----------------------------- MODULE MCReading -----------------------------
(* From a submitted address to an approved reading, and the readings of one    *)
(* item.  The two share no state, so one run checks them side by side: part    *)
(* says which of them moves, the other stays at rest.                          *)
EXTENDS Pipeline, Editions, TLC

VARIABLE part

readingVars == <<part, pipelineVars, editionVars>>

InPipeline == part = "pipeline" /\ UNCHANGED <<part, editionVars>>
InEditions == part = "editions" /\ UNCHANGED <<part, pipelineVars>>

ReadingInit ==
    /\ part \in {"pipeline", "editions"}
    /\ PipelineInit /\ (part = "editions" => submitted = "page")
    /\ EditionsInit

\* One line for each action, so that each is seen to be taken.
ReadingNext ==
    \/ ReadEdit /\ InPipeline
    \/ ReadLanguage /\ InPipeline
    \/ ReadSaved /\ InPipeline
    \/ StartSources /\ InPipeline
    \/ Fetch /\ InPipeline
    \/ Discover /\ InPipeline
    \/ NoMoreSources /\ InPipeline
    \/ Stage /\ InPipeline
    \/ Attempt /\ InPipeline
    \/ Extract /\ InPipeline
    \/ Analyze /\ InPipeline
    \/ Repair /\ InPipeline
    \/ Record /\ InPipeline
    \/ ApproveArticle /\ InPipeline
    \/ FormatArticle /\ InPipeline
    \/ TryFallback /\ InPipeline
    \/ RecoverInBrowser /\ InPipeline
    \/ JobIsOver /\ InPipeline
    \/ ReportOriginal /\ InPipeline
    \/ Cancel /\ InPipeline
    \/ Deadline /\ InPipeline
    \/ Send /\ InEditions
    \/ GeneratePDF /\ InEditions
    \/ \E target \in Targets : Translate(target) /\ InEditions
    \/ SelectOriginal /\ InEditions
    \/ Touch /\ InEditions
    \/ PausePendingDelivery /\ InEditions
    \/ \E j \in DOMAIN jobs :
          \/ Finish(j) /\ InEditions
          \/ Fail(j) /\ InEditions
          \/ Mail(j) /\ InEditions
    \/ Capture /\ InEditions
    \/ \E r \in Resumers :
          \/ FindCandidate(r) /\ InEditions
          \/ Resume(r) /\ InEditions
          \/ Skip(r) /\ InEditions
    \/ \E t \in Tabs :
          \/ OpenEditor(t) /\ InEditions
          \/ ShowDraft(t) /\ InEditions
          \/ Submit(t) /\ InEditions
          \/ CheckRevision(t) /\ InEditions
          \/ SaveReading(t) /\ InEditions
          \/ Conflict(t) /\ InEditions

ReadingSpec == ReadingInit /\ [][ReadingNext]_readingVars

\* Editors, and the callers of ResumeRecovered, are interchangeable.
Interchangeable == Permutations(Tabs) \cup Permutations(Resumers)

=============================================================================
