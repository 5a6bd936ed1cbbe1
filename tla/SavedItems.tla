----------------------------- MODULE SavedItems -----------------------------
(***************************************************************************)
(* The tables of internal/library: saved_items, saved_captures,            *)
(* bookmark_sources, saved_tombstones, search_deletions and the            *)
(* deletion_tasks of captures.  Every action is one transaction.           *)
(*                                                                         *)
(* As in JobStore, until and due are the time left to capture_until and    *)
(* capture_next.  Of a text or a title only its origin is kept.            *)
(***************************************************************************)
EXTENDS Naturals, FiniteSets

CONSTANTS
    MaxItems,       \* bound: items ever saved
    Urls,           \* normalized addresses
    Nodes,          \* browser bookmarks that are synchronized
    Tags,           \* tags an owner or the classifier may choose
    MaxTokens,      \* bound: capture leases, and so server captures
    MaxPages,       \* bound: pages the browser uploads for one item
    MaxRestores,    \* bound: items restored from an archive
    CaptureTicks,   \* duration of a capture lease (6 minutes)
    CaptureWait     \* delay before a capture is tried again (30 seconds)

ASSUME ItemsAssumption ==
    /\ MaxItems \in Nat /\ MaxTokens \in Nat /\ MaxPages \in Nat
    /\ MaxRestores \in Nat /\ CaptureWait \in Nat
    /\ CaptureTicks \in Nat \ {0}
    /\ "no_url" \notin Urls

VARIABLES
    items,          \* the row of every item id
    lastItem,       \* the newest id
    sources,        \* bookmark_sources.item_id of each node
    tombs,          \* saved_tombstones
    gone,           \* search_deletions
    captures,       \* saved_captures: the item and the storage key of each
    captureTasks,   \* deletion_tasks of captures, by capture id
    lastToken,      \* capture leases handed out so far
    archive,        \* the last archive that was exported
    restores        \* items restored so far

itemVars == <<items, lastItem, sources, tombs, gone, captures, captureTasks,
              lastToken, archive, restores>>

-----------------------------------------------------------------------------
(* Rows *)

ItemIds == 1..MaxItems
NoItem == 0
NoToken == 0
NoUrl == "no_url"

\* Captures the server makes have ids of their own; an upload is named by the
\* item and the content of the page, so the same upload has the same id.
ServerCapture(n) == <<0, n>>
Upload(i, page) == <<i, page>>
CaptureIds == ({0} \X (1..MaxTokens)) \cup (ItemIds \X (1..MaxPages))

\* The origin of an item's text: a capture, its approved article, or none.
NoText == <<0, 0>>
ApprovedText == <<MaxItems + 1, 0>>

\* A file is stored under its capture, or anew for each time it is restored.
NoKey == <<NoText, 0>>

NoCapture == [item |-> NoItem, key |-> NoKey]
NoTask == [state |-> "none", key |-> NoKey]

\* A row that is not there.  capture is one of queued, capturing, complete
\* (which stands for partial as well), blocked, failed and not_captured.
NoItemRow == [url |-> NoUrl, capture |-> "none", token |-> NoToken, until |-> 0,
              due |-> 0, attempts |-> 0, text |-> NoText, title |-> "given",
              edited |-> FALSE, tags |-> {}, suggested |-> {}, enrich |-> "pending",
              version |-> 0, indexed |-> 0, bad |-> FALSE]

NewItem(u, tags) ==
    [NoItemRow EXCEPT !.url = u, !.capture = "queued", !.tags = tags, !.version = 1]

Saved(i) == items[i].capture # "none"
At(u) == {i \in ItemIds : items[i].url = u}
CapturesOf(i) == {c \in CaptureIds : captures[c].item = i}
Stored(c) == captures[c] # NoCapture

NoArchive == [items |-> [i \in ItemIds |-> NoItemRow],
              captures |-> [c \in CaptureIds |-> NoCapture], tombs |-> {}]

ItemsInit ==
    /\ items = [i \in ItemIds |-> NoItemRow]
    /\ lastItem = 0
    /\ sources = [n \in Nodes |-> NoItem]
    /\ tombs = {}
    /\ gone = {}
    /\ captures = [c \in CaptureIds |-> NoCapture]
    /\ captureTasks = [c \in CaptureIds |-> NoTask]
    /\ lastToken = NoToken
    /\ archive = NoArchive
    /\ restores = 0

-----------------------------------------------------------------------------
(* What each statement makes of a row *)

Touched(r) == [r EXCEPT !.version = @ + 1]

Edited(r, tags) ==
    [Touched(r) EXCEPT !.title = "edited", !.edited = TRUE, !.tags = tags]

\* A bookmark without a name leaves the title alone.
Synced(r, named) ==
    [Touched(r) EXCEPT !.title = IF r.edited \/ ~named THEN @ ELSE "given"]

Recaptured(r) == [Touched(r) EXCEPT !.capture = "queued", !.attempts = 0, !.due = 0]

\* The claim leaves the version alone.
CaptureClaimed(r, token) ==
    [r EXCEPT !.capture = "capturing", !.token = token, !.until = CaptureTicks,
              !.attempts = @ + 1]

CaptureTries == 3

TriedAgain(attempts) == attempts < CaptureTries

CaptureFailed(r, attempts) ==
    [Touched(r) EXCEPT !.capture = IF TriedAgain(attempts) THEN "queued" ELSE "failed",
                       !.due = CaptureWait, !.token = NoToken, !.until = 0]

\* What a page may be like: blocked pages have a status of their own.
PageKinds == {"page", "untitled", "empty", "blocked"}
StatusOf(page) == IF page = "blocked" THEN "blocked" ELSE "complete"

TitleOf(r, page) ==
    IF r.edited \/ page \in {"untitled", "blocked"} THEN r.title ELSE "captured"

TextOf(r, c, page) ==
    CASE page = "blocked" /\ r.text # NoText -> r.text
      [] page = "empty"                      -> NoText
      [] OTHER                               -> c

\* Mutant of ClassifiedAgain: a new text keeps the old classification.
ClassifiedOnce(r) == r

ClassifiedAgain(r) == [r EXCEPT !.enrich = "pending"]

CaptureStored(r, c, page) ==
    [ClassifiedAgain(Touched(r)) EXCEPT
        !.capture = StatusOf(page), !.token = NoToken, !.until = 0,
        !.title = TitleOf(r, page), !.text = TextOf(r, c, page)]

\* The trigger on content_documents.
Approved(r) ==
    [Touched(r) EXCEPT !.title = IF r.edited THEN @ ELSE "captured",
                       !.text = IF @ = NoText THEN ApprovedText ELSE @]

Enriched(r, read, suggested) ==
    [Touched(r) EXCEPT !.tags = read \cup suggested, !.suggested = suggested,
                       !.enrich = "complete"]

EnrichFailed(r) == [Touched(r) EXCEPT !.enrich = "failed"]

\* An item that is not there is inserted without leases or work to do.
Restored(r) ==
    [r EXCEPT !.capture = IF @ \in {"queued", "capturing"} THEN "not_captured" ELSE @,
              !.tags = @ \cup r.suggested, !.token = NoToken, !.until = 0, !.due = 0,
              !.attempts = 0, !.version = 1, !.indexed = 0, !.bad = FALSE]

ItemEarlier(n) == IF n > 0 THEN n - 1 ELSE 0
ItemAged(r) == [r EXCEPT !.until = ItemEarlier(@), !.due = ItemEarlier(@)]

-----------------------------------------------------------------------------
(* Saving *)

PutItem(i, row) == items' = [items EXCEPT ![i] = row]

\* The owner saves an address: it is inserted unless it is there, and its
\* tombstone goes.
Save(u, tags) ==
    /\ \/ /\ At(u) = {} /\ lastItem < MaxItems
          /\ lastItem' = lastItem + 1
          /\ PutItem(lastItem + 1, NewItem(u, tags))
       \/ At(u) # {} /\ UNCHANGED <<items, lastItem>>
    /\ tombs' = tombs \ {u}
    /\ UNCHANGED <<sources, gone, captures, captureTasks, lastToken, archive, restores>>

\* Mutant of MaySync: the tombstone is not looked at.
MaySyncAlways(u) == TRUE

MaySync(u) == u \notin tombs

\* A synchronized bookmark respects tombstones.  The item the node belonged to
\* before has its folders computed anew.
SaveFromBrowser(u, n, named) ==
    LET known == At(u) # {}
        i     == IF known THEN CHOOSE k \in At(u) : TRUE ELSE lastItem + 1
        row   == IF known THEN items[i] ELSE NewItem(u, {})
        prior == sources[n]
    IN  /\ MaySync(u)
        /\ known \/ lastItem < MaxItems
        /\ lastItem' = IF known THEN lastItem ELSE i
        /\ sources' = [sources EXCEPT ![n] = i]
        /\ items' = [k \in ItemIds |-> CASE k = i                    -> Synced(row, named)
                                         [] k = prior /\ prior # i -> Touched(items[k])
                                         [] OTHER                    -> items[k]]
        /\ UNCHANGED <<tombs, gone, captures, captureTasks, lastToken, archive, restores>>

\* One row changes and nothing else.
RowOnly(i, row) ==
    /\ PutItem(i, row)
    /\ UNCHANGED <<lastItem, sources, tombs, gone, captures, captureTasks,
                   lastToken, archive, restores>>

Edit(i, tags) == Saved(i) /\ RowOnly(i, Edited(items[i], tags))

Recapture(i) ==
    /\ Saved(i) /\ items[i].capture # "capturing"
    /\ RowOnly(i, Recaptured(items[i]))

RetryEnrichment(i) == Saved(i) /\ RowOnly(i, [items[i] EXCEPT !.enrich = "pending"])

ApproveContent(i) == Saved(i) /\ RowOnly(i, Approved(items[i]))

-----------------------------------------------------------------------------
(* Capturing *)

\* Mutant of CaptureDue: a capture that was never finished stays so.
CaptureDueQueued(r) == r.capture = "queued" /\ r.due = 0

CaptureDue(r) ==
    \/ r.capture = "queued" /\ r.due = 0
    \/ r.capture = "capturing" /\ r.until = 0

ClaimCapture(i) ==
    /\ lastToken < MaxTokens
    /\ CaptureDue(items[i])
    /\ lastToken' = lastToken + 1
    /\ PutItem(i, CaptureClaimed(items[i], lastToken + 1))
    /\ UNCHANGED <<lastItem, sources, tombs, gone, captures, captureTasks,
                   archive, restores>>

\* Mutant of CaptureHeld: a result is stored by whoever brings it.
CaptureHeldByAnyone(i, token) == Saved(i)

CaptureHeld(i, token) == Saved(i) /\ items[i].token = token

FailCapture(i, token, attempts) ==
    /\ CaptureHeld(i, token)
    /\ RowOnly(i, CaptureFailed(items[i], attempts))

\* persistCapture, once it has locked the item and stored the file.  Whether
\* the capture came with a lease is up to the caller, who says so of lastToken.
StoreCapture(i, c, page) ==
    /\ Saved(i) /\ ~Stored(c)
    /\ captures' = [captures EXCEPT ![c] = [item |-> i, key |-> <<c, 0>>]]
    /\ PutItem(i, CaptureStored(items[i], c, page))
    /\ UNCHANGED <<lastItem, sources, tombs, gone, captureTasks, archive, restores>>

-----------------------------------------------------------------------------
(* Classifying *)

Classifiable(i) ==
    /\ Saved(i) /\ items[i].enrich = "pending"
    /\ items[i].text # NoText \/ items[i].capture \in {"failed", "blocked"}

\* Mutant of StoreEnrichment: the version is not compared.
StoreEnrichmentAnyVersion(i, version, row) == Saved(i) /\ RowOnly(i, row)

\* The UPDATE that ends EnrichOnce, for the version that was read.
StoreEnrichment(i, version, row) ==
    /\ Saved(i) /\ items[i].version = version
    /\ RowOnly(i, row)

-----------------------------------------------------------------------------
(* Removing *)

\* Mutant of QueueFiles: the files of the captures are forgotten.
QueueNoFiles(i) == UNCHANGED captureTasks

\* A task whose id exists is kept as it is (ON CONFLICT DO NOTHING).
QueueFiles(i) ==
    captureTasks' = [c \in CaptureIds |->
        IF c \in CapturesOf(i) /\ captureTasks[c] = NoTask
        THEN [state |-> "queued", key |-> captures[c].key] ELSE captureTasks[c]]

\* Mutant of DropCaptures: the captures stay without their item.
KeepCaptures(i) == UNCHANGED captures

DropCaptures(i) ==
    captures' = [c \in CaptureIds |-> IF c \in CapturesOf(i) THEN NoCapture ELSE captures[c]]

\* Mutant of RecordRemoval: the search index is not told.
RecordNothing(i) == UNCHANGED gone

RecordRemoval(i) == gone' = gone \cup {i}

\* Delete, for an item and the address it was read with.
DeleteItem(i, u) ==
    /\ QueueFiles(i)
    /\ tombs' = tombs \cup {u}
    /\ RecordRemoval(i)
    /\ DropCaptures(i)
    /\ sources' = [n \in Nodes |-> IF sources[n] = i THEN NoItem ELSE sources[n]]
    /\ PutItem(i, NoItemRow)
    /\ UNCHANGED <<lastItem, lastToken, archive, restores>>

FinishCaptureTask(c) ==
    /\ captureTasks[c].state = "queued"
    /\ captureTasks' = [captureTasks EXCEPT ![c].state = "completed"]
    /\ UNCHANGED <<items, lastItem, sources, tombs, gone, captures, lastToken,
                   archive, restores>>

-----------------------------------------------------------------------------
(* Moving an archive *)

Export ==
    /\ archive' = [items |-> items, captures |-> captures, tombs |-> tombs]
    /\ UNCHANGED <<items, lastItem, sources, tombs, gone, captures, captureTasks,
                   lastToken, restores>>

\* The archived captures of an item that the restoring database has not.
Missing(i) ==
    {c \in CaptureIds : archive.captures[c].item = i /\ ~Stored(c)}

\* restoreItem: an item with the same id, or else the same address, is merged
\* with; otherwise it comes back under its own id.  A capture that has become
\* another item's is refused.
RestoreItem(i) ==
    LET old    == archive.items[i]
        target == IF Saved(i) \/ At(old.url) = {} THEN i
                  ELSE CHOOSE k \in At(old.url) : TRUE
        row    == IF Saved(target) THEN items[target] ELSE Restored(old)
    IN  /\ restores < MaxRestores
        /\ old # NoItemRow
        /\ \A c \in CaptureIds :
              archive.captures[c].item = i /\ Stored(c) => captures[c].item = target
        /\ PutItem(target, [Touched(row) EXCEPT !.indexed = 0, !.bad = FALSE])
        /\ captures' = [c \in CaptureIds |->
               IF c \in Missing(i) THEN [item |-> target, key |-> <<c, restores + 1>>]
               ELSE captures[c]]
        /\ restores' = restores + 1
        /\ UNCHANGED <<lastItem, sources, tombs, gone, captureTasks, lastToken, archive>>

\* The end of Restore.  The bookmark sources of the archive exist in the
\* database it was taken from and are left as they are.
RestoreTombstones ==
    /\ tombs' = tombs \cup archive.tombs
    /\ UNCHANGED <<items, lastItem, sources, gone, captures, captureTasks,
                   lastToken, archive, restores>>

-----------------------------------------------------------------------------
(* Indexing *)

\* Mutant of MarkIndexed: the version of the row, not the one that was read.
MarkIndexedNow(i, version) ==
    RowOnly(i, IF Saved(i) THEN [items[i] EXCEPT !.indexed = items[i].version, !.bad = FALSE]
               ELSE items[i])

MarkIndexed(i, version) ==
    RowOnly(i, IF Saved(i) THEN [items[i] EXCEPT !.indexed = version, !.bad = FALSE]
               ELSE items[i])

MarkIndexError(i) ==
    RowOnly(i, IF Saved(i) THEN [items[i] EXCEPT !.bad = TRUE] ELSE items[i])

ForgetDeletion(i) ==
    /\ gone' = gone \ {i}
    /\ UNCHANGED <<items, lastItem, sources, tombs, captures, captureTasks,
                   lastToken, archive, restores>>

Reindex ==
    /\ items' = [i \in ItemIds |->
           IF Saved(i) THEN [items[i] EXCEPT !.indexed = 0, !.bad = FALSE] ELSE items[i]]
    /\ UNCHANGED <<lastItem, sources, tombs, gone, captures, captureTasks,
                   lastToken, archive, restores>>

ItemTick ==
    /\ items' = [i \in ItemIds |-> ItemAged(items[i])]
    /\ UNCHANGED <<lastItem, sources, tombs, gone, captures, captureTasks,
                   lastToken, archive, restores>>

-----------------------------------------------------------------------------

=============================================================================
