--------------------------- MODULE CapturesProofs ---------------------------
(***************************************************************************)
(* What captures, uploads, the classifier, removals and restored archives  *)
(* never do to saved items, for any number of items, loops and calls.      *)
(*                                                                         *)
(* There are three inductive invariants, each on top of the first: of the  *)
(* rows (CapturesInv), of what the classifier has read (ReadingInv) and of *)
(* the storage keys (KeysInv).                                             *)
(***************************************************************************)
EXTENDS Captures, TLAPS

CaptureStates ==
    {"none", "queued", "capturing", "complete", "blocked", "failed", "not_captured"}
Texts == CaptureIds \cup {NoText, ApprovedText}
Rows == [url : Urls \cup {NoUrl}, capture : CaptureStates, token : Nat, until : Nat,
         due : Nat, attempts : Nat, text : Texts, title : {"given", "captured", "edited"},
         edited : BOOLEAN, tags : SUBSET Tags, suggested : SUBSET Tags,
         enrich : {"pending", "complete", "failed"}, version : Nat, indexed : Nat,
         bad : BOOLEAN]
StorageKeys == (CaptureIds \cup {NoText}) \X Nat
CaptureRows == [item : ItemIds \cup {NoItem}, key : StorageKeys]
TaskRows == [state : {"none", "queued", "completed"}, key : StorageKeys]
Archives == [items : [ItemIds -> Rows], captures : [CaptureIds -> CaptureRows],
             tombs : SUBSET Urls]

TablesTypeOK ==
    /\ items \in [ItemIds -> Rows] /\ lastItem \in 0..MaxItems
    /\ sources \in [Nodes -> ItemIds \cup {NoItem}]
    /\ tombs \subseteq Urls /\ gone \subseteq ItemIds
    /\ captures \in [CaptureIds -> CaptureRows]
    /\ captureTasks \in [CaptureIds -> TaskRows]
    /\ lastToken \in 0..MaxTokens /\ archive \in Archives /\ restores \in Nat

LoopsTypeOK ==
    /\ capturer \in [Capturers -> [pc : {"idle", "capture"}, item : ItemIds \cup {NoItem},
                                   token : Nat, attempts : Nat]]
    /\ classifier \in [pc : {"idle", "read"}, item : ItemIds \cup {NoItem}, version : Nat,
                       tags : SUBSET Tags, text : Texts]
    /\ classifier.pc = "read" => classifier.item \in ItemIds
    /\ removals \subseteq [call : Nat, item : ItemIds, url : Urls]
    /\ restoring \in [on : BOOLEAN, left : SUBSET ItemIds]
    /\ captureFiles \subseteq StorageKeys /\ calls \in Nat /\ mishaps \in Nat

HistoryTypeOK ==
    /\ chosen \in [ItemIds -> SUBSET Tags]
    /\ imported \in [ItemIds -> Nat] /\ wrote \in [ItemIds -> Nat]
    /\ classified \in [ItemIds -> Texts]
    /\ unwanted \subseteq Urls

-----------------------------------------------------------------------------
(* The rows *)

\* A row is there with an address and one of the ids given out, or not at all.
Whole(i, r) ==
    /\ r.capture # "none" => r.url \in Urls /\ i <= lastItem
    /\ r.capture = "none" => r = NoItemRow
RowsWhole == \A i \in ItemIds : Whole(i, items[i]) /\ Whole(i, archive.items[i])

SourcesSaved == \A n \in Nodes : sources[n] # NoItem => Saved(sources[n])

\* url is unique, and the address of an id never changes: neither in the
\* table, nor in an archive, nor in what Delete has read.
UrlsUnique == \A i, j \in ItemIds : Saved(i) /\ Saved(j) /\ items[i].url = items[j].url => i = j
Named(i, u) ==
    /\ Saved(i) => items[i].url = u
    /\ archive.items[i] # NoItemRow => archive.items[i].url = u
UrlsFixed ==
    /\ \A i \in ItemIds : Saved(i) => Named(i, items[i].url)
    /\ \A d \in removals : d.item <= lastItem /\ Named(d.item, d.url)

\* A lease that is held was handed out after the last page was brought in.
Leases ==
    /\ \A i \in ItemIds :
          /\ items[i].token <= lastToken /\ imported[i] <= lastToken
          /\ items[i].token # NoToken => items[i].token > imported[i]
    /\ \A w \in Capturers : capturer[w].pc = "capture" =>
          /\ capturer[w].item \in ItemIds
          /\ capturer[w].token # NoToken /\ capturer[w].token <= lastToken

UnwantedBuried == unwanted \subseteq tombs

\* Without a restore nothing is archived or brought back.
NothingMoved ==
    "transfer" \notin Calls => restoring.left = {} /\ archive = NoArchive /\ restores = 0

TypeInv == TablesTypeOK /\ LoopsTypeOK /\ HistoryTypeOK
RowsInv ==
    /\ RowsWhole /\ SourcesSaved /\ UrlsUnique /\ UrlsFixed
    /\ UnwantedBuried /\ RemovedStaysRemoved
LeaseInv == Leases /\ ImportedPageKept

CapturesInv == TypeInv /\ RowsInv /\ LeaseInv /\ NothingMoved

-----------------------------------------------------------------------------
(* The classifier *)

\* The version says whether the row is still as it was read.
ReadIsCurrent ==
    classifier.pc = "read" =>
        LET r == items[classifier.item] IN
        /\ classifier.item \in ItemIds /\ classifier.item <= lastItem
        /\ Saved(classifier.item) =>
              /\ classifier.version <= r.version
              /\ classifier.version = r.version =>
                    r.tags = classifier.tags /\ r.text = classifier.text

\* Nothing was chosen for an id that was not given out.
NothingChosen == \A i \in ItemIds : i > lastItem => chosen[i] = {}

ReadingInv == CapturesInv /\ ReadIsCurrent /\ NothingChosen /\ OwnerEditsKept /\ ClassifiedIsCurrent

-----------------------------------------------------------------------------
(* The storage keys *)

\* A capture belongs to an item that is there, and its file is stored under
\* its own id, as is that of the task that deletes it.
KeysOwn ==
    \A c \in CaptureIds :
        /\ Stored(c) => /\ captures[c].item \in ItemIds /\ Saved(captures[c].item)
                        /\ captures[c].key[1] = c /\ captures[c].key[2] <= restores
        /\ captureTasks[c] # NoTask => /\ captureTasks[c].key[1] = c
                                       /\ captureTasks[c].key[2] <= restores

Spent(c) == Stored(c) \/ captureTasks[c] # NoTask \/ archive.captures[c] # NoCapture

\* No two items are held under the same lease, and whoever could store a server
\* capture again has lost its lease.
TokensUnique ==
    \A i, j \in ItemIds : items[i].token = items[j].token /\ items[i].token # NoToken => i = j
TokensSpent ==
    \A n \in 1..MaxTokens : Spent(ServerCapture(n)) =>
        n <= lastToken /\ \A i \in ItemIds : items[i].token # n

\* Without a restore an upload is not stored again once it was deleted.
UploadsSpent ==
    \A i \in ItemIds, page \in 1..MaxPages :
        LET c == Upload(i, page) IN
        /\ Spent(c) => "upload" \in Calls /\ i <= lastItem
        /\ "transfer" \notin Calls =>
              /\ Stored(c) => captures[c].item = i
              /\ captureTasks[c] # NoTask => ~Saved(i)

\* What is stored is newer than what is to be deleted.
FilesNewer ==
    \A c \in CaptureIds :
        Stored(c) /\ captureTasks[c] # NoTask => captures[c].key[2] > captureTasks[c].key[2]

KeysInv ==
    CapturesInv /\ KeysOwn /\ TokensUnique /\ TokensSpent /\ UploadsSpent /\ FilesNewer

\* A file is that of a capture or of a task that is still to delete it.
FilesOwned ==
    \A k \in captureFiles :
        \/ \E c \in CaptureIds : Stored(c) /\ captures[c].key = k
        \/ \E c \in CaptureIds : captureTasks[c] = [state |-> "queued", key |-> k]

-----------------------------------------------------------------------------
(* What the statements make of a row that is there *)

\* The row of the same item.
SameItem(r, s) == s \in Rows /\ s.url = r.url /\ s.capture # "none"

\* The lease goes at most.
NoNewLease(r, s) == s.token \in {r.token, NoToken}

\* The tags, and a title the owner gave, are kept; the version grows with the
\* text; what is classified stays so only with its text, or an approved one.
Tended(r, s) ==
    /\ SameItem(r, s)
    /\ s.tags = r.tags /\ s.edited = r.edited /\ (r.edited => s.title = r.title)
    /\ s.version > r.version \/ (s.version = r.version /\ s.text = r.text)
    /\ s.enrich = "complete" => r.enrich = "complete" /\ s.text \in {r.text, ApprovedText}

LEMMA NoRowFacts ==
  /\ NoItemRow \in Rows /\ NoItemRow.capture = "none" /\ NoItemRow.token = NoToken
  /\ NoItemRow.tags = {} /\ NoItemRow.edited = FALSE
  BY DEF NoItemRow, Rows, CaptureStates, Texts, NoToken

LEMMA RowFields ==
  ASSUME NEW r \in Rows
  PROVE  /\ r.url \in Urls \cup {NoUrl} /\ r.capture \in CaptureStates /\ r.token \in Nat
         /\ r.until \in Nat /\ r.due \in Nat /\ r.attempts \in Nat /\ r.text \in Texts
         /\ r.title \in {"given", "captured", "edited"} /\ r.tags \in SUBSET Tags
         /\ r.suggested \in SUBSET Tags /\ r.enrich \in {"pending", "complete", "failed"}
         /\ r.version \in Nat /\ r.indexed \in Nat
         /\ r.edited \in BOOLEAN /\ r.bad \in BOOLEAN
  BY DEF Rows

LEMMA NewItemFacts ==
  ASSUME NEW u \in Urls, NEW tags \in SUBSET Tags
  PROVE  /\ SameItem(NewItem(u, tags), NewItem(u, tags)) /\ NewItem(u, tags).url = u
         /\ NewItem(u, tags).token = NoToken /\ NewItem(u, tags).tags = tags
         /\ NewItem(u, tags).edited = FALSE /\ NewItem(u, tags).enrich = "pending"
  BY DEF NewItem, NoItemRow, Rows, CaptureStates, Texts, NoToken, SameItem

LEMMA TouchedFacts ==
  ASSUME NEW r \in Rows, r.capture # "none"
  PROVE  Tended(r, Touched(r)) /\ NoNewLease(r, Touched(r))
<1> DEFINE s == Touched(r)
<1>01. r.version + 1 \in Nat /\ 0 \in Nat
  BY RowFields DEF CaptureStates, NoToken
<1>1. s \in Rows
  BY <1>01, Zenon DEF Touched, Rows
<1>2. /\ s.url = r.url /\ s.capture = r.capture /\ s.token = r.token
      /\ s.tags = r.tags /\ s.version = r.version + 1
      /\ s.text = r.text /\ s.enrich = r.enrich /\ s.title = r.title
  BY RowFields DEF Touched, Rows, CaptureStates
<1>3. s.edited = r.edited
  BY RowFields DEF Touched, Rows, CaptureStates
<1> HIDE DEF s
<1>4. SameItem(r, s) /\ s.tags = r.tags
  BY <1>1, <1>2 DEF SameItem
<1>5. s.edited = r.edited /\ (r.edited => s.title = r.title)
  BY <1>2, <1>3, Zenon
<1>6. s.version > r.version \/ (s.version = r.version /\ s.text = r.text)
  BY <1>2, RowFields
<1>7. s.enrich = "complete" => r.enrich = "complete" /\ s.text \in {r.text, ApprovedText}
  BY <1>2, RowFields
<1> QED BY <1>2, <1>4, <1>5, <1>6, <1>7 DEF s, Tended, NoNewLease, NoToken

LEMMA SyncedFacts ==
  ASSUME NEW r \in Rows, r.capture # "none", NEW named \in BOOLEAN
  PROVE  Tended(r, Synced(r, named)) /\ NoNewLease(r, Synced(r, named))
<1> DEFINE s == Synced(r, named)
<1> DEFINE t == IF r.edited \/ ~named THEN r.title ELSE "given"
<1>0. t \in {"given", "captured", "edited"} /\ (r.edited => t = r.title)
  BY RowFields
<1>01. r.version + 1 \in Nat /\ 0 \in Nat
  BY RowFields DEF CaptureStates, NoToken
<1>1. s \in Rows
  BY <1>0, <1>01, Zenon DEF Synced, Touched, Rows
<1>2. /\ s.url = r.url /\ s.capture = r.capture /\ s.token = r.token
      /\ s.tags = r.tags /\ s.version = r.version + 1
      /\ s.text = r.text /\ s.enrich = r.enrich /\ s.title = t
  BY <1>0, RowFields DEF Synced, Touched, Rows, CaptureStates
<1>3. s.edited = r.edited
  BY <1>0, RowFields DEF Synced, Touched, Rows, CaptureStates
<1> HIDE DEF s
<1>4. SameItem(r, s) /\ s.tags = r.tags
  BY <1>1, <1>2, <1>0 DEF SameItem
<1>5. s.edited = r.edited /\ (r.edited => s.title = r.title)
  BY <1>2, <1>3, <1>0, Zenon
<1>6. s.version > r.version \/ (s.version = r.version /\ s.text = r.text)
  BY <1>2, RowFields
<1>7. s.enrich = "complete" => r.enrich = "complete" /\ s.text \in {r.text, ApprovedText}
  BY <1>2, <1>0, RowFields
<1> QED BY <1>2, <1>4, <1>5, <1>6, <1>7 DEF s, Tended, NoNewLease, NoToken

LEMMA RecapturedFacts ==
  ASSUME NEW r \in Rows, r.capture # "none"
  PROVE  Tended(r, Recaptured(r)) /\ NoNewLease(r, Recaptured(r))
<1> DEFINE s == Recaptured(r)
<1>01. r.version + 1 \in Nat /\ "queued" \in CaptureStates /\ 0 \in Nat
  BY RowFields DEF CaptureStates, NoToken
<1>1. s \in Rows
  BY <1>01, Zenon DEF Recaptured, Touched, Rows
<1>2. /\ s.url = r.url /\ s.capture = "queued" /\ s.token = r.token
      /\ s.tags = r.tags /\ s.version = r.version + 1
      /\ s.text = r.text /\ s.enrich = r.enrich /\ s.title = r.title
  BY RowFields DEF Recaptured, Touched, Rows, CaptureStates
<1>3. s.edited = r.edited
  BY RowFields DEF Recaptured, Touched, Rows, CaptureStates
<1> HIDE DEF s
<1>4. SameItem(r, s) /\ s.tags = r.tags
  BY <1>1, <1>2 DEF SameItem
<1>5. s.edited = r.edited /\ (r.edited => s.title = r.title)
  BY <1>2, <1>3, Zenon
<1>6. s.version > r.version \/ (s.version = r.version /\ s.text = r.text)
  BY <1>2, RowFields
<1>7. s.enrich = "complete" => r.enrich = "complete" /\ s.text \in {r.text, ApprovedText}
  BY <1>2, RowFields
<1> QED BY <1>2, <1>4, <1>5, <1>6, <1>7 DEF s, Tended, NoNewLease, NoToken

LEMMA PendingFacts ==
  ASSUME NEW r \in Rows, r.capture # "none"
  PROVE  Tended(r, [r EXCEPT !.enrich = "pending"]) /\ NoNewLease(r, [r EXCEPT !.enrich = "pending"])
<1> DEFINE s == [r EXCEPT !.enrich = "pending"]
<1>01. 0 \in Nat
  BY RowFields DEF CaptureStates, NoToken
<1>1. s \in Rows
  BY <1>01, Zenon DEF Rows
<1>2. /\ s.url = r.url /\ s.capture = r.capture /\ s.token = r.token
      /\ s.tags = r.tags /\ s.version = r.version
      /\ s.text = r.text /\ s.enrich = "pending" /\ s.title = r.title
  BY RowFields DEF Rows, CaptureStates
<1>3. s.edited = r.edited
  BY RowFields DEF Rows, CaptureStates
<1> HIDE DEF s
<1>4. SameItem(r, s) /\ s.tags = r.tags
  BY <1>1, <1>2 DEF SameItem
<1>5. s.edited = r.edited /\ (r.edited => s.title = r.title)
  BY <1>2, <1>3, Zenon
<1>6. s.version > r.version \/ (s.version = r.version /\ s.text = r.text)
  BY <1>2, RowFields
<1>7. s.enrich = "complete" => r.enrich = "complete" /\ s.text \in {r.text, ApprovedText}
  BY <1>2, RowFields
<1> QED BY <1>2, <1>4, <1>5, <1>6, <1>7 DEF s, Tended, NoNewLease, NoToken

LEMMA ApprovedFacts ==
  ASSUME NEW r \in Rows, r.capture # "none"
  PROVE  Tended(r, Approved(r)) /\ NoNewLease(r, Approved(r))
<1> DEFINE s == Approved(r)
<1> DEFINE t == IF r.edited THEN r.title ELSE "captured"
           x == IF r.text = NoText THEN ApprovedText ELSE r.text
<1>0. /\ t \in {"given", "captured", "edited"} /\ (r.edited => t = r.title)
      /\ x \in Texts /\ x \in {r.text, ApprovedText}
  BY RowFields DEF Texts
<1>01. r.version + 1 \in Nat /\ 0 \in Nat
  BY RowFields DEF CaptureStates, NoToken
<1>1. s \in Rows
  BY <1>0, <1>01, Zenon DEF Approved, Touched, Rows
<1>2. /\ s.url = r.url /\ s.capture = r.capture /\ s.token = r.token
      /\ s.tags = r.tags /\ s.version = r.version + 1
      /\ s.text = x /\ s.enrich = r.enrich /\ s.title = t
  BY <1>0, RowFields DEF Approved, Touched, Rows, CaptureStates
<1>3. s.edited = r.edited
  BY <1>0, RowFields DEF Approved, Touched, Rows, CaptureStates
<1> HIDE DEF s
<1>4. SameItem(r, s) /\ s.tags = r.tags
  BY <1>1, <1>2, <1>0 DEF SameItem
<1>5. s.edited = r.edited /\ (r.edited => s.title = r.title)
  BY <1>2, <1>3, <1>0, Zenon
<1>6. s.version > r.version \/ (s.version = r.version /\ s.text = r.text)
  BY <1>2, RowFields
<1>7. s.enrich = "complete" => r.enrich = "complete" /\ s.text \in {r.text, ApprovedText}
  BY <1>2, <1>0, RowFields
<1> QED BY <1>2, <1>4, <1>5, <1>6, <1>7 DEF s, Tended, NoNewLease, NoToken

LEMMA CaptureFailedFacts ==
  ASSUME NEW r \in Rows, r.capture # "none", NEW attempts \in Nat
  PROVE  Tended(r, CaptureFailed(r, attempts)) /\ CaptureFailed(r, attempts).token = NoToken
<1> DEFINE s == CaptureFailed(r, attempts)
<1> DEFINE q == IF TriedAgain(attempts) THEN "queued" ELSE "failed"
<1>0. q \in CaptureStates \ {"none"} /\ CaptureWait \in Nat /\ NoToken \in Nat
  BY ItemsAssumption DEF CaptureStates, NoToken
<1>01. r.version + 1 \in Nat /\ 0 \in Nat
  BY RowFields DEF CaptureStates, NoToken
<1>1. s \in Rows
  BY <1>0, <1>01, Zenon DEF CaptureFailed, Touched, Rows
<1>2. /\ s.url = r.url /\ s.capture = q /\ s.token = NoToken
      /\ s.tags = r.tags /\ s.version = r.version + 1
      /\ s.text = r.text /\ s.enrich = r.enrich /\ s.title = r.title
  BY <1>0, RowFields DEF CaptureFailed, Touched, Rows
<1>3. s.edited = r.edited
  BY <1>0, RowFields DEF CaptureFailed, Touched, Rows
<1> HIDE DEF s
<1>4. SameItem(r, s) /\ s.tags = r.tags
  BY <1>1, <1>2, <1>0 DEF SameItem
<1>5. s.edited = r.edited /\ (r.edited => s.title = r.title)
  BY <1>2, <1>3, <1>0, Zenon
<1>6. s.version > r.version \/ (s.version = r.version /\ s.text = r.text)
  BY <1>2, RowFields
<1>7. s.enrich = "complete" => r.enrich = "complete" /\ s.text \in {r.text, ApprovedText}
  BY <1>2, <1>0, RowFields
<1> QED BY <1>2, <1>4, <1>5, <1>6, <1>7 DEF s, Tended, NoNewLease, NoToken

LEMMA CaptureStoredFacts ==
  ASSUME NEW r \in Rows, r.capture # "none", NEW c \in CaptureIds, NEW page \in PageKinds
  PROVE  Tended(r, CaptureStored(r, c, page)) /\ CaptureStored(r, c, page).token = NoToken
<1> DEFINE s == CaptureStored(r, c, page)
<1>0. /\ StatusOf(page) \in CaptureStates \ {"none"} /\ NoToken \in Nat
      /\ TitleOf(r, page) \in {"given", "captured", "edited"} /\ (r.edited => TitleOf(r, page) = r.title)
      /\ TextOf(r, c, page) \in Texts
  BY RowFields DEF StatusOf, TitleOf, TextOf, CaptureStates, Texts, PageKinds, NoToken
<1>01. r.version + 1 \in Nat /\ 0 \in Nat
  BY RowFields DEF CaptureStates, NoToken
<1>1. s \in Rows
  BY <1>0, <1>01, Zenon DEF CaptureStored, ClassifiedAgain, Touched, Rows
<1>2. /\ s.url = r.url /\ s.capture = StatusOf(page) /\ s.token = NoToken
      /\ s.tags = r.tags /\ s.version = r.version + 1
      /\ s.text = TextOf(r, c, page) /\ s.enrich = "pending" /\ s.title = TitleOf(r, page)
  BY <1>0, RowFields DEF CaptureStored, ClassifiedAgain, Touched, Rows
<1>3. s.edited = r.edited
  BY <1>0, RowFields DEF CaptureStored, ClassifiedAgain, Touched, Rows
<1> HIDE DEF s
<1>4. SameItem(r, s) /\ s.tags = r.tags
  BY <1>1, <1>2, <1>0 DEF SameItem
<1>5. s.edited = r.edited /\ (r.edited => s.title = r.title)
  BY <1>2, <1>3, <1>0, Zenon
<1>6. s.version > r.version \/ (s.version = r.version /\ s.text = r.text)
  BY <1>2, RowFields
<1>7. s.enrich = "complete" => r.enrich = "complete" /\ s.text \in {r.text, ApprovedText}
  BY <1>2, <1>0, RowFields
<1> QED BY <1>2, <1>4, <1>5, <1>6, <1>7 DEF s, Tended, NoNewLease, NoToken

LEMMA EnrichFailedFacts ==
  ASSUME NEW r \in Rows, r.capture # "none"
  PROVE  Tended(r, EnrichFailed(r)) /\ NoNewLease(r, EnrichFailed(r))
<1> DEFINE s == EnrichFailed(r)
<1>01. r.version + 1 \in Nat /\ 0 \in Nat
  BY RowFields DEF CaptureStates, NoToken
<1>1. s \in Rows
  BY <1>01, Zenon DEF EnrichFailed, Touched, Rows
<1>2. /\ s.url = r.url /\ s.capture = r.capture /\ s.token = r.token
      /\ s.tags = r.tags /\ s.version = r.version + 1
      /\ s.text = r.text /\ s.enrich = "failed" /\ s.title = r.title
  BY RowFields DEF EnrichFailed, Touched, Rows, CaptureStates
<1>3. s.edited = r.edited
  BY RowFields DEF EnrichFailed, Touched, Rows, CaptureStates
<1> HIDE DEF s
<1>4. SameItem(r, s) /\ s.tags = r.tags
  BY <1>1, <1>2 DEF SameItem
<1>5. s.edited = r.edited /\ (r.edited => s.title = r.title)
  BY <1>2, <1>3, Zenon
<1>6. s.version > r.version \/ (s.version = r.version /\ s.text = r.text)
  BY <1>2, RowFields
<1>7. s.enrich = "complete" => r.enrich = "complete" /\ s.text \in {r.text, ApprovedText}
  BY <1>2, RowFields
<1> QED BY <1>2, <1>4, <1>5, <1>6, <1>7 DEF s, Tended, NoNewLease, NoToken

LEMMA MergedFacts ==
  ASSUME NEW r \in Rows, r.capture # "none"
  PROVE  Tended(r, [Touched(r) EXCEPT !.indexed = 0, !.bad = FALSE]) /\ NoNewLease(r, [Touched(r) EXCEPT !.indexed = 0, !.bad = FALSE])
<1> DEFINE s == [Touched(r) EXCEPT !.indexed = 0, !.bad = FALSE]
<1>01. r.version + 1 \in Nat /\ 0 \in Nat
  BY RowFields DEF CaptureStates, NoToken
<1>1. s \in Rows
  BY <1>01, Zenon DEF Touched, Rows
<1>2. /\ s.url = r.url /\ s.capture = r.capture /\ s.token = r.token
      /\ s.tags = r.tags /\ s.version = r.version + 1
      /\ s.text = r.text /\ s.enrich = r.enrich /\ s.title = r.title
  BY RowFields DEF Touched, Rows, CaptureStates
<1>3. s.edited = r.edited
  BY RowFields DEF Touched, Rows, CaptureStates
<1> HIDE DEF s
<1>4. SameItem(r, s) /\ s.tags = r.tags
  BY <1>1, <1>2 DEF SameItem
<1>5. s.edited = r.edited /\ (r.edited => s.title = r.title)
  BY <1>2, <1>3, Zenon
<1>6. s.version > r.version \/ (s.version = r.version /\ s.text = r.text)
  BY <1>2, RowFields
<1>7. s.enrich = "complete" => r.enrich = "complete" /\ s.text \in {r.text, ApprovedText}
  BY <1>2, RowFields
<1> QED BY <1>2, <1>4, <1>5, <1>6, <1>7 DEF s, Tended, NoNewLease, NoToken

LEMMA ClaimedFacts ==
  ASSUME NEW r \in Rows, r.capture # "none", NEW token \in Nat
  PROVE  Tended(r, CaptureClaimed(r, token)) /\ CaptureClaimed(r, token).token = token
<1> DEFINE s == CaptureClaimed(r, token)
<1>0. CaptureTicks \in Nat
  BY ItemsAssumption
<1>01. "capturing" \in CaptureStates /\ r.attempts + 1 \in Nat /\ 0 \in Nat
  BY RowFields DEF CaptureStates, NoToken
<1>1. s \in Rows
  BY <1>0, <1>01, Zenon DEF CaptureClaimed, Rows
<1>2. /\ s.url = r.url /\ s.capture = "capturing" /\ s.token = token
      /\ s.tags = r.tags /\ s.version = r.version
      /\ s.text = r.text /\ s.enrich = r.enrich /\ s.title = r.title
  BY <1>0, RowFields DEF CaptureClaimed, Rows, CaptureStates
<1>3. s.edited = r.edited
  BY <1>0, RowFields DEF CaptureClaimed, Rows, CaptureStates
<1> HIDE DEF s
<1>4. SameItem(r, s) /\ s.tags = r.tags
  BY <1>1, <1>2 DEF SameItem
<1>5. s.edited = r.edited /\ (r.edited => s.title = r.title)
  BY <1>2, <1>3, Zenon
<1>6. s.version > r.version \/ (s.version = r.version /\ s.text = r.text)
  BY <1>2, RowFields
<1>7. s.enrich = "complete" => r.enrich = "complete" /\ s.text \in {r.text, ApprovedText}
  BY <1>2, RowFields
<1> QED BY <1>2, <1>4, <1>5, <1>6, <1>7 DEF s, Tended, NoNewLease, NoToken

LEMMA EditedFacts ==
  ASSUME NEW r \in Rows, r.capture # "none", NEW tags \in SUBSET Tags
  PROVE  /\ SameItem(r, Edited(r, tags)) /\ NoNewLease(r, Edited(r, tags))
         /\ Edited(r, tags).tags = tags /\ Edited(r, tags).title = "edited"
         /\ Edited(r, tags).version > r.version
         /\ Edited(r, tags).enrich = r.enrich /\ Edited(r, tags).text = r.text
<1> DEFINE s == Edited(r, tags)
<1>01. r.version + 1 \in Nat /\ 0 \in Nat
  BY RowFields DEF CaptureStates, NoToken
<1>1. s \in Rows
  BY <1>01, Zenon DEF Edited, Touched, Rows
<1>2. /\ s.url = r.url /\ s.capture = r.capture /\ s.token = r.token
      /\ s.tags = tags /\ s.version = r.version + 1
      /\ s.text = r.text /\ s.enrich = r.enrich /\ s.title = "edited"
  BY RowFields DEF Edited, Touched, Rows, CaptureStates
<1>3. s.edited = TRUE
  BY RowFields DEF Edited, Touched, Rows, CaptureStates
<1> HIDE DEF s
<1> QED BY <1>1, <1>2, <1>3, RowFields DEF s, SameItem, NoNewLease

LEMMA EnrichedFacts ==
  ASSUME NEW r \in Rows, r.capture # "none", NEW read \in SUBSET Tags, NEW found \in SUBSET Tags
  PROVE  /\ SameItem(r, Enriched(r, read, found)) /\ NoNewLease(r, Enriched(r, read, found))
         /\ Enriched(r, read, found).tags = read \cup found /\ Enriched(r, read, found).version > r.version
         /\ Enriched(r, read, found).edited = r.edited /\ Enriched(r, read, found).title = r.title /\ Enriched(r, read, found).text = r.text
<1> DEFINE s == Enriched(r, read, found)
<1>01. r.version + 1 \in Nat /\ read \cup found \in SUBSET Tags /\ 0 \in Nat
  BY RowFields DEF CaptureStates, NoToken
<1>1. s \in Rows
  BY <1>01, Zenon DEF Enriched, Touched, Rows
<1>2. /\ s.url = r.url /\ s.capture = r.capture /\ s.token = r.token
      /\ s.tags = read \cup found /\ s.version = r.version + 1
      /\ s.text = r.text /\ s.enrich = "complete" /\ s.title = r.title
  BY RowFields DEF Enriched, Touched, Rows, CaptureStates
<1>3. s.edited = r.edited
  BY RowFields DEF Enriched, Touched, Rows, CaptureStates
<1> HIDE DEF s
<1> QED BY <1>1, <1>2, <1>3, RowFields DEF s, SameItem, NoNewLease

LEMMA RestoredFacts ==
  ASSUME NEW r \in Rows, r.capture # "none"
  PROVE  SameItem(r, [Touched(Restored(r)) EXCEPT !.indexed = 0, !.bad = FALSE]) /\ [Touched(Restored(r)) EXCEPT !.indexed = 0, !.bad = FALSE].token = NoToken
<1> DEFINE s == [Touched(Restored(r)) EXCEPT !.indexed = 0, !.bad = FALSE]
<1> DEFINE q == IF r.capture \in {"queued", "capturing"} THEN "not_captured" ELSE r.capture
<1>0. q \in CaptureStates \ {"none"} /\ r.tags \cup r.suggested \in SUBSET Tags
  BY RowFields DEF CaptureStates
<1>01. 1 \in Nat /\ 1 + 1 \in Nat /\ 0 \in Nat
  BY RowFields DEF CaptureStates, NoToken
<1>1. s \in Rows
  BY <1>0, <1>01, ZenonT(30) DEF Restored, Touched, Rows, NoToken
<1>2. /\ s.url = r.url /\ s.capture = q /\ s.token = NoToken
      /\ s.tags = r.tags \cup r.suggested /\ s.version = 2
      /\ s.text = r.text /\ s.enrich = r.enrich /\ s.title = r.title
  BY <1>0, RowFields DEF Restored, Touched, Rows, NoToken
<1>3. s.edited = r.edited
  BY <1>0, RowFields DEF Restored, Touched, Rows, NoToken
<1> HIDE DEF s
<1> QED BY <1>1, <1>2, <1>3, <1>0, RowFields DEF s, SameItem

LEMMA AgedFacts ==
  ASSUME NEW r \in Rows
  PROVE  /\ r.capture # "none" => Tended(r, ItemAged(r)) /\ NoNewLease(r, ItemAged(r))
         /\ r = NoItemRow => ItemAged(r) = r
<1> DEFINE s == ItemAged(r)
<1>0. \A n \in Nat : ItemEarlier(n) \in Nat
  BY DEF ItemEarlier
<1>1. s \in Rows
  BY <1>0, RowFields DEF ItemAged, Rows
<1>2. /\ s.url = r.url /\ s.capture = r.capture /\ s.token = r.token /\ s.tags = r.tags
      /\ s.version = r.version /\ s.text = r.text /\ s.enrich = r.enrich /\ s.title = r.title
  BY RowFields DEF ItemAged, Rows
<1>3. s.edited = r.edited
  BY RowFields DEF ItemAged, Rows
<1>4. r.capture # "none" => Tended(r, s) /\ NoNewLease(r, s)
  <2> HIDE DEF s
  <2> QED BY <1>1, <1>2, <1>3, RowFields DEF Tended, SameItem, NoNewLease
<1>5. r = NoItemRow => s = r
  <2> SUFFICES ASSUME r = NoItemRow PROVE s = r
    OBVIOUS
  <2>1. r.until = 0 /\ r.due = 0
    BY DEF NoItemRow
  <2>2. s = [[r EXCEPT !.until = 0] EXCEPT !.due = 0]
    BY <2>1, RowFields DEF ItemAged, ItemEarlier
  <2>3. [r EXCEPT !.until = 0] = r
    BY <2>1, Zenon DEF Rows
  <2>4. [r EXCEPT !.due = 0] = r
    BY <2>1, Zenon DEF Rows
  <2> QED BY <2>2, <2>3, <2>4
<1> QED BY <1>4, <1>5

-----------------------------------------------------------------------------
(* What the statements make of the tables *)

\* Every row stays that of its item.
ItemsSame ==
    /\ items' \in [ItemIds -> Rows]
    /\ \A k \in ItemIds : IF Saved(k) THEN SameItem(items[k], items'[k]) ELSE items'[k] = items[k]

LEMMA ItemsUntouched ==
  ASSUME TablesTypeOK, UNCHANGED items
  PROVE  ItemsSame
  BY DEF TablesTypeOK, ItemsSame, SameItem, Saved

LEMMA PutSame ==
  ASSUME TablesTypeOK, NEW i \in ItemIds, Saved(i), NEW STATE s, SameItem(items[i], s),
         PutItem(i, s)
  PROVE  /\ ItemsSame /\ items'[i] = s
         /\ \A k \in ItemIds : k # i => items'[k] = items[k]
<1>1. items \in [ItemIds -> Rows] /\ s \in Rows
  BY DEF TablesTypeOK, SameItem
<1>2. items' = [items EXCEPT ![i] = s]
  BY DEF PutItem
<1>3. items' \in [ItemIds -> Rows] /\ items'[i] = s /\ \A k \in ItemIds : k # i => items'[k] = items[k]
  BY <1>1, <1>2
<1>4. \A k \in ItemIds : Saved(k) => SameItem(items[k], items[k])
  BY <1>1 DEF SameItem, Saved
<1> QED BY <1>3, <1>4 DEF ItemsSame

\* Addresses and ids stay together.
LEMMA RowsKept ==
  ASSUME TypeInv, RowsInv, ItemsSame, UNCHANGED <<lastItem, archive, removals>>,
         \A m \in Nodes : sources'[m] # NoItem =>
             sources'[m] \in ItemIds /\ items[sources'[m]].capture # "none",
         unwanted' \subseteq unwanted, unwanted' \subseteq tombs'
  PROVE  RowsInv'
<1>1. \A k \in ItemIds : /\ Saved(k)' <=> Saved(k)
                         /\ Saved(k) => items'[k].url = items[k].url
                         /\ ~Saved(k) => items'[k] = items[k]
  BY DEF ItemsSame, SameItem, Saved
<1>2. RowsWhole'
  BY <1>1 DEF RowsInv, RowsWhole, Whole, Saved
<1>3. SourcesSaved'
  BY <1>1 DEF SourcesSaved, Saved
<1>4. UrlsUnique'
  BY <1>1 DEF RowsInv, UrlsUnique
<1>5. UrlsFixed'
  <2>1. \A d \in removals : d.item \in ItemIds
    BY DEF TypeInv, LoopsTypeOK
  <2>2. \A k \in ItemIds : \A u : Named(k, u) => Named(k, u)'
    BY <1>1 DEF Named
  <2>3. \A k \in ItemIds : Saved(k)' => Named(k, items[k].url)'
    BY <1>1 DEF RowsInv, UrlsFixed, Named
  <2> QED BY <2>1, <2>2, <2>3 DEF RowsInv, UrlsFixed
<1>6. UnwantedBuried'
  BY DEF UnwantedBuried
<1>7. RemovedStaysRemoved'
  BY <1>1 DEF RowsInv, RemovedStaysRemoved, At, RowsWhole, Whole, Saved
<1> QED BY <1>2, <1>3, <1>4, <1>5, <1>6, <1>7 DEF RowsInv

LEMMA RowsTended ==
  ASSUME TypeInv, RowsInv, ItemsSame,
         UNCHANGED <<lastItem, sources, tombs, archive, removals, unwanted>>
  PROVE  RowsInv'
<1>1. \A m \in Nodes : sources'[m] # NoItem =>
         sources'[m] \in ItemIds /\ items[sources'[m]].capture # "none"
  BY DEF TypeInv, TablesTypeOK, RowsInv, SourcesSaved, Saved
<1>2. unwanted' \subseteq unwanted /\ unwanted' \subseteq tombs'
  BY DEF RowsInv, UnwantedBuried
<1> QED BY <1>1, <1>2, RowsKept

\* A row that appears under an id of its own, with an address nobody has.
LEMMA RowAppears ==
  ASSUME TypeInv, RowsInv, NEW n \in ItemIds, ~Saved(n), NEW u \in Urls, At(u) = {},
         items' \in [ItemIds -> Rows], items'[n].capture # "none", items'[n].url = u,
         \A k \in ItemIds : k # n =>
             IF Saved(k) THEN SameItem(items[k], items'[k]) ELSE items'[k] = items[k],
         archive.items[n] # NoItemRow => archive.items[n].url = u,
         \A d \in removals : d.item = n => d.url = u,
         lastItem' \in Nat, lastItem <= lastItem', n <= lastItem', UNCHANGED <<archive, removals>>,
         \A m \in Nodes : sources'[m] # NoItem =>
             sources'[m] \in ItemIds /\ (sources'[m] = n \/ items[sources'[m]].capture # "none"),
         unwanted' \subseteq unwanted \ {u}, unwanted' \subseteq tombs'
  PROVE  RowsInv'
<1>0. lastItem \in Nat /\ ItemIds \subseteq Nat /\ \A d \in removals : d.item \in ItemIds
  BY ItemsAssumption DEF TypeInv, TablesTypeOK, LoopsTypeOK, ItemIds
<1>1. \A k \in ItemIds : k # n =>
          /\ Saved(k)' <=> Saved(k)
          /\ Saved(k) => items'[k].url = items[k].url
          /\ ~Saved(k) => items'[k] = items[k]
  BY DEF SameItem, Saved
<1>2. Saved(n)'
  BY DEF Saved
<1>3. RowsWhole'
  BY <1>0, <1>1, <1>2 DEF RowsInv, RowsWhole, Whole, Saved
<1>4. SourcesSaved'
  BY <1>1, <1>2 DEF SourcesSaved, Saved
<1>5. UrlsUnique'
  BY <1>1 DEF RowsInv, UrlsUnique, At
<1>6. UrlsFixed'
  <2>1. \A k \in ItemIds : \A v : k # n /\ Named(k, v) => Named(k, v)'
    BY <1>1 DEF Named
  <2>2. \A k \in ItemIds : k # n /\ Saved(k)' => Named(k, items[k].url)'
    BY <1>1 DEF RowsInv, UrlsFixed, Named
  <2>3. Named(n, u)'
    BY DEF Named
  <2>4. \A k \in ItemIds : Saved(k)' => Named(k, items[k].url)'
    BY <2>2, <2>3
  <2>5. \A d \in removals : d.item <= lastItem' /\ Named(d.item, d.url)'
    <3> SUFFICES ASSUME NEW d \in removals PROVE d.item <= lastItem' /\ Named(d.item, d.url)'
      OBVIOUS
    <3>1. d.item \in ItemIds /\ d.item <= lastItem /\ Named(d.item, d.url)
      BY <1>0 DEF RowsInv, UrlsFixed
    <3>2. d.item <= lastItem'
      <4>1. \A a, b, c \in Nat : a <= b /\ b <= c => a <= c
        OBVIOUS
      <4>2. d.item \in Nat
        BY <1>0, <3>1
      <4> QED BY <1>0, <3>1, <4>1, <4>2, Zenon
    <3>3. d.item = n => Named(d.item, d.url)'
      BY <2>3
    <3>4. d.item # n => Named(d.item, d.url)'
      BY <2>1, <3>1
    <3> QED BY <3>2, <3>3, <3>4
  <2> QED BY <2>4, <2>5 DEF UrlsFixed
<1>7. UnwantedBuried'
  BY DEF UnwantedBuried
<1>8. RemovedStaysRemoved'
  BY <1>1 DEF RowsInv, RemovedStaysRemoved, At, RowsWhole, Whole, Saved
<1> QED BY <1>3, <1>4, <1>5, <1>6, <1>7, <1>8 DEF RowsInv

LEMMA RowsUntouched ==
  ASSUME TypeInv, RowsInv,
         UNCHANGED <<items, lastItem, sources, tombs, archive, removals, unwanted>>
  PROVE  RowsInv'
  BY ItemsUntouched, RowsTended DEF TypeInv

LEMMA LeasesKept ==
  ASSUME CapturesInv, TypeInv', lastToken' >= lastToken,
         \A k \in ItemIds :
            \/ items'[k].token = NoToken /\ imported'[k] <= lastToken'
            \/ items'[k].token \in {items[k].token, NoToken} /\ imported'[k] = imported[k]
            \/ items'[k].token = lastToken' /\ lastToken' > lastToken /\ imported'[k] = imported[k],
         \A w \in Capturers :
            \/ capturer'[w].pc # "capture" \/ capturer'[w] = capturer[w]
            \/ /\ capturer'[w].item \in ItemIds /\ capturer'[w].token # NoToken
               /\ capturer'[w].token <= lastToken'
  PROVE  Leases'
<1>1. /\ lastToken \in Nat /\ lastToken' \in Nat
      /\ \A k \in ItemIds : /\ items'[k].token \in Nat /\ items[k].token \in Nat
                            /\ imported[k] \in Nat /\ imported'[k] \in Nat
  <2>1. items \in [ItemIds -> Rows] /\ items' \in [ItemIds -> Rows]
    BY DEF CapturesInv, TypeInv, TablesTypeOK
  <2>2. \A k \in ItemIds : items'[k].token \in Nat /\ items[k].token \in Nat
    BY <2>1, RowFields
  <2>3. imported \in [ItemIds -> Nat] /\ imported' \in [ItemIds -> Nat]
    BY DEF CapturesInv, TypeInv, HistoryTypeOK
  <2>4. lastToken \in Nat /\ lastToken' \in Nat
    BY ItemsAssumption DEF CapturesInv, TypeInv, TablesTypeOK
  <2> QED BY <2>2, <2>3, <2>4
<1>2. \A w \in Capturers : capturer[w].token \in Nat /\ capturer'[w].token \in Nat
  BY DEF CapturesInv, TypeInv, LoopsTypeOK
<1>3. \A i \in ItemIds :
         /\ items'[i].token <= lastToken' /\ imported'[i] <= lastToken'
         /\ items'[i].token # NoToken => items'[i].token > imported'[i]
  BY <1>1 DEF CapturesInv, LeaseInv, Leases, NoToken
<1>4. \A w \in Capturers : capturer'[w].pc = "capture" =>
         /\ capturer'[w].item \in ItemIds
         /\ capturer'[w].token # NoToken /\ capturer'[w].token <= lastToken'
  BY <1>1, <1>2 DEF CapturesInv, LeaseInv, Leases
<1> QED BY <1>3, <1>4 DEF Leases

LEMMA ServerCaptures ==
  /\ \A n \in 1..MaxTokens : ServerCapture(n) \in CaptureIds
  /\ \A i \in ItemIds, page \in 1..MaxPages : Upload(i, page) \in CaptureIds
  BY DEF ServerCapture, Upload, CaptureIds

\* Storing a capture ends the lease of its item.
LEMMA StoreCaptureFacts ==
  ASSUME TablesTypeOK, NEW i \in ItemIds, NEW c \in CaptureIds, NEW page \in PageKinds,
         StoreCapture(i, c, page)
  PROVE  /\ ItemsSame /\ Saved(i) /\ ~Stored(c)
         /\ Tended(items[i], items'[i]) /\ items'[i].token = NoToken
         /\ \A k \in ItemIds : k # i => items'[k] = items[k]
         /\ captures' = [captures EXCEPT ![c] = [item |-> i, key |-> <<c, 0>>]]
         /\ captures' \in [CaptureIds -> CaptureRows]
<1> DEFINE s == CaptureStored(items[i], c, page)
<1>1. Saved(i) /\ ~Stored(c) /\ PutItem(i, s)
  BY DEF StoreCapture
<1>2. items[i] \in Rows
  BY DEF TablesTypeOK
<1>3. Tended(items[i], s) /\ s.token = NoToken
  BY <1>1, <1>2, CaptureStoredFacts DEF Saved
<1>4. SameItem(items[i], s)
  BY <1>3 DEF Tended
<1> HIDE DEF s
<1>5. ItemsSame /\ items'[i] = s /\ \A k \in ItemIds : k # i => items'[k] = items[k]
  BY <1>1, <1>4, PutSame
<1>6. captures' = [captures EXCEPT ![c] = [item |-> i, key |-> <<c, 0>>]]
  BY DEF StoreCapture
<1>7. captures' \in [CaptureIds -> CaptureRows]
  <2>1. [item |-> i, key |-> <<c, 0>>] \in CaptureRows
    BY DEF CaptureRows, StorageKeys
  <2> QED BY <1>6, <2>1 DEF TablesTypeOK
<1> QED BY <1>1, <1>3, <1>5, <1>6, <1>7

LEMMA CapturesStart == CapturesInit => CapturesInv
<1> SUFFICES ASSUME CapturesInit PROVE CapturesInv
  OBVIOUS
<1> USE DEF CapturesInit, ItemsInit, NoItem, NoToken
<1>1. TypeInv
  <2>1. NoCapture \in CaptureRows /\ NoTask \in TaskRows
    BY DEF NoCapture, NoTask, NoKey, CaptureRows, TaskRows, StorageKeys
  <2>2. archive \in Archives
    BY <2>1, NoRowFacts DEF NoArchive, Archives
  <2>3. TablesTypeOK
    BY <2>1, <2>2, NoRowFacts, ItemsAssumption DEF TablesTypeOK
  <2>4. LoopsTypeOK /\ HistoryTypeOK
    BY DEF LoopsTypeOK, HistoryTypeOK, Resting, NotReading, NotRestoring, Texts
  <2> QED BY <2>3, <2>4 DEF TypeInv
<1>2. RowsInv
  BY NoRowFacts DEF RowsInv, RowsWhole, Whole, SourcesSaved, UrlsUnique, UrlsFixed,
     UnwantedBuried, RemovedStaysRemoved, Saved, NoArchive, Named
<1>3. LeaseInv
  BY NoRowFacts DEF LeaseInv, Leases, ImportedPageKept, Resting
<1>4. NothingMoved
  BY DEF NothingMoved, NotRestoring
<1> QED BY <1>1, <1>2, <1>3, <1>4 DEF CapturesInv

-----------------------------------------------------------------------------
(* Every action keeps the invariant of the rows *)

LEMMA NumberFacts ==
  /\ MaxItems \in Nat /\ MaxTokens \in Nat /\ ItemIds \subseteq Nat \ {0} /\ NoItem \notin ItemIds
  /\ \A n \in Nat : n < MaxItems => n + 1 \in ItemIds
  BY ItemsAssumption DEF ItemIds, NoItem

LEMMA CallSaveKeeps ==
  ASSUME CapturesInv, NEW u \in Urls, NEW tags \in SUBSET Tags, CallSave(u, tags)
  PROVE  CapturesInv'
<1> USE DEF CapturesInv, TypeInv
<1>1. /\ UNCHANGED <<sources, gone, captures, captureTasks, lastToken, archive, restores>>
      /\ UNCHANGED <<capturer, classifier, restoring, mishaps, removals, captureFiles>>
      /\ UNCHANGED <<imported, wrote, classified>>
      /\ tombs' = tombs \ {u} /\ unwanted' = unwanted \ {u} /\ calls' = calls + 1
  BY DEF CallSave, Save, Loops, Call
<1>2. chosen' \in [ItemIds -> SUBSET Tags]
  BY DEF CallSave, HistoryTypeOK
<1>3. LoopsTypeOK' /\ HistoryTypeOK'
  BY <1>1, <1>2 DEF LoopsTypeOK, HistoryTypeOK
<1>4. \A m \in Nodes : sources'[m] # NoItem =>
         sources'[m] \in ItemIds /\ items[sources'[m]].capture # "none"
  BY <1>1 DEF TablesTypeOK, RowsInv, SourcesSaved, Saved
<1>5. unwanted' \subseteq unwanted \ {u} /\ unwanted' \subseteq unwanted /\ unwanted' \subseteq tombs'
  BY <1>1 DEF RowsInv, UnwantedBuried
<1>6. NothingMoved'
  BY <1>1 DEF NothingMoved
<1>7. CASE At(u) = {} /\ lastItem < MaxItems /\ lastItem' = lastItem + 1
           /\ PutItem(lastItem + 1, NewItem(u, tags))
  <2> DEFINE n == lastItem + 1
             s == NewItem(u, tags)
  <2>1. n \in ItemIds /\ lastItem \in Nat /\ lastItem' \in 0..MaxItems
    BY <1>7, NumberFacts DEF TablesTypeOK
  <2>2. ~Saved(n) /\ archive.items[n] = NoItemRow /\ items[n] = NoItemRow
    BY <2>1 DEF RowsInv, RowsWhole, Whole, Saved
  <2>3. s \in Rows /\ s.capture # "none" /\ s.url = u /\ s.token = NoToken
    BY NewItemFacts DEF SameItem
  <2> HIDE DEF s
  <2>4. /\ items' \in [ItemIds -> Rows] /\ items'[n] = s
        /\ \A k \in ItemIds : k # n => items'[k] = items[k]
    BY <1>7, <2>1, <2>3 DEF PutItem, TablesTypeOK, s
  <2>5. TypeInv'
    BY <1>1, <1>3, <2>1, <2>4 DEF TablesTypeOK
  <2>6. \A k \in ItemIds : Saved(k) => SameItem(items[k], items[k])
    BY DEF TablesTypeOK, SameItem, Saved
  <2>7. RowsInv'
    <3>1. \A d \in removals : d.item # n
      BY <2>1 DEF RowsInv, UrlsFixed, LoopsTypeOK, ItemIds
    <3>2. lastItem' \in Nat /\ lastItem <= lastItem' /\ n <= lastItem'
      BY <1>7, <2>1
    <3> HIDE DEF n
    <3> QED BY <1>1, <1>4, <1>5, <1>7, <2>1, <2>2, <2>3, <2>4, <2>6, <3>1, <3>2, RowAppears
  <2>8. LeaseInv'
    <3>1. \A k \in ItemIds : items'[k].token \in {items[k].token, NoToken}
      BY <2>3, <2>4
    <3>2. lastToken' >= lastToken
      BY <1>1, NumberFacts DEF TablesTypeOK
    <3>3. Leases'
      BY <1>1, <2>5, <3>1, <3>2, LeasesKept
    <3> QED BY <1>1, <3>3 DEF LeaseInv, ImportedPageKept
  <2> QED BY <1>6, <2>5, <2>7, <2>8
<1>8. CASE UNCHANGED <<items, lastItem>>
  <2>1. TypeInv'
    BY <1>1, <1>3, <1>8 DEF TablesTypeOK
  <2>2. RowsInv'
    BY <1>1, <1>4, <1>5, <1>8, ItemsUntouched, RowsKept
  <2>3. LeaseInv'
    BY <1>1, <1>8 DEF LeaseInv, Leases, ImportedPageKept
  <2> QED BY <1>6, <2>1, <2>2, <2>3
<1> QED BY <1>7, <1>8 DEF CallSave, Save

\* SaveFromBrowser finds the row of the address or inserts one, and touches the
\* item its node belonged to before.
LEMMA SyncFacts ==
  ASSUME CapturesInv, NEW u \in Urls, NEW n \in Nodes, CallSync(u, n)
  PROVE  \E i \in ItemIds : \E row \in Rows :
            /\ row.capture # "none" /\ row.url = u
            /\ Tended(row, items'[i]) /\ NoNewLease(row, items'[i])
            /\ \/ row = items[i] /\ Saved(i) /\ lastItem' = lastItem
               \/ /\ row = NewItem(u, {}) /\ At(u) = {} /\ i = lastItem + 1 /\ lastItem' = i
                  /\ ~Saved(i) /\ archive.items[i] = NoItemRow
            /\ \A k \in ItemIds : k # i =>
                  \/ items'[k] = items[k]
                  \/ Saved(k) /\ Tended(items[k], items'[k]) /\ NoNewLease(items[k], items'[k])
            /\ items' \in [ItemIds -> Rows]
            /\ u \notin tombs /\ sources' = [sources EXCEPT ![n] = i]
            /\ UNCHANGED <<tombs, gone, captures, captureTasks, lastToken, archive, restores>>
<1> USE DEF CapturesInv, TypeInv
<1>1. PICK named \in BOOLEAN : SaveFromBrowser(u, n, named)
  BY DEF CallSync
<1> DEFINE known == At(u) # {}
           i     == IF known THEN CHOOSE k \in At(u) : TRUE ELSE lastItem + 1
           row   == IF known THEN items[i] ELSE NewItem(u, {})
           prior == sources[n]
<1>2. /\ MaySync(u) /\ (known \/ lastItem < MaxItems)
      /\ lastItem' = IF known THEN lastItem ELSE i
      /\ sources' = [sources EXCEPT ![n] = i]
      /\ items' = [k \in ItemIds |-> CASE k = i                  -> Synced(row, named)
                                       [] k = prior /\ prior # i -> Touched(items[k])
                                       [] OTHER                  -> items[k]]
      /\ UNCHANGED <<tombs, gone, captures, captureTasks, lastToken, archive, restores>>
  BY <1>1 DEF SaveFromBrowser
<1>4. lastItem \in Nat /\ \A k \in ItemIds : items[k] \in Rows
  BY NumberFacts DEF TablesTypeOK
<1>5. i \in ItemIds /\ (known => i \in At(u) /\ Saved(i))
  <2>1. known => i \in At(u)
    OBVIOUS
  <2>2. \A k \in At(u) : k \in ItemIds /\ Saved(k)
    <3>1. NoUrl # u
      BY ItemsAssumption DEF NoUrl
    <3>2. NoItemRow.url = NoUrl
      BY DEF NoItemRow
    <3> QED BY <3>1, <3>2 DEF At, RowsInv, RowsWhole, Whole, Saved
  <2>3. ~known => i = lastItem + 1 /\ lastItem < MaxItems
    BY <1>2
  <2> QED BY <1>4, <2>1, <2>2, <2>3, NumberFacts
<1>6. row \in Rows /\ row.capture # "none" /\ row.url = u /\ (~known => row.token = NoToken)
  <2>1. ~known => row = NewItem(u, {})
    OBVIOUS
  <2>2. known => row = items[i]
    OBVIOUS
  <2>3. SameItem(NewItem(u, {}), NewItem(u, {})) /\ NewItem(u, {}).url = u /\ NewItem(u, {}).token = NoToken
    <3>1. {} \in SUBSET Tags
      OBVIOUS
    <3> QED BY <3>1, NewItemFacts, ZenonT(60)
  <2> HIDE DEF row, known, i
  <2> QED BY <1>4, <1>5, <2>1, <2>2, <2>3 DEF SameItem, At, Saved
<1>7. ~known => ~Saved(i) /\ items[i] = NoItemRow /\ archive.items[i] = NoItemRow /\ i = lastItem + 1
  <2>1. ~known => i = lastItem + 1
    OBVIOUS
  <2> HIDE DEF i, known
  <2> QED BY <1>4, <1>5, <2>1, NumberFacts DEF RowsInv, RowsWhole, Whole, Saved
<1>8. prior # NoItem => prior \in ItemIds /\ Saved(prior)
  BY DEF TablesTypeOK, RowsInv, SourcesSaved
<1> HIDE DEF i, row, prior, known
<1>9. Tended(row, Synced(row, named)) /\ NoNewLease(row, Synced(row, named))
  BY <1>6, SyncedFacts
<1>10. \A k \in ItemIds : Saved(k) => Tended(items[k], Touched(items[k])) /\ NoNewLease(items[k], Touched(items[k]))
  BY <1>4, TouchedFacts DEF Saved
<1>11. \A k \in ItemIds : k # i =>
          /\ items'[k] \in Rows
          /\ \/ items'[k] = items[k]
             \/ Saved(k) /\ Tended(items[k], items'[k]) /\ NoNewLease(items[k], items'[k])
  <2> SUFFICES ASSUME NEW k \in ItemIds, k # i
               PROVE  /\ items'[k] \in Rows
                      /\ \/ items'[k] = items[k]
                         \/ Saved(k) /\ Tended(items[k], items'[k]) /\ NoNewLease(items[k], items'[k])
    OBVIOUS
  <2>1. CASE k = prior
    <3>1. items'[k] = Touched(items[k]) /\ Saved(k)
      BY <1>2, <1>8, <2>1, NumberFacts
    <3> QED BY <1>10, <3>1 DEF Tended, SameItem
  <2>2. CASE k # prior
    <3>1. items'[k] = items[k]
      BY <1>2, <2>2
    <3> QED BY <1>4, <3>1
  <2> QED BY <2>1, <2>2
<1>12. items'[i] = Synced(row, named)
  BY <1>2, <1>5
<1>13. items' \in [ItemIds -> Rows]
  <2>1. items'[i] \in Rows
    BY <1>9, <1>12 DEF Tended, SameItem
  <2>2. \A k \in ItemIds : items'[k] \in Rows
    BY <1>11, <2>1
  <2> QED BY <1>2, <2>2
<1>14. \/ row = items[i] /\ Saved(i) /\ lastItem' = lastItem
       \/ /\ row = NewItem(u, {}) /\ At(u) = {} /\ i = lastItem + 1 /\ lastItem' = i
          /\ ~Saved(i) /\ archive.items[i] = NoItemRow
  <2>1. CASE known
    BY <1>2, <1>5, <2>1 DEF row
  <2>2. CASE ~known
    BY <1>2, <1>7, <2>2 DEF row, known
  <2> QED BY <2>1, <2>2
<1>15. Tended(row, items'[i]) /\ NoNewLease(row, items'[i])
  BY <1>9, <1>12
<1>16. u \notin tombs
  BY <1>2 DEF MaySync
<1> QED BY <1>2, <1>5, <1>6, <1>11, <1>13, <1>14, <1>15, <1>16

LEMMA CallSyncKeeps ==
  ASSUME CapturesInv, NEW u \in Urls, NEW n \in Nodes, CallSync(u, n)
  PROVE  CapturesInv'
<1> USE DEF CapturesInv, TypeInv
<1>1. PICK i \in ItemIds : \E row \in Rows :
            /\ row.capture # "none" /\ row.url = u
            /\ Tended(row, items'[i]) /\ NoNewLease(row, items'[i])
            /\ \/ row = items[i] /\ Saved(i) /\ lastItem' = lastItem
               \/ /\ row = NewItem(u, {}) /\ At(u) = {} /\ i = lastItem + 1 /\ lastItem' = i
                  /\ ~Saved(i) /\ archive.items[i] = NoItemRow
            /\ \A k \in ItemIds : k # i =>
                  \/ items'[k] = items[k]
                  \/ Saved(k) /\ Tended(items[k], items'[k]) /\ NoNewLease(items[k], items'[k])
            /\ items' \in [ItemIds -> Rows]
            /\ u \notin tombs /\ sources' = [sources EXCEPT ![n] = i]
            /\ UNCHANGED <<tombs, gone, captures, captureTasks, lastToken, archive, restores>>
  BY SyncFacts
<1>2. PICK row \in Rows :
            /\ row.capture # "none" /\ row.url = u
            /\ Tended(row, items'[i]) /\ NoNewLease(row, items'[i])
            /\ \/ row = items[i] /\ Saved(i) /\ lastItem' = lastItem
               \/ /\ row = NewItem(u, {}) /\ At(u) = {} /\ i = lastItem + 1 /\ lastItem' = i
                  /\ ~Saved(i) /\ archive.items[i] = NoItemRow
  BY <1>1
<1>3. /\ UNCHANGED <<capturer, classifier, restoring, mishaps, removals, captureFiles>>
      /\ UNCHANGED <<chosen, imported, wrote, classified, unwanted>> /\ calls' = calls + 1
  BY DEF CallSync, Loops, Call, historyVars
<1>4. lastItem \in Nat /\ \A k \in ItemIds : items[k] \in Rows
  BY NumberFacts DEF TablesTypeOK
<1>5. \A k \in ItemIds : k # i =>
          /\ items'[k].token \in {items[k].token, NoToken}
          /\ IF Saved(k) THEN SameItem(items[k], items'[k]) ELSE items'[k] = items[k]
  BY <1>1, <1>4 DEF Tended, SameItem, NoNewLease, Saved
<1>6. TypeInv'
  <2>1. lastItem' \in 0..MaxItems
    BY <1>2, <1>4, NumberFacts DEF TablesTypeOK, ItemIds
  <2>2. TablesTypeOK'
    BY <1>1, <2>1 DEF TablesTypeOK
  <2>3. LoopsTypeOK' /\ HistoryTypeOK'
    BY <1>3 DEF LoopsTypeOK, HistoryTypeOK
  <2> QED BY <2>2, <2>3
<1>7. SameItem(row, items'[i])
  BY <1>2 DEF Tended
<1>8. RowsInv'
  <2>1. \A m \in Nodes : sources'[m] # NoItem =>
           sources'[m] \in ItemIds /\ (sources'[m] = i \/ items[sources'[m]].capture # "none")
    BY <1>1 DEF TablesTypeOK, RowsInv, SourcesSaved, Saved
  <2>2. u \notin unwanted /\ unwanted' \subseteq unwanted /\ unwanted' \subseteq tombs'
    BY <1>1, <1>3 DEF RowsInv, UnwantedBuried
  <2>3. CASE row = items[i] /\ Saved(i) /\ lastItem' = lastItem
    <3>1. ItemsSame
      BY <1>1, <1>5, <1>7, <2>3 DEF ItemsSame
    <3>2. \A m \in Nodes : sources'[m] # NoItem =>
             sources'[m] \in ItemIds /\ items[sources'[m]].capture # "none"
      BY <2>1, <2>3 DEF Saved
    <3>3. UNCHANGED <<lastItem, archive, removals>>
      BY <1>1, <1>3, <2>3
    <3> QED BY <2>2, <3>1, <3>2, <3>3, RowsKept
  <2>4. CASE /\ row = NewItem(u, {}) /\ At(u) = {} /\ i = lastItem + 1 /\ lastItem' = i
             /\ ~Saved(i) /\ archive.items[i] = NoItemRow
    <3>1. \A d \in removals : d.item # i
      BY <1>4, <2>4 DEF RowsInv, UrlsFixed, LoopsTypeOK, ItemIds
    <3>2. lastItem' \in Nat /\ lastItem <= lastItem' /\ i <= lastItem'
      BY <1>4, <2>4
    <3>3. items'[i].capture # "none" /\ items'[i].url = u
      BY <1>2, <1>7 DEF SameItem
    <3>4. unwanted' \subseteq unwanted \ {u} /\ UNCHANGED <<archive, removals>>
      BY <1>1, <1>3, <2>2
    <3> QED BY <1>1, <1>5, <2>1, <2>2, <2>4, <3>1, <3>2, <3>3, <3>4, RowAppears
  <2> QED BY <1>2, <2>3, <2>4
<1>9. LeaseInv'
  <2>1. items'[i].token \in {items[i].token, NoToken}
    <3>1. {} \in SUBSET Tags
      OBVIOUS
    <3>2. NewItem(u, {}).token = NoToken
      BY <3>1, NewItemFacts
    <3> QED BY <1>2, <3>2 DEF NoNewLease
  <2>2. \A k \in ItemIds : items'[k].token \in {items[k].token, NoToken}
    BY <1>5, <2>1
  <2>3. lastToken' >= lastToken /\ UNCHANGED <<imported, capturer>>
    BY <1>1, <1>3, NumberFacts DEF TablesTypeOK
  <2>4. Leases'
    BY <1>6, <2>2, <2>3, LeasesKept
  <2> QED BY <1>3, <2>4 DEF LeaseInv, ImportedPageKept
<1>10. NothingMoved'
  BY <1>1, <1>3 DEF NothingMoved
<1> QED BY <1>6, <1>8, <1>9, <1>10

\* Steps that hand out no lease, bring no page in and move no archive.
LEMMA QuietKeeps ==
  ASSUME CapturesInv, ItemsSame, \A k \in ItemIds : NoNewLease(items[k], items'[k]),
         UNCHANGED <<lastItem, sources, tombs, gone, lastToken, archive, restores>>,
         captures' \in [CaptureIds -> CaptureRows], captureTasks' \in [CaptureIds -> TaskRows],
         LoopsTypeOK', HistoryTypeOK',
         UNCHANGED <<removals, restoring, imported, unwanted>>,
         \A w \in Capturers : capturer'[w].pc # "capture" \/ capturer'[w] = capturer[w],
         ImportedPageKept'
  PROVE  CapturesInv'
<1>1. TypeInv'
  BY DEF CapturesInv, TypeInv, TablesTypeOK, ItemsSame
<1>2. RowsInv'
  BY RowsTended DEF CapturesInv
<1>3. lastToken' >= lastToken
  BY NumberFacts DEF CapturesInv, TypeInv, TablesTypeOK
<1>4. Leases'
  BY <1>1, <1>3, LeasesKept DEF NoNewLease
<1>5. NothingMoved'
  BY DEF CapturesInv, NothingMoved
<1> QED BY <1>1, <1>2, <1>4, <1>5 DEF CapturesInv, LeaseInv

LEMMA SameLeases ==
  ASSUME UNCHANGED items
  PROVE  \A k \in ItemIds : NoNewLease(items[k], items'[k])
  BY DEF NoNewLease

\* A row that is tended without a new lease.
LEMMA RowOnlyFacts ==
  ASSUME CapturesInv, NEW i \in ItemIds, Saved(i), NEW STATE s, SameItem(items[i], s),
         NoNewLease(items[i], s), RowOnly(i, s)
  PROVE  /\ ItemsSame /\ items'[i] = s /\ \A k \in ItemIds : k # i => items'[k] = items[k]
         /\ \A k \in ItemIds : NoNewLease(items[k], items'[k])
         /\ UNCHANGED <<lastItem, sources, tombs, gone, lastToken, archive, restores>>
         /\ captures' \in [CaptureIds -> CaptureRows] /\ captureTasks' \in [CaptureIds -> TaskRows]
<1>1. ItemsSame /\ items'[i] = s /\ \A k \in ItemIds : k # i => items'[k] = items[k]
  BY PutSame DEF RowOnly, CapturesInv, TypeInv
<1>2. \A k \in ItemIds : NoNewLease(items[k], items'[k])
  BY <1>1 DEF NoNewLease
<1> QED BY <1>1, <1>2 DEF RowOnly, CapturesInv, TypeInv, TablesTypeOK

LEMMA CallEditKeeps ==
  ASSUME CapturesInv, NEW i \in ItemIds, NEW tags \in SUBSET Tags, CallEdit(i, tags)
  PROVE  CapturesInv'
<1>1. Saved(i) /\ RowOnly(i, Edited(items[i], tags)) /\ items[i] \in Rows
  BY DEF CallEdit, Edit, CapturesInv, TypeInv, TablesTypeOK
<1>2. SameItem(items[i], Edited(items[i], tags)) /\ NoNewLease(items[i], Edited(items[i], tags))
  BY <1>1, EditedFacts DEF Saved
<1>3. LoopsTypeOK' /\ HistoryTypeOK'
  BY DEF CallEdit, Call, Loops, CapturesInv, TypeInv, LoopsTypeOK, HistoryTypeOK
<1>4. UNCHANGED <<removals, restoring, imported, unwanted, capturer, wrote>>
  BY DEF CallEdit, Loops
<1>5. ImportedPageKept'
  BY <1>4 DEF CapturesInv, LeaseInv, ImportedPageKept
<1> QED BY <1>1, <1>2, <1>3, <1>4, <1>5, RowOnlyFacts, QuietKeeps

LEMMA CallRowKeeps ==
  ASSUME CapturesInv, NEW i \in ItemIds, CallRow(i)
  PROVE  CapturesInv'
<1>1. items[i] \in Rows
  BY DEF CapturesInv, TypeInv, TablesTypeOK
<1>2. PICK s \in {Recaptured(items[i]), [items[i] EXCEPT !.enrich = "pending"], Approved(items[i])} :
         Saved(i) /\ RowOnly(i, s)
  BY DEF CallRow, Recapture, RetryEnrichment, ApproveContent
<1>3. Tended(items[i], s) /\ NoNewLease(items[i], s)
  BY <1>1, <1>2, RecapturedFacts, PendingFacts, ApprovedFacts DEF Saved
<1>4. LoopsTypeOK' /\ HistoryTypeOK'
  BY DEF CallRow, Call, Loops, CapturesInv, TypeInv, LoopsTypeOK, HistoryTypeOK, historyVars
<1>5. UNCHANGED <<removals, restoring, imported, unwanted, capturer, wrote>>
  BY DEF CallRow, Loops, historyVars
<1>6. ImportedPageKept'
  BY <1>5 DEF CapturesInv, LeaseInv, ImportedPageKept
<1>7. SameItem(items[i], s)
  BY <1>3 DEF Tended
<1> QED BY <1>2, <1>3, <1>4, <1>5, <1>6, <1>7, RowOnlyFacts, QuietKeeps

\* Bringing a page in: an upload, or a page recovered by hand under a number
\* of its own.
LEMMA ImportKeeps ==
  ASSUME CapturesInv, NEW i \in ItemIds, NEW c \in CaptureIds, NEW page \in PageKinds,
         StoreCapture(i, c, page), Import(i),
         lastToken' \in 0..MaxTokens, lastToken' >= lastToken,
         UNCHANGED <<capturer, classifier, restoring, removals>>,
         captureFiles' \subseteq StorageKeys, calls' \in Nat, mishaps' \in Nat
  PROVE  CapturesInv'
<1> USE DEF CapturesInv, TypeInv
<1>1. /\ ItemsSame /\ items'[i].token = NoToken
      /\ \A k \in ItemIds : k # i => items'[k] = items[k]
      /\ captures' \in [CaptureIds -> CaptureRows]
  BY StoreCaptureFacts
<1>2. UNCHANGED <<lastItem, sources, tombs, gone, captureTasks, archive, restores>>
  BY DEF StoreCapture
<1>3. /\ imported' = [imported EXCEPT ![i] = lastToken'] /\ wrote' = [wrote EXCEPT ![i] = NoToken]
      /\ UNCHANGED <<chosen, classified, unwanted>>
  BY DEF Import
<1>4. TypeInv'
  <2>1. TablesTypeOK'
    BY <1>1, <1>2 DEF TablesTypeOK, ItemsSame
  <2>2. LoopsTypeOK'
    BY DEF LoopsTypeOK
  <2>3. HistoryTypeOK'
    BY <1>3, NumberFacts DEF HistoryTypeOK, NoToken
  <2> QED BY <2>1, <2>2, <2>3
<1>5. RowsInv'
  BY <1>1, <1>2, <1>3, RowsTended
<1>6. Leases'
  <2>1. lastToken' \in Nat
    BY NumberFacts
  <2>2. imported'[i] <= lastToken' /\ \A k \in ItemIds : k # i => imported'[k] = imported[k]
    BY <1>3, <2>1 DEF HistoryTypeOK
  <2>3. \A k \in ItemIds : \/ items'[k].token = NoToken /\ imported'[k] <= lastToken'
                           \/ items'[k].token \in {items[k].token, NoToken} /\ imported'[k] = imported[k]
    BY <1>1, <2>2
  <2> QED BY <1>4, <2>3, LeasesKept
<1>7. ImportedPageKept'
  BY <1>3 DEF LeaseInv, ImportedPageKept, HistoryTypeOK
<1>8. NothingMoved'
  BY <1>2 DEF NothingMoved
<1> QED BY <1>4, <1>5, <1>6, <1>7, <1>8 DEF LeaseInv

LEMMA FileKey ==
  ASSUME NEW c \in CaptureIds, captureFiles \subseteq StorageKeys
  PROVE  captureFiles \cup {<<c, 0>>} \subseteq StorageKeys
  BY DEF StorageKeys

LEMMA CallUploadKeeps ==
  ASSUME CapturesInv, NEW i \in ItemIds, NEW page \in 1..MaxPages, CallUpload(i, page)
  PROVE  CapturesInv'
<1> USE DEF CapturesInv, TypeInv
<1>1. UNCHANGED <<capturer, classifier, restoring, mishaps, removals>> /\ calls' = calls + 1
  BY DEF CallUpload, Call, Loops
<1>2. calls' \in Nat /\ mishaps' \in Nat
  BY <1>1 DEF LoopsTypeOK
<1>3. CASE \E kind \in Pages \ {"blocked"} :
              /\ StoreCapture(i, Upload(i, page), kind)
              /\ captureFiles' = captureFiles \cup {<<Upload(i, page), 0>>}
              /\ UNCHANGED lastToken /\ Import(i)
  <2>1. PICK kind \in PageKinds : StoreCapture(i, Upload(i, page), kind)
    BY <1>3, CapturesAssumption
  <2>2. Upload(i, page) \in CaptureIds
    BY ServerCaptures
  <2>3. captureFiles' \subseteq StorageKeys
    BY <1>3, <2>2, FileKey DEF LoopsTypeOK
  <2>4. lastToken' \in 0..MaxTokens /\ lastToken' >= lastToken
    BY <1>3, NumberFacts DEF TablesTypeOK
  <2> QED BY <1>1, <1>2, <1>3, <2>1, <2>2, <2>3, <2>4, ImportKeeps
<1>4. CASE UNCHANGED <<itemVars, captureFiles, historyVars>>
  <2>1. UNCHANGED <<items, lastItem, sources, tombs, gone, captures, captureTasks, lastToken, archive,
                    restores, captureFiles, chosen, imported, wrote, classified, unwanted>>
    BY <1>4 DEF itemVars, historyVars
  <2>2. LoopsTypeOK' /\ HistoryTypeOK' /\ ImportedPageKept'
    BY <1>1, <1>2, <2>1 DEF LoopsTypeOK, HistoryTypeOK, LeaseInv, ImportedPageKept
  <2>3. captures' \in [CaptureIds -> CaptureRows] /\ captureTasks' \in [CaptureIds -> TaskRows]
    BY <2>1 DEF TablesTypeOK
  <2> QED BY <1>1, <2>1, <2>2, <2>3, ItemsUntouched, SameLeases, QuietKeeps
<1> QED BY <1>3, <1>4 DEF CallUpload

LEMMA CallUploadInDoubtKeeps ==
  ASSUME CapturesInv, NEW i \in ItemIds, NEW page \in 1..MaxPages, CallUploadInDoubt(i, page)
  PROVE  CapturesInv'
<1> USE DEF CapturesInv, TypeInv
<1>1. /\ StoreCapture(i, Upload(i, page), "page") /\ Import(i) /\ lastToken' = lastToken
      /\ UNCHANGED <<captureFiles, capturer, classifier, removals, restoring>>
      /\ calls' = calls + 1 /\ mishaps' = mishaps + 1
  BY DEF CallUploadInDoubt, Call, Mishap
<1>2. calls' \in Nat /\ mishaps' \in Nat /\ captureFiles' \subseteq StorageKeys
  BY <1>1 DEF LoopsTypeOK
<1>3. lastToken' \in 0..MaxTokens /\ lastToken' >= lastToken
  BY <1>1, NumberFacts DEF TablesTypeOK
<1>4. "page" \in PageKinds
  BY DEF PageKinds
<1> QED BY <1>1, <1>2, <1>3, <1>4, ServerCaptures, ImportKeeps

LEMMA CallRecoverKeeps ==
  ASSUME CapturesInv, NEW i \in ItemIds, CallRecover(i)
  PROVE  CapturesInv'
<1> USE DEF CapturesInv, TypeInv
<1>1. /\ lastToken < MaxTokens /\ lastToken' = lastToken + 1 /\ Import(i)
      /\ captureFiles' = captureFiles \cup {<<ServerCapture(lastToken + 1), 0>>}
      /\ UNCHANGED <<capturer, classifier, restoring, mishaps, removals>> /\ calls' = calls + 1
  BY DEF CallRecover, Call, Loops
<1>2. PICK kind \in PageKinds : StoreCapture(i, ServerCapture(lastToken + 1), kind)
  BY CapturesAssumption DEF CallRecover
<1>3. calls' \in Nat /\ mishaps' \in Nat
  BY <1>1 DEF LoopsTypeOK
<1>4. lastToken + 1 \in 1..MaxTokens /\ lastToken' \in 0..MaxTokens /\ lastToken' >= lastToken
  BY <1>1, NumberFacts DEF TablesTypeOK
<1>5. ServerCapture(lastToken + 1) \in CaptureIds
  BY <1>4, ServerCaptures
<1>6. captureFiles' \subseteq StorageKeys
  BY <1>1, <1>5, FileKey DEF LoopsTypeOK
<1> QED BY <1>1, <1>2, <1>3, <1>4, <1>5, <1>6, ImportKeeps

LEMMA CallDeleteKeeps ==
  ASSUME CapturesInv, NEW i \in ItemIds, CallDelete(i)
  PROVE  CapturesInv'
<1> USE DEF CapturesInv, TypeInv
<1> DEFINE d == [call |-> calls, item |-> i, url |-> items[i].url]
<1>1. /\ Saved(i) /\ removals' = removals \cup {d} /\ calls' = calls + 1
      /\ UNCHANGED <<capturer, classifier, restoring, mishaps, captureFiles>>
      /\ UNCHANGED <<items, lastItem, sources, tombs, gone, captures, captureTasks, lastToken,
                     archive, restores, chosen, imported, wrote, classified, unwanted>>
  BY DEF CallDelete, Call, Loops, itemVars, historyVars
<1>2. d \in [call : Nat, item : ItemIds, url : Urls]
  BY <1>1 DEF LoopsTypeOK, RowsInv, RowsWhole, Whole, Saved
<1>3. TypeInv'
  BY <1>1, <1>2 DEF TablesTypeOK, LoopsTypeOK, HistoryTypeOK
<1>4. d.item <= lastItem /\ Named(d.item, d.url)
  BY <1>1 DEF RowsInv, UrlsFixed, RowsWhole, Whole, Saved
<1> HIDE DEF d
<1>5. RowsInv'
  <2>1. UrlsFixed'
    BY <1>1, <1>4 DEF RowsInv, UrlsFixed, Named, Saved
  <2> QED
    BY <1>1, <2>1
    DEF RowsInv, RowsWhole, Whole, SourcesSaved, UrlsUnique, UnwantedBuried, RemovedStaysRemoved,
        At, Saved
<1>6. LeaseInv' /\ NothingMoved'
  BY <1>1 DEF LeaseInv, Leases, ImportedPageKept, NothingMoved
<1> QED BY <1>3, <1>5, <1>6

LEMMA RemoveKeeps ==
  ASSUME CapturesInv, NEW d \in removals, Remove(d)
  PROVE  CapturesInv'
<1> USE DEF CapturesInv, TypeInv
<1> DEFINE i == d.item
<1>1. d \in [call : Nat, item : ItemIds, url : Urls]
  BY DEF LoopsTypeOK
<1>2. i \in ItemIds /\ d.url \in Urls
  BY <1>1
<1>3. /\ items' = [items EXCEPT ![i] = NoItemRow] /\ tombs' = tombs \cup {d.url}
      /\ gone' = gone \cup {i}
      /\ sources' = [n \in Nodes |-> IF sources[n] = i THEN NoItem ELSE sources[n]]
      /\ UNCHANGED <<lastItem, lastToken, archive, restores>>
  BY DEF Remove, DeleteItem, PutItem, RecordRemoval
<1>4. /\ removals' = removals \ {d}
      /\ unwanted' = IF Saved(i) THEN unwanted \cup {d.url} ELSE unwanted
      /\ UNCHANGED <<capturer, classifier, restoring, captureFiles, calls, mishaps, chosen,
                     imported, wrote, classified>>
  BY DEF Remove
<1>5. captures' \in [CaptureIds -> CaptureRows] /\ captureTasks' \in [CaptureIds -> TaskRows]
  <2>1. NoCapture \in CaptureRows
    BY DEF NoCapture, NoKey, CaptureRows, StorageKeys
  <2>2. \A c \in CaptureIds : [state |-> "queued", key |-> captures[c].key] \in TaskRows
    BY DEF TablesTypeOK, CaptureRows, TaskRows
  <2>3. captures' = [c \in CaptureIds |-> IF c \in CapturesOf(i) THEN NoCapture ELSE captures[c]]
    BY DEF Remove, DeleteItem, DropCaptures
  <2>4. captureTasks' = [c \in CaptureIds |->
           IF c \in CapturesOf(i) /\ captureTasks[c] = NoTask
           THEN [state |-> "queued", key |-> captures[c].key] ELSE captureTasks[c]]
    BY DEF Remove, DeleteItem, QueueFiles
  <2> QED BY <2>1, <2>2, <2>3, <2>4 DEF TablesTypeOK
<1>6. /\ items'[i] = NoItemRow /\ \A k \in ItemIds : k # i => items'[k] = items[k]
      /\ items' \in [ItemIds -> Rows]
  BY <1>2, <1>3, NoRowFacts DEF TablesTypeOK
<1> HIDE DEF i
<1>7. TypeInv'
  <2>1. TablesTypeOK'
    BY <1>2, <1>3, <1>5, <1>6 DEF TablesTypeOK, NoItem
  <2>2. LoopsTypeOK' /\ HistoryTypeOK'
    BY <1>2, <1>4 DEF LoopsTypeOK, HistoryTypeOK
  <2> QED BY <2>1, <2>2
<1>8. ~Saved(i)' /\ \A k \in ItemIds : k # i => (Saved(k)' <=> Saved(k))
  BY <1>2, <1>6, NoRowFacts DEF Saved
<1>9. RowsInv'
  <2>1. RowsWhole'
    BY <1>3, <1>6, NoRowFacts DEF RowsInv, RowsWhole, Whole
  <2>2. SourcesSaved'
    <3>1. \A n \in Nodes : sources'[n] # NoItem => sources'[n] = sources[n] /\ sources[n] # i
      BY <1>3
    <3> QED BY <1>8, <3>1 DEF RowsInv, SourcesSaved, TablesTypeOK
  <2>3. UrlsUnique'
    BY <1>6, <1>8 DEF RowsInv, UrlsUnique
  <2>4. UrlsFixed'
    <3>1. \A k \in ItemIds : \A u : Named(k, u) => Named(k, u)'
      BY <1>3, <1>6, <1>8 DEF Named
    <3>2. \A k \in ItemIds : Saved(k)' => Named(k, items[k].url)'
      BY <1>3, <1>6, <1>8 DEF RowsInv, UrlsFixed, Named
    <3>3. \A e \in removals' : e \in removals /\ e.item \in ItemIds
      BY <1>4 DEF LoopsTypeOK
    <3> QED BY <1>3, <3>1, <3>2, <3>3 DEF RowsInv, UrlsFixed
  <2>5. UnwantedBuried'
    BY <1>3, <1>4 DEF RowsInv, UnwantedBuried
  <2>6. RemovedStaysRemoved'
    <3>1. \A u \in unwanted : At(u)' = {}
      BY <1>2, <1>6, ItemsAssumption
      DEF RowsInv, RemovedStaysRemoved, At, HistoryTypeOK, NoItemRow, NoUrl
    <3>2. Saved(i) => At(d.url)' = {}
      <4>1. Saved(i) => items[i].url = d.url
        BY DEF RowsInv, UrlsFixed, Named, i
      <4>2. \A k \in ItemIds : items[k].url \in Urls => Saved(k)
        BY ItemsAssumption DEF RowsInv, RowsWhole, Whole, Saved, NoItemRow, NoUrl
      <4>3. NoItemRow.url \notin Urls
        BY ItemsAssumption DEF NoItemRow, NoUrl
      <4> QED BY <1>2, <1>6, <4>1, <4>2, <4>3 DEF RowsInv, UrlsUnique, At
    <3> QED BY <1>4, <3>1, <3>2 DEF RemovedStaysRemoved
  <2> QED BY <2>1, <2>2, <2>3, <2>4, <2>5, <2>6 DEF RowsInv
<1>10. LeaseInv'
  <2>1. \A k \in ItemIds : items'[k].token \in {items[k].token, NoToken}
    BY <1>6, NoRowFacts
  <2>2. lastToken' >= lastToken
    BY <1>3, NumberFacts DEF TablesTypeOK
  <2>3. Leases'
    BY <1>4, <1>7, <2>1, <2>2, LeasesKept
  <2> QED BY <1>4, <2>3 DEF LeaseInv, ImportedPageKept
<1>11. NothingMoved'
  BY <1>3, <1>4 DEF NothingMoved
<1> QED BY <1>7, <1>9, <1>10, <1>11

LEMMA CallExportKeeps ==
  ASSUME CapturesInv, CallExport
  PROVE  CapturesInv'
<1> USE DEF CapturesInv, TypeInv
<1>1. /\ "transfer" \in Calls /\ calls' = calls + 1
      /\ archive' = [items |-> items, captures |-> captures, tombs |-> tombs]
      /\ UNCHANGED <<items, lastItem, sources, tombs, gone, captures, captureTasks, lastToken, restores>>
      /\ UNCHANGED <<capturer, classifier, restoring, mishaps, removals, captureFiles>>
      /\ UNCHANGED <<chosen, imported, wrote, classified, unwanted>>
  BY DEF CallExport, Call, Export, Loops, historyVars
<1>2. TypeInv'
  <2>1. archive' \in Archives
    BY <1>1 DEF TablesTypeOK, Archives
  <2> QED BY <1>1, <2>1 DEF TablesTypeOK, LoopsTypeOK, HistoryTypeOK
<1>3. archive'.items = items
  BY <1>1
<1>4. RowsInv'
  <2>1. \A i \in ItemIds : items[i] # NoItemRow <=> Saved(i)
    BY NoRowFacts DEF RowsInv, RowsWhole, Whole, Saved
  <2>2. RowsWhole'
    BY <1>1, <1>3 DEF RowsInv, RowsWhole, Whole
  <2>3. UrlsFixed'
    <3>1. \A d \in removals : d.item \in ItemIds
      BY DEF LoopsTypeOK
    <3> QED BY <1>1, <1>3, <2>1, <3>1 DEF RowsInv, UrlsFixed, Named, Saved
  <2> QED
    BY <1>1, <2>2, <2>3
    DEF RowsInv, SourcesSaved, UrlsUnique, UnwantedBuried, RemovedStaysRemoved, At, Saved
<1>5. LeaseInv' /\ NothingMoved'
  BY <1>1 DEF LeaseInv, Leases, ImportedPageKept, NothingMoved
<1> QED BY <1>2, <1>4, <1>5

LEMMA CallRestoreKeeps ==
  ASSUME CapturesInv, CallRestore
  PROVE  CapturesInv'
<1> USE DEF CapturesInv, TypeInv
<1>1. /\ "transfer" \in Calls /\ calls' = calls + 1
      /\ restoring' = [on |-> TRUE, left |-> {i \in ItemIds : archive.items[i] # NoItemRow}]
      /\ UNCHANGED <<items, lastItem, sources, tombs, gone, captures, captureTasks, lastToken,
                     archive, restores>>
      /\ UNCHANGED <<capturer, classifier, mishaps, removals, captureFiles>>
      /\ UNCHANGED <<chosen, imported, wrote, classified, unwanted>>
  BY DEF CallRestore, Call, itemVars, historyVars
<1>2. TypeInv'
  BY <1>1 DEF TablesTypeOK, LoopsTypeOK, HistoryTypeOK
<1>3. RowsInv'
  BY <1>1, RowsUntouched
<1>4. LeaseInv' /\ NothingMoved'
  BY <1>1 DEF LeaseInv, Leases, ImportedPageKept, NothingMoved
<1> QED BY <1>2, <1>3, <1>4

\* restoreItem merges with a row that is there, or inserts one.
LEMMA RestoreOneFacts ==
  ASSUME CapturesInv, NEW i \in ItemIds, RestoreOne(i)
  PROVE  \E t \in ItemIds :
           /\ archive.items[i] \in Rows /\ archive.items[i].capture # "none"
           /\ archive.items[i].url \in Urls
           /\ i <= lastItem
           /\ \/ /\ Saved(t) /\ items[t].url = archive.items[i].url
                 /\ PutItem(t, [Touched(items[t]) EXCEPT !.indexed = 0, !.bad = FALSE])
              \/ /\ t = i /\ ~Saved(i) /\ At(archive.items[i].url) = {}
                 /\ PutItem(i, [Touched(Restored(archive.items[i])) EXCEPT !.indexed = 0, !.bad = FALSE])
           /\ Saved(i) => t = i
           /\ captures' = [c \in CaptureIds |->
                 IF c \in Missing(i) THEN [item |-> t, key |-> <<c, restores + 1>>] ELSE captures[c]]
           /\ restores' = restores + 1
           /\ UNCHANGED <<lastItem, sources, tombs, gone, captureTasks, lastToken, archive>>
<1> USE DEF CapturesInv, TypeInv
<1> DEFINE old == archive.items[i]
           t   == IF Saved(i) \/ At(old.url) = {} THEN i ELSE CHOOSE k \in At(old.url) : TRUE
           row == IF Saved(t) THEN items[t] ELSE Restored(old)
<1>1. /\ old # NoItemRow
      /\ PutItem(t, [Touched(row) EXCEPT !.indexed = 0, !.bad = FALSE])
      /\ captures' = [c \in CaptureIds |->
            IF c \in Missing(i) THEN [item |-> t, key |-> <<c, restores + 1>>] ELSE captures[c]]
      /\ restores' = restores + 1
      /\ UNCHANGED <<lastItem, sources, tombs, gone, captureTasks, lastToken, archive>>
  BY DEF RestoreOne, RestoreItem
<1>2. old \in Rows /\ old.capture # "none" /\ old.url \in Urls /\ i <= lastItem
  BY <1>1 DEF TablesTypeOK, Archives, RowsInv, RowsWhole, Whole
<1>3. \A k \in At(old.url) : k \in ItemIds /\ Saved(k) /\ items[k].url = old.url
  BY <1>2, ItemsAssumption DEF At, RowsInv, RowsWhole, Whole, Saved, NoItemRow, NoUrl
<1>4. Saved(i) => items[i].url = old.url
  BY <1>1 DEF RowsInv, UrlsFixed, Named
<1>5. /\ t \in ItemIds /\ (Saved(i) => t = i)
      /\ Saved(t) => items[t].url = old.url
      /\ ~Saved(t) => t = i /\ ~Saved(i) /\ At(old.url) = {}
  <2>1. CASE Saved(i) \/ At(old.url) = {}
    <3>1. t = i
      BY <2>1
    <3> HIDE DEF t, old
    <3> QED BY <1>4, <2>1, <3>1
  <2>2. CASE ~(Saved(i) \/ At(old.url) = {})
    <3>1. t \in At(old.url)
      BY <2>2
    <3> HIDE DEF t, old
    <3> QED BY <1>3, <2>2, <3>1
  <2> QED BY <2>1, <2>2
<1>6. /\ Saved(t) => PutItem(t, [Touched(items[t]) EXCEPT !.indexed = 0, !.bad = FALSE])
      /\ ~Saved(t) => PutItem(t, [Touched(Restored(old)) EXCEPT !.indexed = 0, !.bad = FALSE])
  BY <1>1
<1>7. t \in ItemIds
  BY <1>5
<1> HIDE DEF t, row
<1> QED BY <1>1, <1>2, <1>5, <1>6, <1>7

LEMMA RestoreOneKeeps ==
  ASSUME CapturesInv, NEW i \in ItemIds, RestoreOne(i)
  PROVE  CapturesInv'
<1> USE DEF CapturesInv, TypeInv
<1> DEFINE old == archive.items[i]
<1>1. PICK t \in ItemIds :
           /\ old \in Rows /\ old.capture # "none" /\ old.url \in Urls /\ i <= lastItem
           /\ \/ /\ Saved(t) /\ items[t].url = old.url
                 /\ PutItem(t, [Touched(items[t]) EXCEPT !.indexed = 0, !.bad = FALSE])
              \/ /\ t = i /\ ~Saved(i) /\ At(old.url) = {}
                 /\ PutItem(i, [Touched(Restored(old)) EXCEPT !.indexed = 0, !.bad = FALSE])
           /\ captures' = [c \in CaptureIds |->
                 IF c \in Missing(i) THEN [item |-> t, key |-> <<c, restores + 1>>] ELSE captures[c]]
           /\ restores' = restores + 1
           /\ UNCHANGED <<lastItem, sources, tombs, gone, captureTasks, lastToken, archive>>
  BY RestoreOneFacts
<1>2. /\ i \in restoring.left /\ restoring' = [restoring EXCEPT !.left = @ \ {i}]
      /\ captureFiles' = captureFiles \cup {<<c, restores'>> : c \in Missing(i)}
      /\ chosen' = [chosen EXCEPT ![i] = IF Saved(i) THEN chosen[i] ELSE old.tags]
      /\ classified' = [classified EXCEPT ![i] = IF Saved(i) THEN classified[i] ELSE old.text]
      /\ unwanted' = unwanted \ {old.url}
      /\ UNCHANGED <<capturer, classifier, removals, calls, mishaps, imported, wrote>>
  BY DEF RestoreOne
<1> HIDE DEF old
<1>3. restores' \in Nat
  BY <1>1 DEF TablesTypeOK
<1>4. captures' \in [CaptureIds -> CaptureRows]
  <2>1. \A c \in CaptureIds : [item |-> t, key |-> <<c, restores + 1>>] \in CaptureRows
    BY <1>1, <1>3 DEF CaptureRows, StorageKeys
  <2> QED BY <1>1, <2>1 DEF TablesTypeOK
<1>5. LoopsTypeOK'
  <2>1. captureFiles' \subseteq StorageKeys
    BY <1>2, <1>3 DEF LoopsTypeOK, StorageKeys, Missing
  <2>2. restoring' \in [on : BOOLEAN, left : SUBSET ItemIds]
    BY <1>2 DEF LoopsTypeOK
  <2> QED BY <1>2, <2>1, <2>2 DEF LoopsTypeOK
<1>6. HistoryTypeOK'
  <2>1. old.tags \in SUBSET Tags /\ old.text \in Texts
    BY <1>1, RowFields
  <2> QED BY <1>2, <2>1 DEF HistoryTypeOK
<1>7. NothingMoved'
  BY <1>2 DEF NothingMoved
<1>8. unwanted' \subseteq unwanted \ {old.url} /\ unwanted' \subseteq unwanted /\ unwanted' \subseteq tombs'
  BY <1>1, <1>2 DEF RowsInv, UnwantedBuried
<1>9. \A m \in Nodes : sources'[m] # NoItem =>
         sources'[m] \in ItemIds /\ items[sources'[m]].capture # "none"
  BY <1>1 DEF TablesTypeOK, RowsInv, SourcesSaved, Saved
<1>10. lastToken' >= lastToken /\ lastItem \in Nat
  BY <1>1, NumberFacts DEF TablesTypeOK
<1>11. CASE Saved(t) /\ PutItem(t, [Touched(items[t]) EXCEPT !.indexed = 0, !.bad = FALSE])
  <2> DEFINE s == [Touched(items[t]) EXCEPT !.indexed = 0, !.bad = FALSE]
  <2>1. items[t] \in Rows
    BY DEF TablesTypeOK
  <2>2. Tended(items[t], s) /\ NoNewLease(items[t], s)
    BY <1>11, <2>1, MergedFacts DEF Saved
  <2>3. SameItem(items[t], s) /\ PutItem(t, s)
    BY <1>11, <2>2 DEF Tended
  <2> HIDE DEF s
  <2>4. ItemsSame /\ items'[t] = s /\ \A k \in ItemIds : k # t => items'[k] = items[k]
    BY <1>11, <2>3, PutSame
  <2>5. TypeInv'
    BY <1>1, <1>3, <1>4, <1>5, <1>6, <2>4 DEF TablesTypeOK, ItemsSame
  <2>6. RowsInv'
    BY <1>1, <1>2, <1>8, <1>9, <2>4, RowsKept
  <2>7. \A k \in ItemIds : items'[k].token \in {items[k].token, NoToken}
    BY <2>2, <2>4 DEF NoNewLease
  <2>8. Leases'
    BY <1>2, <1>10, <2>5, <2>7, LeasesKept
  <2> QED BY <1>2, <1>7, <2>5, <2>6, <2>8 DEF LeaseInv, ImportedPageKept
<1>12. CASE /\ t = i /\ ~Saved(i) /\ At(old.url) = {}
            /\ PutItem(i, [Touched(Restored(old)) EXCEPT !.indexed = 0, !.bad = FALSE])
  <2> DEFINE s == [Touched(Restored(old)) EXCEPT !.indexed = 0, !.bad = FALSE]
  <2>1. SameItem(old, s) /\ s.token = NoToken
    BY <1>1, RestoredFacts
  <2>2. PutItem(i, s) /\ s \in Rows /\ s.capture # "none" /\ s.url = old.url
    BY <1>12, <2>1 DEF SameItem
  <2> HIDE DEF s
  <2>3. /\ items' \in [ItemIds -> Rows] /\ items'[i] = s
        /\ \A k \in ItemIds : k # i => items'[k] = items[k]
    BY <2>2 DEF PutItem, TablesTypeOK
  <2>4. TypeInv'
    BY <1>1, <1>3, <1>4, <1>5, <1>6, <2>3 DEF TablesTypeOK
  <2>5. RowsInv'
    <3>1. \A k \in ItemIds : Saved(k) => SameItem(items[k], items[k])
      BY DEF TablesTypeOK, SameItem, Saved
    <3>2. archive.items[i] # NoItemRow => archive.items[i].url = old.url
      BY DEF old
    <3>3. \A d \in removals : d.item = i => d.url = old.url
      <4>1. old # NoItemRow
        BY <1>1, NoRowFacts
      <4> QED BY <4>1 DEF RowsInv, UrlsFixed, Named, old
    <3>4. lastItem' \in Nat /\ lastItem <= lastItem' /\ i <= lastItem'
      BY <1>1, <1>10
    <3>5. \A k \in ItemIds : k # i =>
             IF Saved(k) THEN SameItem(items[k], items'[k]) ELSE items'[k] = items[k]
      BY <2>3, <3>1
    <3>6. UNCHANGED <<archive, removals>> /\ items'[i].capture # "none" /\ items'[i].url = old.url
      BY <1>1, <1>2, <2>2, <2>3
    <3>7. old.url \in Urls /\ ~Saved(i) /\ At(old.url) = {}
      BY <1>1, <1>12
    <3> QED BY <1>8, <1>9, <2>3, <3>2, <3>3, <3>4, <3>5, <3>6, <3>7, RowAppears
  <2>6. \A k \in ItemIds : items'[k].token \in {items[k].token, NoToken}
    BY <2>1, <2>3 DEF s
  <2>7. Leases'
    BY <1>2, <1>10, <2>4, <2>6, LeasesKept
  <2> QED BY <1>2, <1>7, <2>4, <2>5, <2>7 DEF LeaseInv, ImportedPageKept
<1> QED BY <1>1, <1>11, <1>12

LEMMA RestoreEndsKeeps ==
  ASSUME CapturesInv, RestoreEnds
  PROVE  CapturesInv'
<1> USE DEF CapturesInv, TypeInv
<1>1. /\ tombs' = tombs \/ tombs' = tombs \cup archive.tombs
      /\ restoring' = NotRestoring
      /\ UNCHANGED <<items, lastItem, sources, gone, captures, captureTasks, lastToken,
                     archive, restores>>
      /\ UNCHANGED <<capturer, classifier, mishaps, removals, captureFiles, calls>>
      /\ UNCHANGED <<chosen, imported, wrote, classified, unwanted>>
  BY DEF RestoreEnds, RestoreTombstones, itemVars, historyVars
<1>2. TypeInv'
  <2>1. tombs' \subseteq Urls
    BY <1>1 DEF TablesTypeOK, Archives
  <2> QED BY <1>1, <2>1 DEF TablesTypeOK, LoopsTypeOK, HistoryTypeOK, NotRestoring
<1>3. RowsInv'
  <2>1. \A m \in Nodes : sources'[m] # NoItem =>
           sources'[m] \in ItemIds /\ items[sources'[m]].capture # "none"
    BY <1>1 DEF TablesTypeOK, RowsInv, SourcesSaved, Saved
  <2>2. unwanted' \subseteq unwanted /\ unwanted' \subseteq tombs'
    BY <1>1 DEF RowsInv, UnwantedBuried
  <2> QED BY <1>1, <2>1, <2>2, ItemsUntouched, RowsKept
<1>4. LeaseInv' /\ NothingMoved'
  BY <1>1 DEF LeaseInv, Leases, ImportedPageKept, NothingMoved, NotRestoring
<1> QED BY <1>2, <1>3, <1>4

LEMMA ClaimKeeps ==
  ASSUME CapturesInv, NEW w \in Capturers, Claim(w)
  PROVE  CapturesInv'
<1> USE DEF CapturesInv, TypeInv
<1>1. PICK i \in ItemIds :
         /\ ClaimCapture(i)
         /\ SetCapturer(w, [pc |-> "capture", item |-> i, token |-> lastToken + 1,
                            attempts |-> items[i].attempts + 1])
  BY DEF Claim
<1> DEFINE s == CaptureClaimed(items[i], lastToken + 1)
<1>2. /\ lastToken < MaxTokens /\ lastToken' = lastToken + 1 /\ CaptureDue(items[i]) /\ PutItem(i, s)
      /\ UNCHANGED <<lastItem, sources, tombs, gone, captures, captureTasks, archive, restores>>
  BY <1>1 DEF ClaimCapture
<1>3. UNCHANGED <<classifier, removals, restoring, captureFiles, calls, mishaps,
                  chosen, imported, wrote, classified, unwanted>>
  BY DEF Claim, historyVars
<1>4. /\ lastToken \in Nat /\ lastToken + 1 \in Nat /\ lastToken' \in 0..MaxTokens
      /\ lastToken' > lastToken /\ lastToken' >= lastToken /\ lastToken' # NoToken
      /\ lastToken' <= lastToken'
  BY <1>2, NumberFacts DEF TablesTypeOK, NoToken
<1>5. items[i] \in Rows /\ Saved(i)
  BY <1>2 DEF TablesTypeOK, CaptureDue, Saved
<1>6. Tended(items[i], s) /\ s.token = lastToken + 1
  BY <1>4, <1>5, ClaimedFacts DEF Saved
<1>7. SameItem(items[i], s)
  BY <1>6 DEF Tended
<1> HIDE DEF s
<1>8. ItemsSame /\ items'[i] = s /\ \A k \in ItemIds : k # i => items'[k] = items[k]
  BY <1>2, <1>5, <1>7, PutSame
<1> DEFINE u == [pc |-> "capture", item |-> i, token |-> lastToken + 1,
                 attempts |-> items[i].attempts + 1]
<1>9. /\ capturer' = [capturer EXCEPT ![w] = u]
      /\ u \in [pc : {"idle", "capture"}, item : ItemIds \cup {NoItem}, token : Nat, attempts : Nat]
      /\ u.item \in ItemIds /\ u.token = lastToken'
  <2>1. items[i].attempts + 1 \in Nat
    BY <1>5, RowFields
  <2> QED BY <1>1, <1>2, <1>4, <2>1 DEF SetCapturer
<1> HIDE DEF u
<1>10. TypeInv'
  <2>1. TablesTypeOK'
    BY <1>2, <1>4, <1>8 DEF TablesTypeOK, ItemsSame
  <2>2. LoopsTypeOK' /\ HistoryTypeOK'
    BY <1>3, <1>9 DEF LoopsTypeOK, HistoryTypeOK
  <2> QED BY <2>1, <2>2
<1>11. RowsInv'
  BY <1>2, <1>3, <1>8, RowsTended
<1>12. Leases'
  <2>1. \A k \in ItemIds :
           \/ items'[k].token \in {items[k].token, NoToken} /\ imported'[k] = imported[k]
           \/ items'[k].token = lastToken' /\ lastToken' > lastToken /\ imported'[k] = imported[k]
    BY <1>2, <1>3, <1>4, <1>6, <1>8
  <2>2. \A v \in Capturers :
           \/ capturer'[v] = capturer[v]
           \/ /\ capturer'[v].item \in ItemIds /\ capturer'[v].token # NoToken
              /\ capturer'[v].token <= lastToken'
    BY <1>4, <1>9 DEF LoopsTypeOK
  <2> QED BY <1>4, <1>10, <2>1, <2>2, LeasesKept
<1> QED BY <1>2, <1>3, <1>10, <1>11, <1>12 DEF LeaseInv, ImportedPageKept, NothingMoved

\* A capture loop that has ended its work rests.
LEMMA Rests ==
  ASSUME CapturesInv, NEW w \in Capturers, SetCapturer(w, Resting)
  PROVE  /\ capturer' \in [Capturers -> [pc : {"idle", "capture"}, item : ItemIds \cup {NoItem},
                                         token : Nat, attempts : Nat]]
         /\ \A v \in Capturers : capturer'[v].pc # "capture" \/ capturer'[v] = capturer[v]
<1>1. Resting \in [pc : {"idle", "capture"}, item : ItemIds \cup {NoItem}, token : Nat, attempts : Nat]
      /\ Resting.pc # "capture"
  BY DEF Resting, NoItem, NoToken
<1>2. capturer' = [capturer EXCEPT ![w] = Resting]
  BY DEF SetCapturer
<1>3. capturer \in [Capturers -> [pc : {"idle", "capture"}, item : ItemIds \cup {NoItem},
                                  token : Nat, attempts : Nat]]
  BY DEF CapturesInv, TypeInv, LoopsTypeOK
<1> QED BY <1>1, <1>2, <1>3

LEMMA GiveBackKeeps ==
  ASSUME CapturesInv, NEW w \in Capturers, GiveBack(w)
  PROVE  CapturesInv'
<1> USE DEF CapturesInv, TypeInv
<1> DEFINE u == capturer[w]
<1>1. /\ u.pc = "capture" /\ SetCapturer(w, Resting)
      /\ FailCapture(u.item, u.token, u.attempts) \/ UNCHANGED itemVars
      /\ UNCHANGED <<classifier, removals, restoring, captureFiles, calls, mishaps,
                     chosen, imported, wrote, classified, unwanted>>
  BY DEF GiveBack, historyVars
<1>2. u.item \in ItemIds /\ u.attempts \in Nat
  BY <1>1 DEF LeaseInv, Leases, LoopsTypeOK
<1>3. LoopsTypeOK' /\ HistoryTypeOK' /\ ImportedPageKept'
  BY <1>1, Rests DEF LoopsTypeOK, HistoryTypeOK, LeaseInv, ImportedPageKept
<1>4. \A v \in Capturers : capturer'[v].pc # "capture" \/ capturer'[v] = capturer[v]
  BY <1>1, Rests
<1> HIDE DEF u
<1>5. CASE FailCapture(u.item, u.token, u.attempts)
  <2>1. /\ Saved(u.item) /\ RowOnly(u.item, CaptureFailed(items[u.item], u.attempts))
        /\ items[u.item] \in Rows
    BY <1>2, <1>5 DEF FailCapture, CaptureHeld, TablesTypeOK
  <2>2. /\ SameItem(items[u.item], CaptureFailed(items[u.item], u.attempts))
        /\ NoNewLease(items[u.item], CaptureFailed(items[u.item], u.attempts))
    BY <1>2, <2>1, CaptureFailedFacts DEF Saved, Tended, NoNewLease
  <2> QED BY <1>1, <1>2, <1>3, <1>4, <2>1, <2>2, RowOnlyFacts, QuietKeeps
<1>6. CASE UNCHANGED itemVars
  <2>1. UNCHANGED <<items, lastItem, sources, tombs, gone, captures, captureTasks, lastToken,
                    archive, restores>>
    BY <1>6 DEF itemVars
  <2>2. captures' \in [CaptureIds -> CaptureRows] /\ captureTasks' \in [CaptureIds -> TaskRows]
    BY <2>1 DEF TablesTypeOK
  <2> QED BY <1>1, <1>3, <1>4, <2>1, <2>2, ItemsUntouched, SameLeases, QuietKeeps
<1> QED BY <1>1, <1>5, <1>6

\* The result of a capture whose lease is still held.
LEMMA ResultKeeps ==
  ASSUME CapturesInv, NEW w \in Capturers, capturer[w].pc = "capture",
         CaptureHeld(capturer[w].item, capturer[w].token), NEW page \in PageKinds,
         StoreCapture(capturer[w].item, ServerCapture(capturer[w].token), page),
         UNCHANGED lastToken, Wrote(capturer[w]), SetCapturer(w, Resting),
         UNCHANGED <<classifier, removals, restoring>>,
         captureFiles' \in {captureFiles, captureFiles \cup {<<ServerCapture(capturer[w].token), 0>>}},
         calls' \in Nat, mishaps' \in Nat
  PROVE  CapturesInv'
<1> USE DEF CapturesInv, TypeInv
<1> DEFINE i == capturer[w].item
           n == capturer[w].token
<1>1. /\ i \in ItemIds /\ n \in 1..MaxTokens /\ n \in Nat /\ n > imported[i]
  <2>1. i \in ItemIds /\ n \in Nat /\ n # NoToken /\ n <= lastToken /\ items[i].token = n
    BY DEF LeaseInv, Leases, LoopsTypeOK, CaptureHeld
  <2>2. lastToken \in 0..MaxTokens
    BY DEF TablesTypeOK
  <2>3. n > imported[i]
    BY <2>1 DEF LeaseInv, Leases
  <2> HIDE DEF i, n
  <2> QED BY <2>1, <2>2, <2>3, NumberFacts DEF NoToken
<1>2. ServerCapture(n) \in CaptureIds
  BY <1>1, ServerCaptures
<1>3. /\ ItemsSame /\ items'[i].token = NoToken
      /\ \A k \in ItemIds : k # i => items'[k] = items[k]
      /\ captures' \in [CaptureIds -> CaptureRows]
  BY <1>1, <1>2, StoreCaptureFacts
<1>4. UNCHANGED <<lastItem, sources, tombs, gone, captureTasks, archive, restores>>
  BY DEF StoreCapture
<1>5. /\ wrote' = [wrote EXCEPT ![i] = n]
      /\ UNCHANGED <<chosen, imported, classified, unwanted>>
  BY DEF Wrote
<1>6. captureFiles' \subseteq StorageKeys
  BY <1>2, FileKey DEF LoopsTypeOK
<1> HIDE DEF i, n
<1>7. LoopsTypeOK'
  BY <1>6, Rests DEF LoopsTypeOK
<1>8. HistoryTypeOK' /\ ImportedPageKept'
  BY <1>1, <1>5 DEF HistoryTypeOK, LeaseInv, ImportedPageKept
<1>9. \A k \in ItemIds : NoNewLease(items[k], items'[k])
  BY <1>3 DEF NoNewLease
<1>10. captureTasks' \in [CaptureIds -> TaskRows]
  BY <1>4 DEF TablesTypeOK
<1>11. \A v \in Capturers : capturer'[v].pc # "capture" \/ capturer'[v] = capturer[v]
  BY Rests
<1> QED BY <1>3, <1>4, <1>5, <1>7, <1>8, <1>9, <1>10, <1>11, QuietKeeps

\* Steps that leave the tables alone.
LEMMA IdleKeeps ==
  ASSUME CapturesInv, UNCHANGED itemVars, UNCHANGED <<removals, restoring>>,
         UNCHANGED historyVars, LoopsTypeOK',
         \A v \in Capturers : capturer'[v].pc # "capture" \/ capturer'[v] = capturer[v]
  PROVE  CapturesInv'
<1> USE DEF CapturesInv, TypeInv
<1>1. UNCHANGED <<items, lastItem, sources, tombs, gone, captures, captureTasks, lastToken,
                  archive, restores>>
  BY DEF itemVars
<1>2. UNCHANGED <<chosen, imported, wrote, classified, unwanted>>
  BY DEF historyVars
<1>3. captures' \in [CaptureIds -> CaptureRows] /\ captureTasks' \in [CaptureIds -> TaskRows]
  BY <1>1 DEF TablesTypeOK
<1>4. HistoryTypeOK' /\ ImportedPageKept'
  BY <1>2 DEF HistoryTypeOK, LeaseInv, ImportedPageKept
<1> QED BY <1>1, <1>2, <1>3, <1>4, ItemsUntouched, SameLeases, QuietKeeps

LEMMA PersistKeeps ==
  ASSUME CapturesInv, NEW w \in Capturers, Persist(w)
  PROVE  CapturesInv'
<1> DEFINE u == capturer[w]
           c == ServerCapture(u.token)
<1>1. /\ u.pc = "capture" /\ SetCapturer(w, Resting)
      /\ UNCHANGED <<classifier, removals, restoring, calls, mishaps>>
  BY DEF Persist
<1>2. calls' \in Nat /\ mishaps' \in Nat
  BY <1>1 DEF CapturesInv, TypeInv, LoopsTypeOK
<1>3. CASE /\ CaptureHeld(u.item, u.token)
           /\ \E kind \in Pages : StoreCapture(u.item, c, kind)
           /\ captureFiles' = captureFiles \cup {<<c, 0>>}
           /\ UNCHANGED lastToken /\ Wrote(u)
  <2>1. PICK kind \in PageKinds : StoreCapture(u.item, c, kind)
    BY <1>3, CapturesAssumption
  <2>2. captureFiles' \in {captureFiles, captureFiles \cup {<<c, 0>>}}
    BY <1>3
  <2> QED BY <1>1, <1>2, <1>3, <2>1, <2>2, ResultKeeps
<1>4. CASE UNCHANGED <<itemVars, captureFiles, historyVars>>
  <2>1. LoopsTypeOK'
    BY <1>1, <1>4, Rests DEF CapturesInv, TypeInv, LoopsTypeOK
  <2> QED BY <1>1, <1>4, <2>1, Rests, IdleKeeps
<1> QED BY <1>3, <1>4 DEF Persist

LEMMA PersistInDoubtKeeps ==
  ASSUME CapturesInv, NEW w \in Capturers, PersistInDoubt(w)
  PROVE  CapturesInv'
<1> DEFINE u == capturer[w]
           c == ServerCapture(u.token)
<1>1. /\ u.pc = "capture" /\ SetCapturer(w, Resting) /\ CaptureHeld(u.item, u.token)
      /\ mishaps' = mishaps + 1
      /\ UNCHANGED <<classifier, removals, restoring, captureFiles, calls>>
  BY DEF PersistInDoubt, Mishap
<1>2. calls' \in Nat /\ mishaps' \in Nat
  BY <1>1 DEF CapturesInv, TypeInv, LoopsTypeOK
<1>3. CASE StoreCapture(u.item, c, "page") /\ UNCHANGED lastToken /\ Wrote(u)
  <2>1. captureFiles' \in {captureFiles, captureFiles \cup {<<c, 0>>}} /\ "page" \in PageKinds
    BY <1>1 DEF PageKinds
  <2> QED BY <1>1, <1>2, <1>3, <2>1, ResultKeeps
<1>4. CASE UNCHANGED <<itemVars, historyVars>>
  <2>1. LoopsTypeOK'
    BY <1>1, <1>2, <1>4, Rests DEF CapturesInv, TypeInv, LoopsTypeOK
  <2> QED BY <1>1, <1>4, <2>1, Rests, IdleKeeps
<1> QED BY <1>3, <1>4 DEF PersistInDoubt

LEMMA CrashKeeps ==
  ASSUME CapturesInv, NEW w \in Capturers, Crash(w)
  PROVE  CapturesInv'
<1> DEFINE u == capturer[w]
<1>1. /\ u.pc = "capture" /\ SetCapturer(w, Resting) /\ mishaps' = mishaps + 1
      /\ captureFiles' \in {captureFiles, captureFiles \cup {<<ServerCapture(u.token), 0>>}}
      /\ UNCHANGED <<itemVars, classifier, removals, restoring, calls, historyVars>>
  BY DEF Crash, Mishap
<1>2. ServerCapture(u.token) \in CaptureIds
  <2>1. u.token \in Nat /\ u.token # NoToken /\ u.token <= lastToken /\ lastToken \in 0..MaxTokens
    BY <1>1 DEF CapturesInv, LeaseInv, Leases, TypeInv, LoopsTypeOK, TablesTypeOK
  <2>2. u.token \in 1..MaxTokens
    BY <2>1, NumberFacts DEF NoToken
  <2> QED BY <2>2, ServerCaptures
<1>3. captureFiles' \subseteq StorageKeys
  BY <1>1, <1>2, FileKey DEF CapturesInv, TypeInv, LoopsTypeOK
<1> HIDE DEF u
<1>4. LoopsTypeOK'
  BY <1>1, <1>3, Rests DEF CapturesInv, TypeInv, LoopsTypeOK
<1> QED BY <1>1, <1>4, Rests, IdleKeeps

LEMMA ReadTextKeeps ==
  ASSUME CapturesInv, NEW i \in ItemIds, ReadText(i)
  PROVE  CapturesInv'
<1>1. /\ classifier' = [pc |-> "read", item |-> i, version |-> items[i].version,
                        tags |-> items[i].tags, text |-> items[i].text]
      /\ UNCHANGED <<itemVars, capturer, removals, restoring, captureFiles, calls, mishaps, historyVars>>
  BY DEF ReadText
<1>2. items[i].version \in Nat /\ items[i].tags \in SUBSET Tags /\ items[i].text \in Texts
  BY RowFields DEF CapturesInv, TypeInv, TablesTypeOK
<1>3. LoopsTypeOK'
  BY <1>1, <1>2 DEF CapturesInv, TypeInv, LoopsTypeOK
<1> QED BY <1>1, <1>3, IdleKeeps

LEMMA ClassifyKeeps ==
  ASSUME CapturesInv, Classify
  PROVE  CapturesInv'
<1> USE DEF CapturesInv, TypeInv
<1> DEFINE i == classifier.item
<1>1. /\ classifier' = NotReading
      /\ UNCHANGED <<capturer, removals, restoring, captureFiles, calls, mishaps, chosen,
                     imported, wrote, unwanted>>
  BY DEF Classify
<1>2. NotReading \in [pc : {"idle", "read"}, item : ItemIds \cup {NoItem}, version : Nat,
                      tags : SUBSET Tags, text : Texts]
      /\ NotReading.pc # "read"
  BY DEF NotReading, NoItem, Texts
<1>3. /\ i \in ItemIds \cup {NoItem} /\ classifier.tags \in SUBSET Tags /\ classifier.text \in Texts
  BY DEF LoopsTypeOK
<1>4. LoopsTypeOK'
  BY <1>1, <1>2 DEF LoopsTypeOK
<1>5. HistoryTypeOK'
  <2>1. classified' = classified \/ classified' = [classified EXCEPT ![i] = classifier.text]
    BY DEF Classify, itemVars
  <2> HIDE DEF i
  <2> QED BY <1>1, <1>3, <2>1 DEF HistoryTypeOK
<1>6. ImportedPageKept'
  BY <1>1 DEF LeaseInv, ImportedPageKept
<1>7. CASE \E s \in {EnrichFailed(items[i])} \cup {Enriched(items[i], classifier.tags, f) : f \in SUBSET Tags} :
              Saved(i) /\ RowOnly(i, s)
  <2>0. PICK s \in {EnrichFailed(items[i])} \cup {Enriched(items[i], classifier.tags, f) : f \in SUBSET Tags} :
              Saved(i) /\ RowOnly(i, s)
    BY <1>7
  <2>1. i \in ItemIds
    BY DEF Classify, LoopsTypeOK
  <2>2. items[i] \in Rows
    BY <2>1 DEF TablesTypeOK
  <2>3. SameItem(items[i], s) /\ NoNewLease(items[i], s)
    <3>1. items[i].capture # "none"
      BY <2>0 DEF Saved
    <3>2. SameItem(items[i], EnrichFailed(items[i])) /\ NoNewLease(items[i], EnrichFailed(items[i]))
      BY <2>2, <3>1, EnrichFailedFacts DEF Tended
    <3>3. \A f \in SUBSET Tags : /\ SameItem(items[i], Enriched(items[i], classifier.tags, f))
                                 /\ NoNewLease(items[i], Enriched(items[i], classifier.tags, f))
      BY <1>3, <2>2, <3>1, EnrichedFacts
    <3> QED BY <2>0, <3>2, <3>3
  <2> HIDE DEF i
  <2> QED BY <1>1, <1>4, <1>5, <1>6, <2>0, <2>1, <2>3, RowOnlyFacts, QuietKeeps
<1>8. CASE UNCHANGED itemVars
  <2>1. UNCHANGED <<items, lastItem, sources, tombs, gone, captures, captureTasks, lastToken,
                    archive, restores>>
    BY <1>8 DEF itemVars
  <2>2. captures' \in [CaptureIds -> CaptureRows] /\ captureTasks' \in [CaptureIds -> TaskRows]
    BY <2>1 DEF TablesTypeOK
  <2> QED BY <1>1, <1>4, <1>5, <1>6, <2>1, <2>2, ItemsUntouched, SameLeases, QuietKeeps
<1> QED BY <1>7, <1>8 DEF Classify, StoreEnrichment

LEMMA CleanupKeeps ==
  ASSUME CapturesInv, NEW c \in CaptureIds, Cleanup(c)
  PROVE  CapturesInv'
<1> USE DEF CapturesInv, TypeInv
<1>1. /\ captureTasks' = [captureTasks EXCEPT ![c].state = "completed"]
      /\ captureFiles' = captureFiles \ {captureTasks[c].key}
      /\ UNCHANGED <<items, lastItem, sources, tombs, gone, captures, lastToken, archive, restores>>
      /\ UNCHANGED <<capturer, classifier, removals, restoring, calls, mishaps,
                     chosen, imported, wrote, classified, unwanted>>
  BY DEF Cleanup, FinishCaptureTask, historyVars
<1>2. captureTasks' \in [CaptureIds -> TaskRows] /\ captures' \in [CaptureIds -> CaptureRows]
  <2>1. [captureTasks[c] EXCEPT !.state = "completed"] \in TaskRows
    BY DEF TablesTypeOK, TaskRows
  <2> QED BY <1>1, <2>1 DEF TablesTypeOK
<1>3. LoopsTypeOK' /\ HistoryTypeOK' /\ ImportedPageKept'
  BY <1>1 DEF LoopsTypeOK, HistoryTypeOK, LeaseInv, ImportedPageKept
<1> QED BY <1>1, <1>2, <1>3, ItemsUntouched, SameLeases, QuietKeeps

LEMMA PassKeeps ==
  ASSUME CapturesInv, Pass
  PROVE  CapturesInv'
<1> USE DEF CapturesInv, TypeInv
<1>1. /\ items' = [i \in ItemIds |-> ItemAged(items[i])]
      /\ UNCHANGED <<lastItem, sources, tombs, gone, captures, captureTasks, lastToken, archive, restores>>
      /\ UNCHANGED <<capturer, classifier, removals, restoring, captureFiles, calls,
                     chosen, imported, wrote, classified, unwanted>>
      /\ mishaps' = mishaps \/ mishaps' = mishaps + 1
  BY DEF Pass, ItemTick, Mishap, historyVars
<1>2. \A k \in ItemIds :
         /\ Saved(k) => Tended(items[k], items'[k]) /\ NoNewLease(items[k], items'[k])
         /\ ~Saved(k) => items'[k] = items[k]
  BY <1>1, AgedFacts DEF TablesTypeOK, RowsInv, RowsWhole, Whole, Saved
<1>3. ItemsSame /\ \A k \in ItemIds : NoNewLease(items[k], items'[k])
  <2>1. \A k \in ItemIds : items'[k] \in Rows
    BY <1>2 DEF Tended, SameItem, TablesTypeOK
  <2>2. items' \in [ItemIds -> Rows]
    BY <1>1, <2>1
  <2> QED BY <1>2, <2>2 DEF ItemsSame, Tended, NoNewLease
<1>4. captureTasks' \in [CaptureIds -> TaskRows] /\ captures' \in [CaptureIds -> CaptureRows]
  BY <1>1 DEF TablesTypeOK
<1>5. LoopsTypeOK' /\ HistoryTypeOK' /\ ImportedPageKept'
  BY <1>1 DEF LoopsTypeOK, HistoryTypeOK, LeaseInv, ImportedPageKept
<1> QED BY <1>1, <1>3, <1>4, <1>5, QuietKeeps

LEMMA CapturesSteps == CapturesInv /\ [Next]_vars => CapturesInv'
<1> SUFFICES ASSUME CapturesInv, [Next]_vars PROVE CapturesInv'
  OBVIOUS
<1>1. CASE UNCHANGED vars
  <2>1. UNCHANGED itemVars /\ UNCHANGED loopVars /\ UNCHANGED historyVars
    BY <1>1 DEF vars
  <2>2. LoopsTypeOK' /\ UNCHANGED <<capturer, removals, restoring>>
    BY <2>1 DEF loopVars, CapturesInv, TypeInv, LoopsTypeOK
  <2> QED BY <2>1, <2>2, IdleKeeps
<1>2. ASSUME NEW u \in Urls, \/ \E tags \in SUBSET Tags : CallSave(u, tags)
                            \/ \E n \in Nodes : CallSync(u, n)
      PROVE  CapturesInv'
  BY <1>2, CallSaveKeeps, CallSyncKeeps
<1>3. ASSUME NEW i \in ItemIds, CallItem(i)
      PROVE  CapturesInv'
  BY <1>3, CallEditKeeps, CallRowKeeps, CallUploadKeeps, CallUploadInDoubtKeeps, CallRecoverKeeps,
     CallDeleteKeeps, RestoreOneKeeps
  DEF CallItem
<1>4. CASE CallExport \/ CallRestore \/ RestoreEnds
  BY <1>4, CallExportKeeps, CallRestoreKeeps, RestoreEndsKeeps
<1>5. CASE \E d \in removals : Remove(d)
  BY <1>5, RemoveKeeps
<1>6. ASSUME NEW w \in Capturers,
             Claim(w) \/ GiveBack(w) \/ Persist(w) \/ PersistInDoubt(w) \/ Crash(w)
      PROVE  CapturesInv'
  BY <1>6, ClaimKeeps, GiveBackKeeps, PersistKeeps, PersistInDoubtKeeps, CrashKeeps
<1>7. CASE \/ \E i \in ItemIds : ReadText(i)
           \/ Classify \/ Pass \/ \E c \in CaptureIds : Cleanup(c)
  BY <1>7, ReadTextKeeps, ClassifyKeeps, PassKeeps, CleanupKeeps
<1> QED BY <1>1, <1>2, <1>3, <1>4, <1>5, <1>6, <1>7 DEF Next

\* The tables, the leases and the histories are related as CapturesInv says,
\* whatever calls, capture loops, removals and restores are interleaved.
THEOREM CapturesCorrect == Spec => []CapturesInv
  BY CapturesStart, CapturesSteps, PTL DEF Spec

\* persistCapture (workers.go) only lets a lease write that was handed out after
\* the last page was uploaded or recovered: a late capture never replaces it.
THEOREM LateCapturesAreDropped == Spec => []ImportedPageKept
<1>1. CapturesInv => ImportedPageKept
  BY DEF CapturesInv, LeaseInv
<1> QED BY <1>1, CapturesCorrect, PTL

\* Delete writes the tombstone in the transaction that removes the row, and
\* SaveFromBrowser (library.go) looks for it in the transaction that inserts one:
\* the browser's reconciliation never brings back what the owner removed, in
\* whatever order removals, saves, synchronizations and restores interleave.
THEOREM RemovalsHold == Spec => []RemovedStaysRemoved
<1>1. CapturesInv => RemovedStaysRemoved
  BY DEF CapturesInv, RowsInv
<1> QED BY <1>1, CapturesCorrect, PTL

-----------------------------------------------------------------------------
(* What the owner chose, and what the classifier read *)

RowSound(k) ==
    /\ Saved(k) => chosen[k] \subseteq items[k].tags
    /\ items[k].edited => items[k].title = "edited"
    /\ Saved(k) /\ items[k].enrich = "complete" => items[k].text \in {classified[k], ApprovedText}

\* A row is left alone, tended or removed with its histories as they were; or it
\* is new, or of a newer version, and sound.
RowChange(k) ==
    \/ /\ chosen'[k] = chosen[k] /\ classified'[k] = classified[k]
       /\ \/ items'[k] = items[k] \/ items'[k] = NoItemRow
          \/ Saved(k) /\ Tended(items[k], items'[k])
    \/ /\ RowSound(k)'
       /\ \/ (k > lastItem \/ items'[k] = items[k]) /\ k <= lastItem'
          \/ Saved(k) /\ items'[k].version > items[k].version

LEMMA ReadingKept ==
  ASSUME ReadingInv, CapturesInv', lastItem <= lastItem',
         classifier'.pc # "read" \/ classifier' = classifier,
         \A k \in ItemIds : RowChange(k)
  PROVE  ReadingInv'
<1>1. /\ lastItem \in Nat /\ lastItem' \in Nat /\ ItemIds \subseteq Nat
      /\ \A k \in ItemIds : items[k].version \in Nat /\ items'[k].version \in Nat
  <2>1. items \in [ItemIds -> Rows] /\ items' \in [ItemIds -> Rows]
    BY DEF ReadingInv, CapturesInv, TypeInv, TablesTypeOK
  <2>2. lastItem \in Nat /\ lastItem' \in Nat
    BY NumberFacts DEF ReadingInv, CapturesInv, TypeInv, TablesTypeOK
  <2> QED BY <2>1, <2>2, RowFields, NumberFacts
<1>2. \A k \in ItemIds : RowSound(k)
  BY DEF ReadingInv, OwnerEditsKept, ClassifiedIsCurrent, RowSound
<1>3. \A k \in ItemIds : Saved(k) => k <= lastItem
  BY DEF ReadingInv, CapturesInv, RowsInv, RowsWhole, Whole, Saved
<1>4. \A k \in ItemIds : RowSound(k)'
  <2> SUFFICES ASSUME NEW k \in ItemIds PROVE RowSound(k)'
    OBVIOUS
  <2>1. CASE chosen'[k] = chosen[k] /\ classified'[k] = classified[k] /\ items'[k] = items[k]
    BY <1>2, <2>1 DEF RowSound, Saved
  <2>2. CASE items'[k] = NoItemRow
    BY <2>2, NoRowFacts DEF RowSound, Saved
  <2>3. CASE /\ chosen'[k] = chosen[k] /\ classified'[k] = classified[k]
             /\ Saved(k) /\ Tended(items[k], items'[k])
    BY <1>2, <2>3 DEF RowSound, Saved, Tended
  <2> QED BY <2>1, <2>2, <2>3 DEF RowChange
<1>5. OwnerEditsKept' /\ ClassifiedIsCurrent'
  BY <1>4 DEF OwnerEditsKept, ClassifiedIsCurrent, RowSound
<1>6. NothingChosen'
  <2> SUFFICES ASSUME NEW k \in ItemIds, k > lastItem' PROVE chosen'[k] = {}
    BY DEF NothingChosen
  <2>1. k > lastItem /\ ~Saved(k) /\ ~(k <= lastItem')
    BY <1>1, <1>3
  <2>2. chosen'[k] = chosen[k]
    BY <2>1 DEF RowChange
  <2> QED BY <2>1, <2>2 DEF ReadingInv, NothingChosen
<1>7. ReadIsCurrent'
  <2> SUFFICES ASSUME classifier.pc = "read", classifier' = classifier
               PROVE  ReadIsCurrent'
    BY DEF ReadIsCurrent
  <2>6. PICK i : i = classifier.item
    OBVIOUS
  <2>7. PICK v : v = classifier.version
    OBVIOUS
  <2>1. /\ i \in ItemIds /\ i <= lastItem /\ v \in Nat
        /\ Saved(i) => /\ v <= items[i].version
                       /\ v = items[i].version =>
                             items[i].tags = classifier.tags /\ items[i].text = classifier.text
    BY <2>6, <2>7 DEF ReadingInv, ReadIsCurrent, CapturesInv, TypeInv, LoopsTypeOK
  <2>0. /\ i \in ItemIds /\ i <= lastItem'
        /\ Saved(i)' => /\ v <= items'[i].version
                        /\ v = items'[i].version =>
                              items'[i].tags = classifier.tags /\ items'[i].text = classifier.text
        => ReadIsCurrent'
    BY <2>6, <2>7 DEF ReadIsCurrent
  <2>2. i <= lastItem' /\ ~(i > lastItem)
    <3>1. i \in Nat
      BY <1>1, <2>1
    <3> QED BY <1>1, <2>1, <3>1
  <2>3. CASE items'[i] = items[i] \/ items'[i] = NoItemRow
    BY <2>0, <2>1, <2>2, <2>3, NoRowFacts DEF Saved
  <2>4. CASE Saved(i) /\ (items'[i].version > items[i].version)
    <3>1. v <= items'[i].version /\ v # items'[i].version
      <4>1. items[i].version \in Nat /\ items'[i].version \in Nat /\ v \in Nat
        BY <1>1, <2>1
      <4> QED BY <2>1, <2>4, <4>1
    <3> QED BY <2>0, <2>1, <2>2, <3>1
  <2>5. CASE Saved(i) /\ Tended(items[i], items'[i])
    <3>1. CASE items'[i].version = items[i].version /\ items'[i].text = items[i].text
      BY <2>0, <2>1, <2>2, <2>5, <3>1 DEF Tended
    <3> QED BY <2>4, <2>5, <3>1 DEF Tended
  <2> QED BY <2>1, <2>2, <2>3, <2>4, <2>5 DEF RowChange
<1> QED BY <1>5, <1>6, <1>7 DEF ReadingInv

LEMMA SameNumber ==
  ASSUME CapturesInv, UNCHANGED lastItem
  PROVE  lastItem <= lastItem'
  BY NumberFacts DEF CapturesInv, TypeInv, TablesTypeOK

\* Steps that leave the rows alone.
LEMMA RestingReads ==
  ASSUME ReadingInv, CapturesInv', UNCHANGED <<items, lastItem, classifier, chosen, classified>>
  PROVE  ReadingInv'
<1>1. \A k \in ItemIds : RowChange(k)
  BY DEF RowChange
<1> QED BY <1>1, SameNumber, ReadingKept DEF ReadingInv

\* Steps that tend one row.
LEMMA TendingReads ==
  ASSUME ReadingInv, CapturesInv', UNCHANGED <<lastItem, classifier, chosen, classified>>,
         NEW i \in ItemIds, Saved(i), NEW STATE s, Tended(items[i], s), PutItem(i, s)
  PROVE  ReadingInv'
<1>1. SameItem(items[i], s) /\ TablesTypeOK
  BY DEF Tended, ReadingInv, CapturesInv, TypeInv
<1>2. items'[i] = s /\ \A k \in ItemIds : k # i => items'[k] = items[k]
  BY <1>1, PutSame
<1>3. \A k \in ItemIds : RowChange(k)
  BY <1>2 DEF RowChange
<1> QED BY <1>3, SameNumber, ReadingKept DEF ReadingInv

LEMMA StoringReads ==
  ASSUME ReadingInv, CapturesInv', UNCHANGED <<classifier, chosen, classified>>,
         NEW i \in ItemIds, NEW c \in CaptureIds, NEW page \in PageKinds, StoreCapture(i, c, page)
  PROVE  ReadingInv'
<1>1. /\ Saved(i) /\ PutItem(i, CaptureStored(items[i], c, page)) /\ UNCHANGED lastItem
      /\ items[i] \in Rows
  BY DEF StoreCapture, ReadingInv, CapturesInv, TypeInv, TablesTypeOK
<1>2. Tended(items[i], CaptureStored(items[i], c, page))
  BY <1>1, CaptureStoredFacts DEF Saved
<1> QED BY <1>1, <1>2, TendingReads

LEMMA CallSaveReads ==
  ASSUME ReadingInv, CapturesInv', NEW u \in Urls, NEW tags \in SUBSET Tags, CallSave(u, tags)
  PROVE  ReadingInv'
<1>1. /\ UNCHANGED <<classifier, classified>>
      /\ chosen' = [i \in ItemIds |-> IF ~Saved(i) /\ i = lastItem' THEN tags ELSE chosen[i]]
  BY DEF CallSave, Loops
<1>2. CASE /\ lastItem < MaxItems /\ lastItem' = lastItem + 1
           /\ PutItem(lastItem + 1, NewItem(u, tags))
  <2>0. PICK n : n = lastItem + 1
    OBVIOUS
  <2>1. n \in ItemIds /\ lastItem \in Nat /\ lastItem <= lastItem' /\ n > lastItem /\ n <= lastItem'
    BY <1>2, <2>0, NumberFacts DEF ReadingInv, CapturesInv, TypeInv, TablesTypeOK
  <2>2. ~Saved(n)
    <3>1. ~(n <= lastItem)
      BY <2>0, <2>1
    <3> QED BY <2>1, <3>1 DEF ReadingInv, CapturesInv, RowsInv, RowsWhole, Whole, Saved
  <2>3. items'[n] = NewItem(u, tags) /\ \A k \in ItemIds : k # n => items'[k] = items[k]
    BY <1>2, <2>0, <2>1 DEF PutItem, ReadingInv, CapturesInv, TypeInv, TablesTypeOK
  <2>4. lastItem' = n
    BY <1>2, <2>0
  <2>5. chosen'[n] = tags /\ \A k \in ItemIds : k # n => chosen'[k] = chosen[k]
    BY <1>1, <2>1, <2>2, <2>4
  <2>6. RowSound(n)'
    <3> DEFINE s == NewItem(u, tags)
    <3>1. s.tags = tags /\ s.edited = FALSE /\ s.enrich = "pending"
      BY NewItemFacts
    <3> HIDE DEF s
    <3>2. items'[n] = s
      BY <2>3 DEF s
    <3> QED BY <2>5, <3>1, <3>2 DEF RowSound
  <2>7. \A k \in ItemIds : RowChange(k)
    BY <1>1, <2>1, <2>3, <2>5, <2>6 DEF RowChange
  <2> QED BY <1>1, <2>1, <2>7, ReadingKept
<1>3. CASE At(u) # {} /\ UNCHANGED <<items, lastItem>>
  <2>1. \A k \in ItemIds : RowChange(k)
    <3> SUFFICES ASSUME NEW k \in ItemIds PROVE RowChange(k)
      OBVIOUS
    <3>1. CASE chosen'[k] = chosen[k]
      BY <1>1, <1>3, <3>1 DEF RowChange
    <3>2. CASE ~Saved(k)
      <4>1. RowSound(k)'
        BY <1>3, <3>2 DEF RowSound, Saved, ReadingInv, OwnerEditsKept
      <4>2. k = lastItem => k <= lastItem'
        BY <1>3, NumberFacts
      <4>3. k = lastItem \/ chosen'[k] = chosen[k]
        BY <1>1, <1>3
      <4> QED BY <1>3, <3>1, <4>1, <4>2, <4>3 DEF RowChange
    <3> QED BY <1>1, <3>1, <3>2
  <2> QED BY <1>1, <1>3, <2>1, SameNumber, ReadingKept DEF ReadingInv
<1> QED BY <1>2, <1>3 DEF CallSave, Save

LEMMA CallSyncReads ==
  ASSUME ReadingInv, CapturesInv', NEW u \in Urls, NEW n \in Nodes, CallSync(u, n)
  PROVE  ReadingInv'
<1>1. PICK i \in ItemIds : \E row \in Rows :
            /\ row.capture # "none" /\ Tended(row, items'[i])
            /\ \/ row = items[i] /\ Saved(i) /\ lastItem' = lastItem
               \/ row = NewItem(u, {}) /\ i = lastItem + 1 /\ lastItem' = i
            /\ \A k \in ItemIds : k # i =>
                  \/ items'[k] = items[k]
                  \/ Saved(k) /\ Tended(items[k], items'[k])
  BY SyncFacts DEF ReadingInv
<1>2. UNCHANGED <<classifier, chosen, classified>>
  BY DEF CallSync, Loops, historyVars
<1>3. \A k \in ItemIds : k # i => RowChange(k)
  BY <1>1, <1>2 DEF RowChange
<1>4. CASE Saved(i) /\ Tended(items[i], items'[i]) /\ lastItem' = lastItem
  <2>1. RowChange(i)
    BY <1>2, <1>4 DEF RowChange
  <2> QED BY <1>2, <1>3, <1>4, <2>1, SameNumber, ReadingKept DEF ReadingInv
<1>5. CASE Tended(NewItem(u, {}), items'[i]) /\ i = lastItem + 1 /\ lastItem' = i
  <2>1. lastItem \in Nat /\ i > lastItem /\ lastItem <= lastItem' /\ i <= lastItem'
    BY <1>5, NumberFacts DEF ReadingInv, CapturesInv, TypeInv, TablesTypeOK
  <2>2. chosen'[i] = {}
    BY <1>2, <2>1 DEF ReadingInv, NothingChosen
  <2>3. items'[i].edited = FALSE /\ items'[i].enrich # "complete"
    <3>1. {} \in SUBSET Tags
      OBVIOUS
    <3>2. NewItem(u, {}).edited = FALSE /\ NewItem(u, {}).enrich = "pending"
      BY ZenonT(40), <3>1, NewItemFacts
    <3> QED BY <1>5, <3>2 DEF Tended
  <2>4. RowSound(i)'
    BY <2>2, <2>3 DEF RowSound
  <2>5. RowChange(i)
    BY <2>1, <2>4 DEF RowChange
  <2> QED BY <1>2, <1>3, <2>1, <2>5, ReadingKept
<1> QED BY <1>1, <1>4, <1>5

LEMMA CallEditReads ==
  ASSUME ReadingInv, CapturesInv', NEW i \in ItemIds, NEW tags \in SUBSET Tags, CallEdit(i, tags)
  PROVE  ReadingInv'
<1> DEFINE s == Edited(items[i], tags)
<1>1. /\ Saved(i) /\ PutItem(i, s) /\ chosen' = [chosen EXCEPT ![i] = tags]
      /\ UNCHANGED <<lastItem, classifier, classified>>
  BY DEF CallEdit, Edit, RowOnly, Loops
<1>2. TablesTypeOK /\ HistoryTypeOK /\ items[i] \in Rows
  BY DEF ReadingInv, CapturesInv, TypeInv, TablesTypeOK
<1>3. /\ SameItem(items[i], s) /\ s.tags = tags /\ s.title = "edited"
      /\ s.version > items[i].version /\ s.enrich = items[i].enrich /\ s.text = items[i].text
  BY <1>1, <1>2, EditedFacts DEF Saved
<1> HIDE DEF s
<1>4. items'[i] = s /\ \A k \in ItemIds : k # i => items'[k] = items[k]
  BY <1>1, <1>2, <1>3, PutSame
<1>5. chosen'[i] = tags /\ \A k \in ItemIds : k # i => chosen'[k] = chosen[k]
  BY <1>1, <1>2 DEF HistoryTypeOK
<1>6. RowSound(i)'
  BY <1>1, <1>3, <1>4, <1>5 DEF RowSound, ReadingInv, ClassifiedIsCurrent
<1>7. \A k \in ItemIds : RowChange(k)
  BY <1>1, <1>3, <1>4, <1>5, <1>6 DEF RowChange
<1> QED BY <1>1, <1>7, SameNumber, ReadingKept DEF ReadingInv

LEMMA CallRowReads ==
  ASSUME ReadingInv, CapturesInv', NEW i \in ItemIds, CallRow(i)
  PROVE  ReadingInv'
<1>1. items[i] \in Rows /\ UNCHANGED <<classifier, chosen, classified>>
  BY DEF ReadingInv, CapturesInv, TypeInv, TablesTypeOK, CallRow, Loops, historyVars
<1>2. PICK s \in {Recaptured(items[i]), [items[i] EXCEPT !.enrich = "pending"], Approved(items[i])} :
         Saved(i) /\ PutItem(i, s) /\ UNCHANGED lastItem
  BY DEF CallRow, Recapture, RetryEnrichment, ApproveContent, RowOnly
<1>3. Tended(items[i], s)
  BY <1>1, <1>2, RecapturedFacts, PendingFacts, ApprovedFacts DEF Saved
<1> QED BY <1>1, <1>2, <1>3, TendingReads

LEMMA RemoveReads ==
  ASSUME ReadingInv, CapturesInv', NEW d \in removals, Remove(d)
  PROVE  ReadingInv'
<1>1. d.item \in ItemIds /\ items \in [ItemIds -> Rows]
  BY DEF ReadingInv, CapturesInv, TypeInv, LoopsTypeOK, TablesTypeOK
<1>2. /\ items' = [items EXCEPT ![d.item] = NoItemRow]
      /\ UNCHANGED <<lastItem, classifier, chosen, classified>>
  BY DEF Remove, DeleteItem, PutItem
<1>3. \A k \in ItemIds : items'[k] = items[k] \/ items'[k] = NoItemRow
  BY <1>1, <1>2
<1>4. \A k \in ItemIds : RowChange(k)
  BY <1>2, <1>3 DEF RowChange
<1> QED BY <1>2, <1>4, SameNumber, ReadingKept DEF ReadingInv

LEMMA ClaimReads ==
  ASSUME ReadingInv, CapturesInv', NEW w \in Capturers, Claim(w)
  PROVE  ReadingInv'
<1>1. PICK i \in ItemIds : ClaimCapture(i)
  BY DEF Claim
<1>2. /\ CaptureDue(items[i]) /\ PutItem(i, CaptureClaimed(items[i], lastToken + 1))
      /\ UNCHANGED <<lastItem, classifier, chosen, classified>>
  BY <1>1 DEF ClaimCapture, Claim, historyVars
<1>3. items[i] \in Rows /\ Saved(i) /\ lastToken + 1 \in Nat
  BY <1>2, NumberFacts DEF ReadingInv, CapturesInv, TypeInv, TablesTypeOK, CaptureDue, Saved
<1>4. Tended(items[i], CaptureClaimed(items[i], lastToken + 1))
  BY <1>3, ClaimedFacts DEF Saved
<1> QED BY <1>2, <1>3, <1>4, TendingReads

LEMMA GiveBackReads ==
  ASSUME ReadingInv, CapturesInv', NEW w \in Capturers, GiveBack(w)
  PROVE  ReadingInv'
<1> DEFINE u == capturer[w]
<1>1. /\ FailCapture(u.item, u.token, u.attempts) \/ UNCHANGED itemVars
      /\ UNCHANGED <<classifier, chosen, classified>>
  BY DEF GiveBack, historyVars
<1>2. u.pc = "capture"
  BY DEF GiveBack
<1>3. u.item \in ItemIds /\ u.attempts \in Nat
  BY <1>2 DEF ReadingInv, CapturesInv, LeaseInv, Leases, TypeInv, LoopsTypeOK
<1>4. CASE UNCHANGED itemVars
  BY <1>1, <1>4, RestingReads DEF itemVars
<1>5. CASE FailCapture(u.item, u.token, u.attempts)
  <2>1. /\ Saved(u.item) /\ PutItem(u.item, CaptureFailed(items[u.item], u.attempts))
        /\ items[u.item] \in Rows /\ UNCHANGED lastItem
    BY <1>3, <1>5
    DEF FailCapture, CaptureHeld, RowOnly, ReadingInv, CapturesInv, TypeInv, TablesTypeOK
  <2>2. Tended(items[u.item], CaptureFailed(items[u.item], u.attempts))
    BY <1>3, <2>1, CaptureFailedFacts DEF Saved
  <2> HIDE DEF u
  <2> QED BY <1>1, <1>3, <2>1, <2>2, TendingReads
<1> QED BY <1>1, <1>4, <1>5

\* A loop works on an item, under a number that was handed out.
LEMMA AtWork ==
  ASSUME CapturesInv, NEW w \in Capturers, capturer[w].pc = "capture"
  PROVE  /\ capturer[w].item \in ItemIds /\ capturer[w].token \in 1..MaxTokens
         /\ capturer[w].token <= lastToken /\ ServerCapture(capturer[w].token) \in CaptureIds
<1> DEFINE n == capturer[w].token
<1>1. /\ capturer[w].item \in ItemIds /\ n \in Nat /\ n # NoToken /\ n <= lastToken
      /\ lastToken \in 0..MaxTokens
  BY DEF CapturesInv, LeaseInv, Leases, TypeInv, LoopsTypeOK, TablesTypeOK
<1> HIDE DEF n
<1>2. n \in 1..MaxTokens
  BY <1>1, NumberFacts DEF NoToken
<1> QED BY <1>1, <1>2, ServerCaptures DEF n

LEMMA PersistReads ==
  ASSUME ReadingInv, CapturesInv', NEW w \in Capturers, Persist(w) \/ PersistInDoubt(w)
  PROVE  ReadingInv'
<1> DEFINE u == capturer[w]
           c == ServerCapture(u.token)
<1>1. /\ u.pc = "capture" /\ UNCHANGED classifier
      /\ \/ \E kind \in PageKinds : StoreCapture(u.item, c, kind) /\ UNCHANGED <<chosen, classified>>
         \/ UNCHANGED <<items, lastItem, chosen, classified>>
  BY CapturesAssumption DEF Persist, PersistInDoubt, Wrote, itemVars, historyVars, PageKinds
<1>2. u.item \in ItemIds /\ c \in CaptureIds
  BY <1>1, AtWork DEF ReadingInv
<1> HIDE DEF u, c
<1> QED BY <1>1, <1>2, RestingReads, StoringReads

LEMMA ReadTextReads ==
  ASSUME ReadingInv, CapturesInv', NEW i \in ItemIds, ReadText(i)
  PROVE  ReadingInv'
<1>1. /\ classifier' = [pc |-> "read", item |-> i, version |-> items[i].version,
                        tags |-> items[i].tags, text |-> items[i].text]
      /\ Saved(i) /\ UNCHANGED <<items, lastItem, chosen, classified>>
  BY DEF ReadText, Classifiable, itemVars, historyVars
<1>2. i <= lastItem /\ items[i].version \in Nat
  BY <1>1, RowFields DEF ReadingInv, CapturesInv, RowsInv, RowsWhole, Whole, Saved, TypeInv, TablesTypeOK
<1>3. items[i].version <= items[i].version
  BY <1>2
<1>4. ReadIsCurrent'
  BY <1>1, <1>2, <1>3 DEF ReadIsCurrent
<1> QED
  BY <1>1, <1>4
  DEF ReadingInv, NothingChosen, OwnerEditsKept, ClassifiedIsCurrent, Saved

LEMMA ClassifyReads ==
  ASSUME ReadingInv, CapturesInv', Classify
  PROVE  ReadingInv'
<1>1. PICK i : i = classifier.item
  OBVIOUS
<1>2. /\ i \in ItemIds /\ classifier.tags \in SUBSET Tags /\ classifier'.pc # "read"
      /\ UNCHANGED chosen
  BY <1>1 DEF Classify, NotReading, ReadingInv, CapturesInv, TypeInv, LoopsTypeOK
<1>3. TablesTypeOK /\ HistoryTypeOK /\ items[i] \in Rows
  BY <1>2 DEF ReadingInv, CapturesInv, TypeInv, TablesTypeOK
<1>4. CASE UNCHANGED <<items, lastItem, classified>>
  <2>1. \A k \in ItemIds : RowChange(k)
    BY <1>2, <1>4 DEF RowChange
  <2> QED BY <1>2, <1>4, <2>1, SameNumber, ReadingKept DEF ReadingInv
<1>5. CASE Saved(i) /\ PutItem(i, EnrichFailed(items[i])) /\ UNCHANGED <<lastItem, classified>>
  <2> DEFINE s == EnrichFailed(items[i])
  <2>1. Tended(items[i], s)
    BY <1>3, <1>5, EnrichFailedFacts DEF Saved
  <2>2. SameItem(items[i], s) /\ PutItem(i, s)
    BY <1>5, <2>1 DEF Tended
  <2> HIDE DEF s
  <2>3. items'[i] = s /\ \A k \in ItemIds : k # i => items'[k] = items[k]
    BY <1>2, <1>3, <1>5, <2>2, PutSame
  <2>4. \A k \in ItemIds : RowChange(k)
    BY <1>2, <1>5, <2>1, <2>3 DEF RowChange
  <2> QED BY <1>2, <1>5, <2>4, SameNumber, ReadingKept DEF ReadingInv
<1>6. ASSUME NEW f \in SUBSET Tags, Saved(i), items[i].version = classifier.version,
             PutItem(i, Enriched(items[i], classifier.tags, f)), UNCHANGED lastItem,
             classified' = [classified EXCEPT ![i] = classifier.text]
      PROVE  ReadingInv'
  <2> DEFINE s == Enriched(items[i], classifier.tags, f)
  <2>1. /\ SameItem(items[i], s) /\ s.tags = classifier.tags \cup f /\ s.version > items[i].version
        /\ s.edited = items[i].edited /\ s.title = items[i].title /\ s.text = items[i].text
    BY ZenonT(40), <1>2, <1>3, <1>6, EnrichedFacts DEF Saved
  <2>2. PutItem(i, s)
    BY <1>6
  <2> HIDE DEF s
  <2>3. items'[i] = s /\ \A k \in ItemIds : k # i => items'[k] = items[k]
    BY <1>2, <1>3, <1>6, <2>1, <2>2, PutSame
  <2>4. items[i].tags = classifier.tags /\ items[i].text = classifier.text
    BY <1>1, <1>6 DEF ReadingInv, ReadIsCurrent, Classify
  <2>5. classified'[i] = classifier.text /\ \A k \in ItemIds : k # i => classified'[k] = classified[k]
    BY <1>2, <1>3, <1>6 DEF HistoryTypeOK
  <2>6. RowSound(i)'
    BY <1>2, <1>6, <2>1, <2>3, <2>4, <2>5 DEF RowSound, ReadingInv, OwnerEditsKept
  <2>7. \A k \in ItemIds : RowChange(k)
    BY <1>2, <1>6, <2>1, <2>3, <2>5, <2>6 DEF RowChange
  <2> QED BY <1>2, <1>6, <2>7, SameNumber, ReadingKept DEF ReadingInv
<1> QED BY <1>1, <1>4, <1>5, <1>6 DEF Classify, StoreEnrichment, RowOnly, itemVars

LEMMA PassReads ==
  ASSUME ReadingInv, CapturesInv', Pass
  PROVE  ReadingInv'
<1>1. /\ items' = [i \in ItemIds |-> ItemAged(items[i])]
      /\ UNCHANGED <<lastItem, classifier, chosen, classified>>
  BY DEF Pass, ItemTick, historyVars
<1>2. \A k \in ItemIds : IF Saved(k) THEN Tended(items[k], items'[k]) ELSE items'[k] = items[k]
  BY <1>1, AgedFacts
  DEF ReadingInv, CapturesInv, TypeInv, TablesTypeOK, RowsInv, RowsWhole, Whole, Saved
<1>3. \A k \in ItemIds : RowChange(k)
  BY <1>1, <1>2 DEF RowChange
<1> QED BY <1>1, <1>3, SameNumber, ReadingKept DEF ReadingInv

LEMMA ReadingSteps ==
  ASSUME "transfer" \notin Calls
  PROVE  ReadingInv /\ [Next]_vars => ReadingInv'
<1> SUFFICES ASSUME ReadingInv, [Next]_vars PROVE ReadingInv'
  OBVIOUS
<1>0. CapturesInv' /\ restoring.left = {} /\ archive = NoArchive
  BY CapturesSteps DEF ReadingInv, CapturesInv, NothingMoved
<1>1. CASE UNCHANGED vars
  BY <1>0, <1>1, RestingReads DEF vars, itemVars, loopVars, historyVars
<1>2. ASSUME NEW u \in Urls, \/ \E tags \in SUBSET Tags : CallSave(u, tags)
                            \/ \E n \in Nodes : CallSync(u, n)
      PROVE  ReadingInv'
  BY <1>0, <1>2, CallSaveReads, CallSyncReads
<1>3. ASSUME NEW i \in ItemIds, CallItem(i)
      PROVE  ReadingInv'
  <2>1. CASE \E page \in 1..MaxPages : CallUpload(i, page) \/ CallUploadInDoubt(i, page)
    <3>1. PICK page \in 1..MaxPages : CallUpload(i, page) \/ CallUploadInDoubt(i, page)
      BY <2>1
    <3>2. Upload(i, page) \in CaptureIds
      BY ServerCaptures
    <3>3. /\ UNCHANGED classifier
          /\ \/ /\ \E kind \in PageKinds : StoreCapture(i, Upload(i, page), kind)
                /\ UNCHANGED <<chosen, classified>>
             \/ UNCHANGED <<items, lastItem, chosen, classified>>
      BY <3>1, CapturesAssumption
      DEF CallUpload, CallUploadInDoubt, Import, Loops, itemVars, historyVars, PageKinds
    <3> QED BY <1>0, <3>2, <3>3, RestingReads, StoringReads
  <2>2. CASE CallRecover(i)
    <3>1. /\ lastToken < MaxTokens /\ UNCHANGED <<classifier, chosen, classified>>
          /\ \E kind \in PageKinds : StoreCapture(i, ServerCapture(lastToken + 1), kind)
      BY <2>2, CapturesAssumption DEF CallRecover, Import, Loops
    <3>2. lastToken + 1 \in 1..MaxTokens
      BY <3>1, NumberFacts DEF ReadingInv, CapturesInv, TypeInv, TablesTypeOK
    <3>3. ServerCapture(lastToken + 1) \in CaptureIds
      BY <3>2, ServerCaptures
    <3> QED BY <1>0, <3>1, <3>3, StoringReads
  <2>3. CASE CallDelete(i)
    BY <1>0, <2>3, RestingReads DEF CallDelete, Loops, itemVars, historyVars
  <2>4. CASE RestoreOne(i)
    BY <1>0, <2>4 DEF RestoreOne
  <2> QED BY <1>0, <1>3, <2>1, <2>2, <2>3, <2>4, CallEditReads, CallRowReads DEF CallItem
<1>4. CASE CallExport \/ CallRestore \/ RestoreEnds
  <2>1. RestoreEnds
    BY <1>4 DEF CallExport, CallRestore, Call
  <2> QED BY <1>0, <2>1, RestingReads DEF RestoreEnds, RestoreTombstones, itemVars, historyVars
<1>5. CASE \E d \in removals : Remove(d)
  BY <1>0, <1>5, RemoveReads
<1>6. ASSUME NEW w \in Capturers,
             Claim(w) \/ GiveBack(w) \/ Persist(w) \/ PersistInDoubt(w) \/ Crash(w)
      PROVE  ReadingInv'
  <2>1. CASE Crash(w)
    BY <1>0, <2>1, RestingReads DEF Crash, itemVars, historyVars
  <2> QED BY <1>0, <1>6, <2>1, ClaimReads, GiveBackReads, PersistReads
<1>7. CASE \E c \in CaptureIds : Cleanup(c)
  BY <1>0, <1>7, RestingReads DEF Cleanup, FinishCaptureTask, historyVars
<1>8. CASE (\E i \in ItemIds : ReadText(i)) \/ Classify \/ Pass
  BY <1>0, <1>8, ReadTextReads, ClassifyReads, PassReads
<1> QED BY <1>1, <1>2, <1>3, <1>4, <1>5, <1>6, <1>7, <1>8 DEF Next

LEMMA ReadingStart == CapturesInit => ReadingInv
<1> SUFFICES ASSUME CapturesInit PROVE ReadingInv
  OBVIOUS
<1>1. CapturesInv
  BY CapturesStart
<1>2. \A i \in ItemIds : ~Saved(i) /\ items[i].edited = FALSE /\ chosen[i] = {}
  BY NoRowFacts DEF CapturesInit, ItemsInit, Saved
<1>3. ReadIsCurrent /\ NothingChosen /\ OwnerEditsKept /\ ClassifiedIsCurrent
  BY <1>2 DEF CapturesInit, NotReading, ReadIsCurrent, NothingChosen, OwnerEditsKept, ClassifiedIsCurrent
<1> QED BY <1>1, <1>3 DEF ReadingInv

\* Whatever edits, captures and classifications overlap, the tags and the title
\* the owner gave last are there: EnrichOnce's UPDATE compares the version it
\* read (enrichment.go).  A restored item starts its versions anew, so this
\* holds of a library into which nothing is restored.
THEOREM OwnersChoiceStands ==
  ASSUME "transfer" \notin Calls
  PROVE  Spec => []OwnerEditsKept
<1>1. ReadingInv => OwnerEditsKept
  BY DEF ReadingInv
<1> QED BY <1>1, ReadingStart, ReadingSteps, PTL DEF Spec

\* An item that is said to be classified was classified from the text it has,
\* for the same reason and under the same condition.
THEOREM ClassificationsAreCurrent ==
  ASSUME "transfer" \notin Calls
  PROVE  Spec => []ClassifiedIsCurrent
<1>1. ReadingInv => ClassifiedIsCurrent
  BY DEF ReadingInv
<1> QED BY <1>1, ReadingStart, ReadingSteps, PTL DEF Spec

-----------------------------------------------------------------------------
(* What a step does to captures, their files and their deletion tasks *)

\* The captures stay as they are; rows may be tended, or be new.
RowsStep ==
    /\ \A k \in ItemIds : /\ Saved(k) => Saved(k)'
                          /\ Saved(k)' => Saved(k) \/ k > lastItem
                          /\ NoNewLease(items[k], items'[k])
    /\ lastItem <= lastItem'
    /\ UNCHANGED <<lastToken, captures, captureTasks, archive, restores>>
    /\ captureFiles' = captureFiles \/ ("crash" \in Mishaps /\ captureFiles \subseteq captureFiles')

ClaimStep ==
    /\ \E i \in ItemIds : /\ items'[i].token = lastToken'
                          /\ \A k \in ItemIds : k # i => items'[k] = items[k]
    /\ \A k \in ItemIds : Saved(k)' <=> Saved(k)
    /\ lastToken' = lastToken + 1
    /\ UNCHANGED <<lastItem, captures, captureTasks, archive, restores, captureFiles>>

StoreStep(i, c) ==
    /\ Saved(i) /\ ~Stored(c)
    /\ captures' = [captures EXCEPT ![c] = [item |-> i, key |-> <<c, 0>>]]
    /\ items'[i].token = NoToken /\ Saved(i)' /\ \A k \in ItemIds : k # i => items'[k] = items[k]
    /\ UNCHANGED <<lastItem, captureTasks, archive, restores>>
    /\ \/ /\ "upload" \in Calls /\ lastToken' = lastToken
          /\ \E page \in 1..MaxPages : c = Upload(i, page)
       \/ \E n \in 1..MaxTokens :
             /\ c = ServerCapture(n)
             /\ \/ n = items[i].token /\ lastToken' = lastToken
                \/ n = lastToken + 1 /\ lastToken' = n
    /\ \/ captureFiles' = captureFiles \cup {<<c, 0>>}
       \/ "commit" \in Mishaps /\ captureFiles' = captureFiles

RemoveStep(i) ==
    /\ DropCaptures(i) /\ QueueFiles(i) /\ items' = [items EXCEPT ![i] = NoItemRow]
    /\ UNCHANGED <<lastItem, lastToken, archive, restores, captureFiles>>

RestoreStep(i, t) ==
    /\ "transfer" \in Calls
    /\ Saved(t)' /\ \A k \in ItemIds : Saved(k) => Saved(k)'
    /\ \A k \in ItemIds : NoNewLease(items[k], items'[k])
    /\ captures' = [c \in CaptureIds |->
          IF c \in Missing(i) THEN [item |-> t, key |-> <<c, restores + 1>>] ELSE captures[c]]
    /\ restores' = restores + 1
    /\ captureFiles' = captureFiles \cup {<<c, restores'>> : c \in Missing(i)}
    /\ UNCHANGED <<lastItem, lastToken, captureTasks, archive>>

LEMMA SameRows ==
  ASSUME ItemsSame
  PROVE  \A k \in ItemIds : Saved(k)' <=> Saved(k)
  BY DEF ItemsSame, SameItem, Saved

LEMMA TendedStep ==
  ASSUME CapturesInv, ItemsSame, \A k \in ItemIds : NoNewLease(items[k], items'[k]),
         UNCHANGED <<lastItem, lastToken, captures, captureTasks, archive, restores>>,
         captureFiles' = captureFiles \/ ("crash" \in Mishaps /\ captureFiles \subseteq captureFiles')
  PROVE  RowsStep
  BY SameRows, SameNumber DEF RowsStep

LEMMA IdleStep ==
  ASSUME CapturesInv, UNCHANGED <<items, lastItem, lastToken, captures, captureTasks, archive, restores>>,
         captureFiles' = captureFiles \/ ("crash" \in Mishaps /\ captureFiles \subseteq captureFiles')
  PROVE  RowsStep
  BY ItemsUntouched, SameLeases, TendedStep DEF CapturesInv, TypeInv

LEMMA RowOnlyStep ==
  ASSUME CapturesInv, NEW i \in ItemIds, Saved(i), NEW STATE s, SameItem(items[i], s),
         NoNewLease(items[i], s), RowOnly(i, s), UNCHANGED captureFiles
  PROVE  RowsStep
<1>1. ItemsSame /\ \A k \in ItemIds : NoNewLease(items[k], items'[k])
  BY RowOnlyFacts
<1> QED BY <1>1, TendedStep DEF RowOnly

LEMMA CallRowsStep ==
  ASSUME CapturesInv, NEW i \in ItemIds, CallRow(i) \/ \E tags \in SUBSET Tags : CallEdit(i, tags)
  PROVE  RowsStep
<1>1. items[i] \in Rows /\ UNCHANGED captureFiles
  BY DEF CallRow, CallEdit, CapturesInv, TypeInv, TablesTypeOK
<1>2. CASE CallRow(i)
  <2>1. PICK s \in {Recaptured(items[i]), [items[i] EXCEPT !.enrich = "pending"], Approved(items[i])} :
           Saved(i) /\ RowOnly(i, s)
    BY <1>2 DEF CallRow, Recapture, RetryEnrichment, ApproveContent
  <2>2. Tended(items[i], s) /\ NoNewLease(items[i], s)
    BY <1>1, <2>1, RecapturedFacts, PendingFacts, ApprovedFacts DEF Saved
  <2>3. SameItem(items[i], s)
    BY <2>2 DEF Tended
  <2> QED BY <1>1, <2>1, <2>2, <2>3, RowOnlyStep
<1>3. CASE \E tags \in SUBSET Tags : CallEdit(i, tags)
  <2>1. PICK tags \in SUBSET Tags : Saved(i) /\ RowOnly(i, Edited(items[i], tags))
    BY <1>3 DEF CallEdit, Edit
  <2>2. SameItem(items[i], Edited(items[i], tags)) /\ NoNewLease(items[i], Edited(items[i], tags))
    BY <1>1, <2>1, EditedFacts DEF Saved
  <2> QED BY <1>1, <2>1, <2>2, RowOnlyStep
<1> QED BY <1>2, <1>3

LEMMA CallSaveStep ==
  ASSUME CapturesInv, NEW u \in Urls, NEW tags \in SUBSET Tags, CallSave(u, tags)
  PROVE  RowsStep
<1>1. UNCHANGED <<lastToken, captures, captureTasks, archive, restores, captureFiles>>
  BY DEF CallSave, Save
<1>2. CASE UNCHANGED <<items, lastItem>>
  BY <1>1, <1>2, IdleStep
<1>3. CASE /\ lastItem < MaxItems /\ lastItem' = lastItem + 1
           /\ PutItem(lastItem + 1, NewItem(u, tags))
  <2>0. PICK n : n = lastItem + 1
    OBVIOUS
  <2>1. n \in ItemIds /\ n > lastItem /\ lastItem <= lastItem'
    BY <1>3, <2>0, NumberFacts DEF CapturesInv, TypeInv, TablesTypeOK
  <2>2. items'[n] = NewItem(u, tags) /\ \A k \in ItemIds : k # n => items'[k] = items[k]
    BY <1>3, <2>0, <2>1 DEF PutItem, CapturesInv, TypeInv, TablesTypeOK
  <2>3. NewItem(u, tags).token = NoToken /\ NewItem(u, tags).capture # "none"
    BY NewItemFacts DEF SameItem
  <2>4. items'[n].capture # "none" /\ \A k \in ItemIds : NoNewLease(items[k], items'[k])
    BY <2>2, <2>3 DEF NoNewLease
  <2> QED BY <1>1, <2>1, <2>2, <2>4 DEF RowsStep, Saved
<1> QED BY <1>2, <1>3 DEF CallSave, Save

LEMMA CallSyncStep ==
  ASSUME CapturesInv, NEW u \in Urls, NEW n \in Nodes, CallSync(u, n)
  PROVE  RowsStep
<1>1. PICK i \in ItemIds : \E row \in Rows :
            /\ row.capture # "none"
            /\ Tended(row, items'[i]) /\ NoNewLease(row, items'[i])
            /\ \/ row = items[i] /\ Saved(i) /\ lastItem' = lastItem
               \/ row = NewItem(u, {}) /\ i = lastItem + 1 /\ lastItem' = i
            /\ \A k \in ItemIds : k # i =>
                  \/ items'[k] = items[k]
                  \/ Saved(k) /\ Tended(items[k], items'[k]) /\ NoNewLease(items[k], items'[k])
            /\ UNCHANGED <<tombs, gone, captures, captureTasks, lastToken, archive, restores>>
  BY SyncFacts
<1>2. UNCHANGED captureFiles
  BY DEF CallSync
<1>3. \A k \in ItemIds : k # i => /\ Saved(k)' <=> Saved(k)
                                  /\ NoNewLease(items[k], items'[k])
  BY <1>1 DEF Tended, SameItem, Saved, NoNewLease
<1>4. NewItem(u, {}).token = NoToken
  <2>1. {} \in SUBSET Tags
    OBVIOUS
  <2> QED BY <2>1, NewItemFacts
<1>5. /\ items'[i].capture # "none" /\ NoNewLease(items[i], items'[i])
      /\ (Saved(i) /\ lastItem' = lastItem) \/ (i = lastItem + 1 /\ lastItem' = i)
  BY <1>1, <1>4 DEF Tended, SameItem, NoNewLease
<1>6. lastItem <= lastItem' /\ (Saved(i) \/ i > lastItem)
  BY <1>5, NumberFacts DEF CapturesInv, TypeInv, TablesTypeOK
<1> QED BY <1>1, <1>2, <1>3, <1>5, <1>6 DEF RowsStep, Saved

LEMMA GiveBackStep ==
  ASSUME CapturesInv, NEW w \in Capturers, GiveBack(w)
  PROVE  RowsStep
<1> DEFINE u == capturer[w]
<1>1. /\ u.pc = "capture" /\ UNCHANGED captureFiles
      /\ FailCapture(u.item, u.token, u.attempts) \/ UNCHANGED itemVars
  BY DEF GiveBack
<1>2. u.item \in ItemIds /\ u.attempts \in Nat
  BY <1>1 DEF CapturesInv, LeaseInv, Leases, TypeInv, LoopsTypeOK
<1> HIDE DEF u
<1>3. CASE FailCapture(u.item, u.token, u.attempts)
  <2>1. /\ Saved(u.item) /\ RowOnly(u.item, CaptureFailed(items[u.item], u.attempts))
        /\ items[u.item] \in Rows
    BY <1>2, <1>3 DEF FailCapture, CaptureHeld, CapturesInv, TypeInv, TablesTypeOK
  <2>2. /\ SameItem(items[u.item], CaptureFailed(items[u.item], u.attempts))
        /\ NoNewLease(items[u.item], CaptureFailed(items[u.item], u.attempts))
    BY <1>2, <2>1, CaptureFailedFacts DEF Saved, Tended, NoNewLease
  <2> QED BY <1>1, <1>2, <2>1, <2>2, RowOnlyStep
<1>4. CASE UNCHANGED itemVars
  BY <1>1, <1>4, IdleStep DEF itemVars
<1> QED BY <1>1, <1>3, <1>4

LEMMA ClassifyStep ==
  ASSUME CapturesInv, Classify
  PROVE  RowsStep
<1> DEFINE i == classifier.item
<1>1. i \in ItemIds /\ classifier.tags \in SUBSET Tags /\ UNCHANGED captureFiles
  BY DEF Classify, CapturesInv, TypeInv, LoopsTypeOK
<1>2. items[i] \in Rows
  BY <1>1 DEF CapturesInv, TypeInv, TablesTypeOK
<1>3. CASE Saved(i) /\ RowOnly(i, EnrichFailed(items[i]))
  <2>1. SameItem(items[i], EnrichFailed(items[i])) /\ NoNewLease(items[i], EnrichFailed(items[i]))
    BY <1>2, <1>3, EnrichFailedFacts DEF Tended, Saved
  <2> HIDE DEF i
  <2> QED BY <1>1, <1>3, <2>1, RowOnlyStep
<1>4. ASSUME NEW f \in SUBSET Tags, Saved(i), RowOnly(i, Enriched(items[i], classifier.tags, f))
      PROVE  RowsStep
  <2>1. /\ SameItem(items[i], Enriched(items[i], classifier.tags, f))
        /\ NoNewLease(items[i], Enriched(items[i], classifier.tags, f))
    BY <1>1, <1>2, <1>4, EnrichedFacts DEF Saved
  <2> HIDE DEF i
  <2> QED BY <1>1, <1>4, <2>1, RowOnlyStep
<1>5. CASE UNCHANGED itemVars
  BY <1>1, <1>5, IdleStep DEF itemVars
<1> QED BY <1>3, <1>4, <1>5 DEF Classify, StoreEnrichment

LEMMA PassStep ==
  ASSUME CapturesInv, Pass
  PROVE  RowsStep
<1>1. /\ items' = [i \in ItemIds |-> ItemAged(items[i])]
      /\ UNCHANGED <<lastItem, captures, captureTasks, lastToken, archive, restores, captureFiles>>
  BY DEF Pass, ItemTick
<1>2. \A k \in ItemIds :
         /\ Saved(k) => Tended(items[k], items'[k]) /\ NoNewLease(items[k], items'[k])
         /\ ~Saved(k) => items'[k] = items[k]
  BY <1>1, AgedFacts DEF CapturesInv, TypeInv, TablesTypeOK, RowsInv, RowsWhole, Whole, Saved
<1>3. \A k \in ItemIds : (Saved(k)' <=> Saved(k)) /\ NoNewLease(items[k], items'[k])
  BY <1>2 DEF Tended, SameItem, Saved, NoNewLease
<1> QED BY <1>1, <1>3, SameNumber DEF RowsStep

LEMMA ClaimsStep ==
  ASSUME CapturesInv, NEW w \in Capturers, Claim(w)
  PROVE  ClaimStep
<1>1. PICK i \in ItemIds : ClaimCapture(i)
  BY DEF Claim
<1> DEFINE s == CaptureClaimed(items[i], lastToken + 1)
<1>2. /\ CaptureDue(items[i]) /\ PutItem(i, s) /\ lastToken' = lastToken + 1
      /\ UNCHANGED <<lastItem, captures, captureTasks, archive, restores, captureFiles>>
  BY <1>1 DEF ClaimCapture, Claim
<1>3. items[i] \in Rows /\ Saved(i) /\ lastToken + 1 \in Nat
  BY <1>2, NumberFacts DEF CapturesInv, TypeInv, TablesTypeOK, CaptureDue, Saved
<1>4. SameItem(items[i], s) /\ s.token = lastToken + 1
  BY <1>3, ClaimedFacts DEF Saved, Tended
<1> HIDE DEF s
<1>5. ItemsSame /\ items'[i] = s /\ \A k \in ItemIds : k # i => items'[k] = items[k]
  BY <1>2, <1>3, <1>4, PutSame DEF CapturesInv, TypeInv
<1> QED BY <1>2, <1>4, <1>5, SameRows DEF ClaimStep

LEMMA StoringStep ==
  ASSUME CapturesInv, NEW i \in ItemIds, NEW c \in CaptureIds, NEW page \in PageKinds,
         StoreCapture(i, c, page),
         \/ /\ "upload" \in Calls /\ lastToken' = lastToken
            /\ \E p \in 1..MaxPages : c = Upload(i, p)
         \/ \E n \in 1..MaxTokens :
               /\ c = ServerCapture(n)
               /\ \/ n = items[i].token /\ lastToken' = lastToken
                  \/ n = lastToken + 1 /\ lastToken' = n,
         \/ captureFiles' = captureFiles \cup {<<c, 0>>}
         \/ "commit" \in Mishaps /\ captureFiles' = captureFiles
  PROVE  StoreStep(i, c)
<1>1. /\ ItemsSame /\ Saved(i) /\ ~Stored(c) /\ items'[i].token = NoToken
      /\ \A k \in ItemIds : k # i => items'[k] = items[k]
      /\ captures' = [captures EXCEPT ![c] = [item |-> i, key |-> <<c, 0>>]]
  BY StoreCaptureFacts DEF CapturesInv, TypeInv
<1>2. UNCHANGED <<lastItem, captureTasks, archive, restores>>
  BY DEF StoreCapture
<1> QED BY <1>1, <1>2, SameRows DEF StoreStep

LEMMA UploadStep ==
  ASSUME CapturesInv, NEW i \in ItemIds, NEW page \in 1..MaxPages,
         CallUpload(i, page) \/ CallUploadInDoubt(i, page)
  PROVE  RowsStep \/ StoreStep(i, Upload(i, page))
<1> DEFINE c == Upload(i, page)
<1>1. c \in CaptureIds /\ "upload" \in Calls
  BY ServerCaptures DEF CallUpload, CallUploadInDoubt, Call
<1>2. CASE UNCHANGED <<itemVars, captureFiles>>
  BY <1>2, IdleStep DEF itemVars
<1>3. ASSUME NEW kind \in PageKinds, StoreCapture(i, c, kind), lastToken' = lastToken,
             \/ captureFiles' = captureFiles \cup {<<c, 0>>}
             \/ "commit" \in Mishaps /\ captureFiles' = captureFiles
      PROVE  StoreStep(i, c)
  BY <1>1, <1>3, StoringStep
<1>4. CASE CallUpload(i, page)
  BY <1>2, <1>3, <1>4, CapturesAssumption DEF CallUpload
<1>5. CASE CallUploadInDoubt(i, page)
  BY <1>3, <1>5 DEF CallUploadInDoubt, Mishap, PageKinds
<1> QED BY <1>4, <1>5

LEMMA RecoverStep ==
  ASSUME CapturesInv, NEW i \in ItemIds, CallRecover(i)
  PROVE  \E c \in CaptureIds : StoreStep(i, c)
<1> DEFINE n == lastToken + 1
           c == ServerCapture(n)
<1>1. /\ lastToken < MaxTokens /\ lastToken' = n /\ captureFiles' = captureFiles \cup {<<c, 0>>}
      /\ \E kind \in PageKinds : StoreCapture(i, c, kind)
  BY CapturesAssumption DEF CallRecover
<1>2. n \in 1..MaxTokens
  BY <1>1, NumberFacts DEF CapturesInv, TypeInv, TablesTypeOK
<1>3. c \in CaptureIds
  BY <1>2, ServerCaptures
<1>4. StoreStep(i, c)
  BY <1>1, <1>2, <1>3, StoringStep
<1> QED BY <1>3, <1>4

LEMMA PersistStep ==
  ASSUME CapturesInv, NEW w \in Capturers, Persist(w) \/ PersistInDoubt(w)
  PROVE  RowsStep \/ \E i \in ItemIds, c \in CaptureIds : StoreStep(i, c)
<1> DEFINE u == capturer[w]
           c == ServerCapture(u.token)
<1>1. u.pc = "capture"
  BY DEF Persist, PersistInDoubt
<1>2. u.item \in ItemIds /\ u.token \in 1..MaxTokens /\ c \in CaptureIds
  BY <1>1, AtWork
<1>3. CASE UNCHANGED <<itemVars, captureFiles>>
  BY <1>3, IdleStep DEF itemVars
<1>4. ASSUME CaptureHeld(u.item, u.token), lastToken' = lastToken,
             NEW kind \in PageKinds, StoreCapture(u.item, c, kind),
             \/ captureFiles' = captureFiles \cup {<<c, 0>>}
             \/ "commit" \in Mishaps /\ captureFiles' = captureFiles
      PROVE  StoreStep(u.item, c)
  <2>1. items[u.item].token = u.token
    BY <1>4 DEF CaptureHeld
  <2> HIDE DEF u
  <2> QED BY <1>2, <1>4, <2>1, StoringStep
<1>5. CASE Persist(w)
  BY <1>2, <1>3, <1>4, <1>5, CapturesAssumption DEF Persist
<1>6. CASE PersistInDoubt(w)
  BY <1>2, <1>3, <1>4, <1>6 DEF PersistInDoubt, Mishap, PageKinds
<1> QED BY <1>5, <1>6

LEMMA RestoringStep ==
  ASSUME CapturesInv, NEW i \in ItemIds, RestoreOne(i)
  PROVE  \E t \in ItemIds : RestoreStep(i, t)
<1>1. PICK t \in ItemIds :
           /\ archive.items[i] \in Rows /\ archive.items[i].capture # "none"
           /\ archive.items[i].url \in Urls
           /\ i <= lastItem
           /\ \/ /\ Saved(t) /\ items[t].url = archive.items[i].url
                 /\ PutItem(t, [Touched(items[t]) EXCEPT !.indexed = 0, !.bad = FALSE])
              \/ /\ t = i /\ ~Saved(i) /\ At(archive.items[i].url) = {}
                 /\ PutItem(i, [Touched(Restored(archive.items[i])) EXCEPT !.indexed = 0, !.bad = FALSE])
           /\ Saved(i) => t = i
           /\ captures' = [c \in CaptureIds |->
                 IF c \in Missing(i) THEN [item |-> t, key |-> <<c, restores + 1>>] ELSE captures[c]]
           /\ restores' = restores + 1
           /\ UNCHANGED <<lastItem, sources, tombs, gone, captureTasks, lastToken, archive>>
  BY RestoreOneFacts
<1>2. captureFiles' = captureFiles \cup {<<c, restores'>> : c \in Missing(i)} /\ i \in restoring.left
  BY DEF RestoreOne
<1>3. "transfer" \in Calls
  BY <1>2 DEF CapturesInv, NothingMoved
<1>4. PICK s : PutItem(t, s) /\ s.capture # "none" /\ NoNewLease(items[t], s)
  <2>1. items[t] \in Rows
    BY DEF CapturesInv, TypeInv, TablesTypeOK
  <2>2. CASE Saved(t) /\ PutItem(t, [Touched(items[t]) EXCEPT !.indexed = 0, !.bad = FALSE])
    BY <2>1, <2>2, MergedFacts DEF Saved, Tended, SameItem
  <2>3. CASE /\ t = i
             /\ PutItem(i, [Touched(Restored(archive.items[i])) EXCEPT !.indexed = 0, !.bad = FALSE])
    BY <1>1, <2>3, RestoredFacts DEF SameItem, NoNewLease
  <2> QED BY <1>1, <2>2, <2>3
<1>5. items'[t] = s /\ \A k \in ItemIds : k # t => items'[k] = items[k]
  BY <1>4 DEF PutItem, CapturesInv, TypeInv, TablesTypeOK
<1>6. /\ Saved(t)' /\ \A k \in ItemIds : Saved(k) => Saved(k)'
      /\ \A k \in ItemIds : NoNewLease(items[k], items'[k])
  BY <1>4, <1>5 DEF Saved, NoNewLease
<1> QED BY <1>1, <1>2, <1>3, <1>6 DEF RestoreStep

\* The kinds of steps.
LEMMA StepKinds ==
  ASSUME CapturesInv, [Next]_vars
  PROVE  \/ RowsStep \/ ClaimStep
         \/ \E i \in ItemIds, c \in CaptureIds : StoreStep(i, c)
         \/ \E i \in ItemIds : RemoveStep(i)
         \/ CallExport
         \/ \E i, t \in ItemIds : RestoreStep(i, t)
         \/ \E c \in CaptureIds : Cleanup(c)
<1>1. CASE UNCHANGED vars
  BY <1>1, IdleStep DEF vars, itemVars, loopVars
<1>2. ASSUME NEW u \in Urls, \/ \E tags \in SUBSET Tags : CallSave(u, tags)
                            \/ \E n \in Nodes : CallSync(u, n)
      PROVE  RowsStep
  BY <1>2, CallSaveStep, CallSyncStep
<1>3. ASSUME NEW i \in ItemIds, CallItem(i)
      PROVE  RowsStep \/ (\E c \in CaptureIds : StoreStep(i, c)) \/ \E t \in ItemIds : RestoreStep(i, t)
  <2>1. CASE CallDelete(i)
    BY <2>1, IdleStep DEF CallDelete, itemVars
  <2>2. CASE \E page \in 1..MaxPages : CallUpload(i, page) \/ CallUploadInDoubt(i, page)
    BY <2>2, UploadStep, ServerCaptures
  <2>3. CASE CallRow(i) \/ \E tags \in SUBSET Tags : CallEdit(i, tags)
    BY <2>3, CallRowsStep
  <2> QED BY <1>3, <2>1, <2>2, <2>3, RecoverStep, RestoringStep DEF CallItem
<1>4. CASE CallRestore \/ RestoreEnds
  BY <1>4, IdleStep DEF CallRestore, RestoreEnds, RestoreTombstones, itemVars
<1>5. ASSUME NEW d \in removals, Remove(d)
      PROVE  \E i \in ItemIds : RemoveStep(i)
  <2>1. d.item \in ItemIds
    BY DEF CapturesInv, TypeInv, LoopsTypeOK
  <2>2. RemoveStep(d.item)
    BY <1>5 DEF Remove, DeleteItem, PutItem, RemoveStep
  <2> QED BY <2>1, <2>2
<1>6. ASSUME NEW w \in Capturers,
             Claim(w) \/ GiveBack(w) \/ Persist(w) \/ PersistInDoubt(w) \/ Crash(w)
      PROVE  RowsStep \/ ClaimStep \/ \E i \in ItemIds, c \in CaptureIds : StoreStep(i, c)
  <2>1. CASE Crash(w)
    BY <2>1, IdleStep DEF Crash, Mishap, itemVars
  <2> QED BY <1>6, <2>1, ClaimsStep, GiveBackStep, PersistStep
<1>7. CASE \E i \in ItemIds : ReadText(i)
  BY <1>7, IdleStep DEF ReadText, itemVars
<1> QED BY <1>1, <1>2, <1>3, <1>4, <1>5, <1>6, <1>7, ClassifyStep, PassStep DEF Next
-----------------------------------------------------------------------------
(* The storage keys are kept apart *)

LEMMA CaptureNames ==
  /\ \A n, m : ServerCapture(n) = ServerCapture(m) => n = m
  /\ \A i \in ItemIds : \A n, p : ServerCapture(n) # Upload(i, p)
  /\ \A i, j, p, q : Upload(i, p) = Upload(j, q) => i = j /\ p = q
  BY NumberFacts DEF ServerCapture, Upload, NoItem

LEMMA KeyTypes ==
  ASSUME CapturesInv
  PROVE  /\ \A c \in CaptureIds : /\ captures[c] \in CaptureRows /\ captureTasks[c] \in TaskRows
                                  /\ captures[c].key[2] \in Nat /\ captureTasks[c].key[2] \in Nat
                                  /\ archive.captures[c] \in CaptureRows
         /\ restores \in Nat /\ lastToken \in 0..MaxTokens /\ lastToken \in Nat /\ lastItem \in Nat
         /\ \A k \in ItemIds : items[k].token \in Nat /\ items[k].token <= lastToken
<1>1. /\ captures \in [CaptureIds -> CaptureRows] /\ captureTasks \in [CaptureIds -> TaskRows]
      /\ archive.captures \in [CaptureIds -> CaptureRows]
  BY DEF CapturesInv, TypeInv, TablesTypeOK, Archives
<1>2. \A c \in CaptureIds : captures[c].key[2] \in Nat /\ captureTasks[c].key[2] \in Nat
  BY <1>1 DEF CaptureRows, TaskRows, StorageKeys
<1>3. restores \in Nat /\ lastToken \in 0..MaxTokens /\ lastToken \in Nat /\ lastItem \in Nat
  BY NumberFacts DEF CapturesInv, TypeInv, TablesTypeOK
<1>4. \A k \in ItemIds : items[k].token \in Nat
  BY RowFields DEF CapturesInv, TypeInv, TablesTypeOK
<1>5. \A k \in ItemIds : items[k].token <= lastToken
  BY DEF CapturesInv, LeaseInv, Leases
<1> QED BY <1>1, <1>2, <1>3, <1>4, <1>5

LEMMA NextTypes ==
  ASSUME CapturesInv'
  PROVE  /\ lastToken' \in Nat /\ lastItem' \in Nat /\ restores' \in Nat
         /\ \A k \in ItemIds : items'[k].token \in Nat
<1>1. items' \in [ItemIds -> Rows]
  BY DEF CapturesInv, TypeInv, TablesTypeOK
<1>2. lastToken' \in Nat /\ lastItem' \in Nat /\ restores' \in Nat
  BY NumberFacts DEF CapturesInv, TypeInv, TablesTypeOK
<1> QED BY <1>1, <1>2, RowFields

LEMMA UniqueKept ==
  ASSUME TokensUnique, \A k \in ItemIds : NoNewLease(items[k], items'[k])
  PROVE  TokensUnique'
  BY DEF TokensUnique, NoNewLease

\* What is spent stays so, and no lease is given out twice.
LEMMA SpentKept ==
  ASSUME KeysInv, CapturesInv', lastToken <= lastToken',
         \A n \in 1..MaxTokens : Spent(ServerCapture(n))' => Spent(ServerCapture(n)),
         \A k \in ItemIds : NoNewLease(items[k], items'[k]) \/ items'[k].token > lastToken
  PROVE  TokensSpent'
<1> SUFFICES ASSUME NEW n \in 1..MaxTokens, Spent(ServerCapture(n))'
             PROVE  n <= lastToken' /\ \A i \in ItemIds : items'[i].token # n
  BY DEF TokensSpent
<1>1. n \in Nat /\ n # NoToken /\ n <= lastToken /\ \A i \in ItemIds : items[i].token # n
  BY NumberFacts DEF KeysInv, TokensSpent, NoToken
<1>2. lastToken \in Nat /\ lastToken' \in Nat /\ \A k \in ItemIds : items'[k].token \in Nat
  BY KeyTypes, NextTypes DEF KeysInv
<1>3. n <= lastToken'
  BY <1>1, <1>2
<1>4. \A i \in ItemIds : items'[i].token # n
  BY <1>1, <1>2 DEF NoNewLease
<1> QED BY <1>3, <1>4

LEMMA RowsKeys ==
  ASSUME KeysInv, CapturesInv', RowsStep
  PROVE  KeysInv'
<1>1. UNCHANGED <<lastToken, captures, captureTasks, archive, restores>>
  BY DEF RowsStep
<1>2. KeysOwn' /\ FilesNewer'
  BY <1>1 DEF RowsStep, KeysInv, KeysOwn, FilesNewer, Stored
<1>3. TokensUnique'
  BY UniqueKept DEF RowsStep, KeysInv
<1>4. \A c \in CaptureIds : Spent(c)' <=> Spent(c)
  BY <1>1 DEF Spent, Stored
<1>5. TokensSpent'
  <2>1. lastToken <= lastToken'
    BY <1>1, KeyTypes DEF KeysInv
  <2> QED BY <1>4, <2>1, SpentKept, ServerCaptures DEF RowsStep
<1>6. UploadsSpent'
  <2> SUFFICES ASSUME NEW i \in ItemIds, NEW page \in 1..MaxPages, Spent(Upload(i, page))
               PROVE  /\ "upload" \in Calls /\ i <= lastItem'
                      /\ "transfer" \notin Calls =>
                            /\ Stored(Upload(i, page))' => captures'[Upload(i, page)].item = i
                            /\ captureTasks'[Upload(i, page)] # NoTask => ~Saved(i)'
    BY <1>4, ServerCaptures DEF UploadsSpent, Spent
  <2>1. /\ "upload" \in Calls /\ i <= lastItem
        /\ "transfer" \notin Calls =>
              /\ Stored(Upload(i, page)) => captures[Upload(i, page)].item = i
              /\ captureTasks[Upload(i, page)] # NoTask => ~Saved(i)
    BY DEF KeysInv, UploadsSpent
  <2>2. lastItem <= lastItem' /\ lastItem \in Nat /\ lastItem' \in Nat /\ i \in Nat
    BY KeyTypes, NextTypes, NumberFacts DEF KeysInv, RowsStep
  <2>3. i <= lastItem' /\ ~(i > lastItem)
    BY <2>1, <2>2
  <2> QED BY <1>1, <2>1, <2>3 DEF RowsStep, Stored
<1> QED BY <1>2, <1>3, <1>5, <1>6 DEF KeysInv

LEMMA ClaimKeys ==
  ASSUME KeysInv, CapturesInv', ClaimStep
  PROVE  KeysInv'
<1>1. UNCHANGED <<lastItem, captures, captureTasks, archive, restores>> /\ lastToken' = lastToken + 1
  BY DEF ClaimStep
<1>2. PICK i \in ItemIds : items'[i].token = lastToken' /\ \A k \in ItemIds : k # i => items'[k] = items[k]
  BY DEF ClaimStep
<1>3. lastToken \in Nat /\ \A k \in ItemIds : items[k].token \in Nat /\ items[k].token <= lastToken
  BY KeyTypes DEF KeysInv
<1>4. lastToken <= lastToken' /\ items'[i].token > lastToken
  BY <1>1, <1>2, <1>3
<1>5. KeysOwn' /\ FilesNewer' /\ UploadsSpent'
  BY <1>1 DEF ClaimStep, KeysInv, KeysOwn, FilesNewer, UploadsSpent, Spent, Stored
<1>6. TokensUnique'
  <2>1. \A k \in ItemIds : k # i => items'[k].token # items'[i].token
    BY <1>2, <1>3, <1>4
  <2> QED BY <1>2, <2>1 DEF KeysInv, TokensUnique
<1>7. TokensSpent'
  <2>1. \A n \in 1..MaxTokens : Spent(ServerCapture(n))' => Spent(ServerCapture(n))
    BY <1>1 DEF Spent, Stored
  <2>2. \A k \in ItemIds : NoNewLease(items[k], items'[k]) \/ items'[k].token > lastToken
    BY <1>2, <1>4 DEF NoNewLease
  <2> QED BY <1>4, <2>1, <2>2, SpentKept
<1> QED BY <1>5, <1>6, <1>7 DEF KeysInv

\* A capture that is stored was not there before, and no task deletes its file.
LEMMA StoreKeys ==
  ASSUME ~("upload" \in Calls /\ "transfer" \in Calls),
         KeysInv, CapturesInv', NEW i \in ItemIds, NEW c \in CaptureIds, StoreStep(i, c)
  PROVE  KeysInv' /\ captureTasks[c] = NoTask
<1>1. /\ Saved(i) /\ ~Stored(c) /\ Saved(i)'
      /\ captures' = [captures EXCEPT ![c] = [item |-> i, key |-> <<c, 0>>]]
      /\ items'[i].token = NoToken /\ \A k \in ItemIds : k # i => items'[k] = items[k]
      /\ UNCHANGED <<lastItem, captureTasks, archive, restores>>
  BY DEF StoreStep
<1>2. /\ captures'[c] = [item |-> i, key |-> <<c, 0>>]
      /\ \A b \in CaptureIds : b # c => captures'[b] = captures[b]
  BY <1>1 DEF KeysInv, CapturesInv, TypeInv, TablesTypeOK
<1>3. /\ captures'[c].item = i /\ captures'[c].key[1] = c /\ captures'[c].key[2] = 0
      /\ Stored(c)'
  BY <1>2, NumberFacts DEF Stored, NoCapture
<1>4. \A k \in ItemIds : Saved(k)' <=> Saved(k)
  BY <1>1 DEF Saved
<1>5. captureTasks[c] = NoTask
  <2>1. CASE "upload" \in Calls /\ \E page \in 1..MaxPages : c = Upload(i, page)
    BY <1>1, <2>1 DEF KeysInv, UploadsSpent
  <2>2. ASSUME NEW n \in 1..MaxTokens, c = ServerCapture(n),
               n = items[i].token \/ n = lastToken + 1
        PROVE  captureTasks[c] = NoTask
    <3>1. ~(n <= lastToken /\ \A k \in ItemIds : items[k].token # n)
      <4>1. lastToken \in Nat
        BY KeyTypes DEF KeysInv
      <4> QED BY <2>2, <4>1
    <3> QED BY <2>2, <3>1 DEF KeysInv, TokensSpent, Spent
  <2> QED BY <2>1, <2>2 DEF StoreStep
<1>6. KeysOwn'
  <2>1. captures'[c].key[2] <= restores'
    BY <1>1, <1>3, KeyTypes DEF KeysInv
  <2> QED BY <1>1, <1>2, <1>3, <1>4, <2>1 DEF KeysInv, KeysOwn, Stored
<1>7. FilesNewer'
  BY <1>1, <1>2, <1>5 DEF KeysInv, FilesNewer, Stored
<1>8. TokensUnique'
  <2>1. \A k \in ItemIds : NoNewLease(items[k], items'[k])
    BY <1>1 DEF NoNewLease
  <2> QED BY <2>1, UniqueKept DEF KeysInv
<1>9. \A b \in CaptureIds : b # c => (Spent(b)' <=> Spent(b))
  BY <1>1, <1>2 DEF Spent, Stored
<1>10. TokensSpent'
  <2> SUFFICES ASSUME NEW n \in 1..MaxTokens, Spent(ServerCapture(n))'
               PROVE  n <= lastToken' /\ \A k \in ItemIds : items'[k].token # n
    BY DEF TokensSpent
  <2>1. n # NoToken /\ n \in Nat /\ ServerCapture(n) \in CaptureIds
    BY ServerCaptures DEF NoToken
  <2>2. lastToken \in Nat /\ \A k \in ItemIds : items[k].token \in Nat /\ items[k].token <= lastToken
    BY KeyTypes DEF KeysInv
  <2>3. lastToken' = lastToken \/ lastToken' = lastToken + 1
    BY DEF StoreStep
  <2>4. CASE c # ServerCapture(n)
    <3>1. n <= lastToken /\ \A k \in ItemIds : items[k].token # n
      BY <1>9, <2>1, <2>4 DEF KeysInv, TokensSpent
    <3>2. n <= lastToken'
      BY <2>1, <2>2, <2>3, <3>1
    <3> QED BY <1>1, <2>1, <3>1, <3>2
  <2>5. CASE c = ServerCapture(n)
    <3>1. (n = items[i].token /\ lastToken' = lastToken) \/ (n = lastToken + 1 /\ lastToken' = n)
      BY <2>5, CaptureNames DEF StoreStep
    <3>2. n <= lastToken'
      BY <2>1, <2>2, <3>1
    <3>3. \A k \in ItemIds : k # i => items[k].token # n
      <4>1. CASE n = items[i].token
        BY <2>1, <4>1 DEF KeysInv, TokensUnique
      <4>2. CASE n = lastToken + 1
        BY <2>2, <4>2
      <4> QED BY <3>1, <4>1, <4>2
    <3> QED BY <1>1, <2>1, <3>2, <3>3
  <2> QED BY <2>4, <2>5
<1>11. UploadsSpent'
  <2> SUFFICES ASSUME NEW j \in ItemIds, NEW page \in 1..MaxPages
               PROVE  /\ Spent(Upload(j, page))' => "upload" \in Calls /\ j <= lastItem'
                      /\ "transfer" \notin Calls =>
                            /\ Stored(Upload(j, page))' => captures'[Upload(j, page)].item = j
                            /\ captureTasks'[Upload(j, page)] # NoTask => ~Saved(j)'
    BY DEF UploadsSpent
  <2>1. Upload(j, page) \in CaptureIds
    BY ServerCaptures
  <2>2. CASE c # Upload(j, page)
    <3>1. (Spent(Upload(j, page))' <=> Spent(Upload(j, page))) /\ captures'[Upload(j, page)] = captures[Upload(j, page)]
      BY <1>2, <1>9, <2>1, <2>2
    <3> QED BY <1>1, <1>4, <3>1 DEF KeysInv, UploadsSpent, Stored
  <2>3. CASE c = Upload(j, page)
    <3>1. "upload" \in Calls /\ i = j
      BY <2>3, CaptureNames DEF StoreStep
    <3>2. i <= lastItem'
      BY <1>1 DEF KeysInv, CapturesInv, RowsInv, RowsWhole, Whole, Saved
    <3> QED BY <1>1, <1>3, <1>5, <2>3, <3>1, <3>2
  <2> QED BY <2>2, <2>3
<1> QED BY <1>5, <1>6, <1>7, <1>8, <1>10, <1>11 DEF KeysInv

LEMMA RemoveFacts ==
  ASSUME KeysInv, NEW i \in ItemIds, RemoveStep(i)
  PROVE  /\ items'[i] = NoItemRow /\ \A k \in ItemIds : k # i => items'[k] = items[k]
         /\ ~Saved(i)' /\ \A k \in ItemIds : k # i => (Saved(k)' <=> Saved(k))
         /\ \A k \in ItemIds : NoNewLease(items[k], items'[k])
         /\ \A c \in CaptureIds :
               \/ /\ captures[c].item = i /\ Stored(c) /\ captures'[c] = NoCapture
                  /\ captureTasks'[c] = IF captureTasks[c] = NoTask
                                        THEN [state |-> "queued", key |-> captures[c].key]
                                        ELSE captureTasks[c]
               \/ /\ captures[c].item # i /\ captures'[c] = captures[c]
                  /\ captureTasks'[c] = captureTasks[c]
<1>1. items'[i] = NoItemRow /\ \A k \in ItemIds : k # i => items'[k] = items[k]
  BY DEF RemoveStep, KeysInv, CapturesInv, TypeInv, TablesTypeOK
<1>2. /\ captures' = [c \in CaptureIds |-> IF c \in CapturesOf(i) THEN NoCapture ELSE captures[c]]
      /\ captureTasks' = [c \in CaptureIds |->
            IF c \in CapturesOf(i) /\ captureTasks[c] = NoTask
            THEN [state |-> "queued", key |-> captures[c].key] ELSE captureTasks[c]]
  BY DEF RemoveStep, DropCaptures, QueueFiles
<1>3. \A c \in CaptureIds : (c \in CapturesOf(i) <=> captures[c].item = i) /\ (captures[c].item = i => Stored(c))
  BY NumberFacts DEF CapturesOf, Stored, NoCapture
<1>4. \A c \in CaptureIds :
         \/ /\ captures[c].item = i /\ Stored(c) /\ captures'[c] = NoCapture
            /\ captureTasks'[c] = IF captureTasks[c] = NoTask
                                  THEN [state |-> "queued", key |-> captures[c].key]
                                  ELSE captureTasks[c]
         \/ /\ captures[c].item # i /\ captures'[c] = captures[c]
            /\ captureTasks'[c] = captureTasks[c]
  BY <1>2, <1>3
<1> QED BY <1>1, <1>4, NoRowFacts DEF Saved, NoNewLease

LEMMA RemoveKeys ==
  ASSUME KeysInv, CapturesInv', NEW i \in ItemIds, RemoveStep(i)
  PROVE  KeysInv'
<1>1. UNCHANGED <<lastItem, lastToken, archive, restores>>
  BY DEF RemoveStep
<1>2. \A c \in CaptureIds :
         \/ /\ captures[c].item = i /\ Stored(c) /\ captures'[c] = NoCapture
            /\ captureTasks'[c] = IF captureTasks[c] = NoTask
                                  THEN [state |-> "queued", key |-> captures[c].key]
                                  ELSE captureTasks[c]
         \/ /\ captures[c].item # i /\ captures'[c] = captures[c]
            /\ captureTasks'[c] = captureTasks[c]
  BY RemoveFacts
<1>3. /\ ~Saved(i)' /\ \A k \in ItemIds : k # i => (Saved(k)' <=> Saved(k))
      /\ \A k \in ItemIds : NoNewLease(items[k], items'[k])
  BY RemoveFacts
<1>4. KeysOwn'
  <2> SUFFICES ASSUME NEW c \in CaptureIds
               PROVE  /\ Stored(c)' => /\ captures'[c].item \in ItemIds /\ Saved(captures[c].item)'
                                       /\ captures'[c].key[1] = c /\ captures'[c].key[2] <= restores'
                      /\ captureTasks'[c] # NoTask => /\ captureTasks'[c].key[1] = c
                                                      /\ captureTasks'[c].key[2] <= restores'
    BY DEF KeysOwn
  <2>1. CASE captures[c].item = i
    <3>1. Stored(c) /\ ~Stored(c)'
      BY <1>2, <2>1 DEF Stored
    <3>2. captures[c].key[1] = c /\ captures[c].key[2] <= restores
      BY <3>1 DEF KeysInv, KeysOwn
    <3>3. \/ captureTasks'[c].key = captures[c].key
          \/ captureTasks[c] # NoTask /\ captureTasks'[c] = captureTasks[c]
      <4>1. captureTasks'[c] = IF captureTasks[c] = NoTask
                               THEN [state |-> "queued", key |-> captures[c].key]
                               ELSE captureTasks[c]
        BY <1>2, <2>1
      <4> QED BY <4>1
    <3> QED BY <1>1, <3>1, <3>2, <3>3 DEF KeysInv, KeysOwn
  <2>2. CASE captures[c].item # i
    BY <1>1, <1>2, <1>3, <2>2 DEF KeysInv, KeysOwn, Stored
  <2> QED BY <2>1, <2>2
<1>5. FilesNewer'
  BY <1>2 DEF KeysInv, FilesNewer, Stored
<1>6. TokensUnique'
  BY <1>3, UniqueKept DEF KeysInv
<1>7. \A c \in CaptureIds : Spent(c)' => Spent(c)
  BY <1>1, <1>2 DEF Spent, Stored
<1>8. TokensSpent'
  <2>1. lastToken <= lastToken'
    BY <1>1, KeyTypes DEF KeysInv
  <2> QED BY <1>3, <1>7, <2>1, SpentKept, ServerCaptures
<1>9. UploadsSpent'
  <2> SUFFICES ASSUME NEW j \in ItemIds, NEW page \in 1..MaxPages
               PROVE  /\ Spent(Upload(j, page))' => "upload" \in Calls /\ j <= lastItem'
                      /\ "transfer" \notin Calls =>
                            /\ Stored(Upload(j, page))' => captures'[Upload(j, page)].item = j
                            /\ captureTasks'[Upload(j, page)] # NoTask => ~Saved(j)'
    BY DEF UploadsSpent
  <2>0. PICK c \in CaptureIds : c = Upload(j, page)
    BY ServerCaptures
  <2>1. /\ Spent(c) => "upload" \in Calls /\ j <= lastItem
        /\ "transfer" \notin Calls =>
              /\ Stored(c) => captures[c].item = j
              /\ captureTasks[c] # NoTask => ~Saved(j)
    BY <2>0 DEF KeysInv, UploadsSpent
  <2>2. ~Saved(j) => ~Saved(j)'
    BY <1>3
  <2>3. CASE captures[c].item = i
    <3>1. Stored(c) /\ ~Stored(c)'
      BY <1>2, <2>3 DEF Stored
    <3>2. "transfer" \notin Calls => j = i
      BY <2>1, <2>3, <3>1
    <3> QED BY <1>1, <1>3, <1>7, <2>0, <2>1, <3>1, <3>2
  <2>4. CASE captures[c].item # i
    <3>1. captures'[c] = captures[c] /\ captureTasks'[c] = captureTasks[c]
      BY <1>2, <2>4
    <3> QED BY <1>1, <1>7, <2>0, <2>1, <2>2, <3>1 DEF Stored
  <2> QED BY <2>3, <2>4
<1> QED BY <1>4, <1>5, <1>6, <1>8, <1>9 DEF KeysInv

LEMMA CleanupFacts ==
  ASSUME CapturesInv, NEW c \in CaptureIds, Cleanup(c)
  PROVE  /\ captureTasks[c].state = "queued" /\ captureTasks[c] # NoTask /\ captureTasks'[c] # NoTask
         /\ captureTasks'[c].key = captureTasks[c].key
         /\ \A b \in CaptureIds : b # c => captureTasks'[b] = captureTasks[b]
         /\ captureFiles' = captureFiles \ {captureTasks[c].key}
         /\ UNCHANGED <<items, lastItem, captures, lastToken, archive, restores>>
<1>1. /\ captureTasks' = [captureTasks EXCEPT ![c].state = "completed"]
      /\ captureTasks[c].state = "queued" /\ captureFiles' = captureFiles \ {captureTasks[c].key}
      /\ UNCHANGED <<items, lastItem, captures, lastToken, archive, restores>>
  BY DEF Cleanup, FinishCaptureTask
<1>2. captureTasks \in [CaptureIds -> TaskRows] /\ captureTasks[c] \in TaskRows
  BY DEF CapturesInv, TypeInv, TablesTypeOK
<1>3. /\ captureTasks'[c] = [captureTasks[c] EXCEPT !.state = "completed"]
      /\ \A b \in CaptureIds : b # c => captureTasks'[b] = captureTasks[b]
  BY <1>1, <1>2
<1>4. captureTasks'[c].key = captureTasks[c].key /\ captureTasks'[c].state = "completed"
  BY <1>2, <1>3 DEF TaskRows
<1>5. NoTask.state = "none"
  BY DEF NoTask
<1>6. captureTasks[c] # NoTask /\ captureTasks'[c] # NoTask
  BY <1>1, <1>4, <1>5
<1> QED BY <1>1, <1>3, <1>4, <1>6

LEMMA CleanupKeys ==
  ASSUME KeysInv, CapturesInv', NEW c \in CaptureIds, Cleanup(c)
  PROVE  KeysInv'
<1>1. /\ captureTasks[c] # NoTask /\ captureTasks'[c] # NoTask
      /\ captureTasks'[c].key = captureTasks[c].key
      /\ \A b \in CaptureIds : b # c => captureTasks'[b] = captureTasks[b]
      /\ UNCHANGED <<items, lastItem, captures, lastToken, archive, restores>>
  BY CleanupFacts DEF KeysInv
<1>2. \A b \in CaptureIds : /\ captureTasks'[b].key = captureTasks[b].key
                            /\ captureTasks'[b] # NoTask <=> captureTasks[b] # NoTask
                            /\ Spent(b)' <=> Spent(b)
  BY <1>1 DEF Spent, Stored
<1>3. KeysOwn'
  BY <1>1, <1>2 DEF KeysInv, KeysOwn, Stored, Saved
<1>4. FilesNewer'
  BY <1>1, <1>2 DEF KeysInv, FilesNewer, Stored
<1>5. TokensUnique' /\ TokensSpent'
  BY <1>1, <1>2, ServerCaptures DEF KeysInv, TokensUnique, TokensSpent
<1>6. UploadsSpent'
  BY <1>1, <1>2, ServerCaptures DEF KeysInv, UploadsSpent, Stored, Saved
<1> QED BY <1>3, <1>4, <1>5, <1>6 DEF KeysInv

LEMMA ExportKeys ==
  ASSUME KeysInv, CapturesInv', CallExport
  PROVE  KeysInv'
<1>1. /\ archive' = [items |-> items, captures |-> captures, tombs |-> tombs]
      /\ UNCHANGED <<items, lastItem, captures, captureTasks, lastToken, restores>>
  BY DEF CallExport, Export
<1>2. archive'.captures = captures
  BY <1>1
<1>3. \A c \in CaptureIds : Spent(c)' => Spent(c)
  BY <1>1, <1>2 DEF Spent, Stored
<1>4. KeysOwn' /\ FilesNewer' /\ TokensUnique'
  BY <1>1 DEF KeysInv, KeysOwn, FilesNewer, TokensUnique, Stored, Saved
<1>5. TokensSpent' /\ UploadsSpent'
  BY <1>1, <1>3, ServerCaptures DEF KeysInv, TokensSpent, UploadsSpent, Stored, Saved
<1> QED BY <1>4, <1>5 DEF KeysInv

\* A capture comes back under a key that no task deletes.
LEMMA RestoreFacts ==
  ASSUME KeysInv, NEW i \in ItemIds, NEW t \in ItemIds, RestoreStep(i, t)
  PROVE  \A c \in CaptureIds :
            \/ /\ c \in Missing(i) /\ archive.captures[c] # NoCapture
               /\ captures'[c].item = t /\ captures'[c].key = <<c, restores'>>
               /\ captures'[c].key[1] = c /\ captures'[c].key[2] = restores + 1
            \/ captures'[c] = captures[c]
<1> SUFFICES ASSUME NEW c \in CaptureIds, c \in Missing(i)
             PROVE  /\ archive.captures[c] # NoCapture
                    /\ captures'[c].item = t /\ captures'[c].key = <<c, restores'>>
                    /\ captures'[c].key[1] = c /\ captures'[c].key[2] = restores + 1
  BY DEF RestoreStep
<1>1. archive.captures[c].item = i
  BY DEF Missing
<1>2. archive.captures[c] # NoCapture
  BY <1>1, NumberFacts DEF NoCapture
<1>3. captures'[c] = [item |-> t, key |-> <<c, restores + 1>>] /\ restores' = restores + 1
  BY DEF RestoreStep
<1> QED BY <1>2, <1>3

LEMMA RestoreKeys ==
  ASSUME ~("upload" \in Calls /\ "transfer" \in Calls),
         KeysInv, CapturesInv', NEW i \in ItemIds, NEW t \in ItemIds, RestoreStep(i, t)
  PROVE  KeysInv'
<1>1. /\ "transfer" \in Calls /\ Saved(t)' /\ \A k \in ItemIds : Saved(k) => Saved(k)'
      /\ \A k \in ItemIds : NoNewLease(items[k], items'[k])
      /\ restores' = restores + 1 /\ UNCHANGED <<lastItem, lastToken, captureTasks, archive>>
  BY DEF RestoreStep
<1>2. \A c \in CaptureIds :
         \/ /\ archive.captures[c] # NoCapture
            /\ captures'[c].item = t
            /\ captures'[c].key[1] = c /\ captures'[c].key[2] = restores + 1
         \/ captures'[c] = captures[c]
  BY RestoreFacts
<1>3. /\ restores \in Nat
      /\ \A c \in CaptureIds : captures[c].key[2] \in Nat /\ captureTasks[c].key[2] \in Nat
  BY KeyTypes DEF KeysInv
<1>4. KeysOwn'
  <2> SUFFICES ASSUME NEW c \in CaptureIds
               PROVE  /\ Stored(c)' => /\ captures'[c].item \in ItemIds /\ Saved(captures[c].item)'
                                       /\ captures'[c].key[1] = c /\ captures'[c].key[2] <= restores'
                      /\ captureTasks'[c] # NoTask => /\ captureTasks'[c].key[1] = c
                                                      /\ captureTasks'[c].key[2] <= restores'
    BY DEF KeysOwn
  <2>1. captureTasks'[c] # NoTask => captureTasks'[c].key[1] = c /\ captureTasks'[c].key[2] <= restores'
    <3>1. captureTasks[c] # NoTask => captureTasks[c].key[1] = c /\ captureTasks[c].key[2] <= restores
      BY DEF KeysInv, KeysOwn
    <3> QED BY <1>1, <1>3, <3>1
  <2>2. CASE captures'[c] = captures[c]
    <3>1. Stored(c)' => /\ captures[c].item \in ItemIds /\ Saved(captures[c].item)
                        /\ captures[c].key[1] = c /\ captures[c].key[2] <= restores
      BY <2>2 DEF KeysInv, KeysOwn, Stored
    <3>2. Stored(c)' => captures[c].key[2] <= restores'
      BY <1>1, <1>3, <3>1
    <3> QED BY <1>1, <2>1, <2>2, <3>1, <3>2 DEF Saved
  <2>3. CASE captures'[c].item = t /\ captures'[c].key[1] = c /\ captures'[c].key[2] = restores + 1
    <3>1. captures'[c].key[2] <= restores'
      BY <1>1, <1>3, <2>3
    <3> QED BY <1>1, <2>1, <2>3, <3>1 DEF Saved
  <2> QED BY <1>2, <2>2, <2>3
<1>5. FilesNewer'
  <2> SUFFICES ASSUME NEW c \in CaptureIds, Stored(c)', captureTasks[c] # NoTask
               PROVE  captures'[c].key[2] > captureTasks[c].key[2]
    BY <1>1 DEF FilesNewer
  <2>1. captureTasks[c].key[2] <= restores
    BY DEF KeysInv, KeysOwn
  <2>2. CASE captures'[c] = captures[c]
    BY <2>2 DEF KeysInv, FilesNewer, Stored
  <2>3. CASE captures'[c].key[2] = restores + 1
    BY <1>3, <2>1, <2>3
  <2> QED BY <1>2, <2>2, <2>3
<1>6. TokensUnique'
  BY <1>1, UniqueKept DEF KeysInv
<1>7. \A c \in CaptureIds : Spent(c)' => Spent(c)
  BY <1>1, <1>2 DEF Spent, Stored
<1>8. TokensSpent'
  <2>1. lastToken <= lastToken'
    BY <1>1, KeyTypes DEF KeysInv
  <2> QED BY <1>1, <1>7, <2>1, SpentKept, ServerCaptures
<1>9. UploadsSpent'
  BY <1>1, <1>7, ServerCaptures DEF KeysInv, UploadsSpent
<1> QED BY <1>4, <1>5, <1>6, <1>8, <1>9 DEF KeysInv

LEMMA KeysSteps ==
  ASSUME ~("upload" \in Calls /\ "transfer" \in Calls)
  PROVE  KeysInv /\ [Next]_vars => KeysInv'
<1> SUFFICES ASSUME KeysInv, [Next]_vars PROVE KeysInv'
  OBVIOUS
<1>1. CapturesInv /\ CapturesInv'
  BY CapturesSteps DEF KeysInv
<1> QED
  BY <1>1, StepKinds, RowsKeys, ClaimKeys, StoreKeys, RemoveKeys, ExportKeys, RestoreKeys, CleanupKeys

LEMMA KeysStart == CapturesInit => KeysInv /\ CapturesReadable /\ FilesOwned
<1> SUFFICES ASSUME CapturesInit PROVE KeysInv /\ CapturesReadable /\ FilesOwned
  OBVIOUS
<1>1. CapturesInv
  BY CapturesStart
<1>2. /\ \A c \in CaptureIds : ~Stored(c) /\ captureTasks[c] = NoTask /\ archive.captures[c] = NoCapture
      /\ \A i \in ItemIds : items[i].token = NoToken
      /\ captureFiles = {}
  BY NoRowFacts DEF CapturesInit, ItemsInit, Stored, NoArchive
<1>3. KeysOwn /\ TokensUnique /\ FilesNewer /\ CapturesReadable /\ FilesOwned
  BY <1>2 DEF KeysOwn, TokensUnique, FilesNewer, CapturesReadable, FilesOwned
<1>4. TokensSpent /\ UploadsSpent
  BY <1>2, ServerCaptures DEF TokensSpent, UploadsSpent, Spent
<1> QED BY <1>1, <1>3, <1>4 DEF KeysInv

\* The file of a capture is only removed with it.
LEMMA ReadableKept ==
  ASSUME ~("upload" \in Calls /\ "transfer" \in Calls), "commit" \notin Mishaps,
         KeysInv, CapturesReadable, [Next]_vars
  PROVE  CapturesReadable'
<1>1. CapturesInv
  BY DEF KeysInv
<1>2. CASE RowsStep \/ ClaimStep \/ CallExport
  BY <1>2 DEF RowsStep, ClaimStep, CallExport, Export, CapturesReadable, Stored
<1>3. ASSUME NEW i \in ItemIds, NEW c \in CaptureIds, StoreStep(i, c)
      PROVE  CapturesReadable'
  <2>1. /\ captures'[c] = [item |-> i, key |-> <<c, 0>>]
        /\ \A b \in CaptureIds : b # c => captures'[b] = captures[b]
    BY <1>3 DEF StoreStep, KeysInv, CapturesInv, TypeInv, TablesTypeOK
  <2>2. captureFiles' = captureFiles \cup {<<c, 0>>}
    BY <1>3 DEF StoreStep
  <2> QED BY <2>1, <2>2 DEF CapturesReadable, Stored
<1>4. ASSUME NEW i \in ItemIds, RemoveStep(i)
      PROVE  CapturesReadable'
  BY <1>4, RemoveFacts DEF RemoveStep, CapturesReadable, Stored
<1>5. ASSUME NEW i \in ItemIds, NEW t \in ItemIds, RestoreStep(i, t)
      PROVE  CapturesReadable'
  <2>1. captureFiles' = captureFiles \cup {<<c, restores'>> : c \in Missing(i)}
    BY <1>5 DEF RestoreStep
  <2>2. \A c \in CaptureIds : \/ c \in Missing(i) /\ captures'[c].key = <<c, restores'>>
                              \/ captures'[c] = captures[c]
    BY <1>5, RestoreFacts
  <2> QED BY <2>1, <2>2 DEF CapturesReadable, Stored
<1>6. ASSUME NEW c \in CaptureIds, Cleanup(c)
      PROVE  CapturesReadable'
  <2>1. /\ captureTasks[c] # NoTask /\ UNCHANGED captures
        /\ captureFiles' = captureFiles \ {captureTasks[c].key}
    BY <1>1, <1>6, CleanupFacts
  <2> SUFFICES ASSUME NEW b \in CaptureIds, Stored(b) PROVE captures[b].key # captureTasks[c].key
    BY <2>1 DEF CapturesReadable, Stored
  <2>2. captures[b].key[1] = b /\ captureTasks[c].key[1] = c
    BY <2>1 DEF KeysInv, KeysOwn
  <2>3. b = c => captures[b].key[2] > captureTasks[c].key[2]
    BY <2>1 DEF KeysInv, FilesNewer
  <2>4. captures[b].key[2] \in Nat /\ captureTasks[c].key[2] \in Nat
    BY <1>1, KeyTypes
  <2>5. b = c => captures[b].key[2] # captureTasks[c].key[2]
    BY <2>3, <2>4
  <2> QED BY <2>2, <2>5
<1> QED BY <1>1, <1>2, <1>3, <1>4, <1>5, <1>6, StepKinds

\* No file is left behind by the step that ends its capture or its task.
LEMMA OwnedKept ==
  ASSUME "transfer" \notin Calls, "crash" \notin Mishaps,
         KeysInv, FilesOwned, [Next]_vars
  PROVE  FilesOwned'
<1>1. CapturesInv
  BY DEF KeysInv
<1>2. CASE RowsStep \/ ClaimStep
  BY <1>2 DEF RowsStep, ClaimStep, FilesOwned, Stored
<1>3. ASSUME NEW i \in ItemIds, NEW c \in CaptureIds, StoreStep(i, c)
      PROVE  FilesOwned'
  <2>1. /\ captures'[c] = [item |-> i, key |-> <<c, 0>>]
        /\ \A b \in CaptureIds : b # c => captures'[b] = captures[b]
        /\ ~Stored(c) /\ UNCHANGED captureTasks
    BY <1>3 DEF StoreStep, KeysInv, CapturesInv, TypeInv, TablesTypeOK
  <2>2. captureFiles' \subseteq captureFiles \cup {<<c, 0>>}
    BY <1>3 DEF StoreStep
  <2>3. Stored(c)' /\ captures'[c].key = <<c, 0>>
    BY <2>1, NumberFacts DEF Stored, NoCapture
  <2>4. \A b \in CaptureIds : Stored(b) => Stored(b)' /\ captures'[b] = captures[b]
    BY <2>1 DEF Stored
  <2> QED BY <2>1, <2>2, <2>3, <2>4 DEF FilesOwned
<1>4. ASSUME NEW i \in ItemIds, RemoveStep(i)
      PROVE  FilesOwned'
  <2>1. \A c \in CaptureIds :
         \/ /\ captures[c].item = i /\ Stored(c) /\ captures'[c] = NoCapture
            /\ captureTasks'[c] = IF captureTasks[c] = NoTask
                                  THEN [state |-> "queued", key |-> captures[c].key]
                                  ELSE captureTasks[c]
         \/ /\ captures[c].item # i /\ captures'[c] = captures[c]
            /\ captureTasks'[c] = captureTasks[c]
    BY <1>4, RemoveFacts
  <2>2. UNCHANGED captureFiles
    BY <1>4 DEF RemoveStep
  <2>3. \A c \in CaptureIds : Stored(c) => captureTasks[c] = NoTask
    <3>1. restores = 0
      BY <1>1 DEF CapturesInv, NothingMoved
    <3>2. \A c \in CaptureIds : Stored(c) => captures[c].key[2] <= 0
      BY <3>1 DEF KeysInv, KeysOwn
    <3>3. \A c \in CaptureIds : captures[c].key[2] \in Nat /\ captureTasks[c].key[2] \in Nat
      BY <1>1, KeyTypes
    <3>4. \A c \in CaptureIds : Stored(c) => ~(captures[c].key[2] > captureTasks[c].key[2])
      BY <3>2, <3>3
    <3> QED BY <3>4 DEF KeysInv, FilesNewer
  <2>4. \A c \in CaptureIds : Stored(c) =>
           \/ Stored(c)' /\ captures'[c] = captures[c]
           \/ captureTasks'[c] = [state |-> "queued", key |-> captures[c].key]
    BY <2>1, <2>3 DEF Stored
  <2>5. \A c \in CaptureIds : captureTasks[c] # NoTask => captureTasks'[c] = captureTasks[c]
    BY <2>1
  <2>6. \A k : [state |-> "queued", key |-> k] # NoTask
    BY DEF NoTask
  <2>7. \A c \in CaptureIds : \A k : captureTasks[c] = [state |-> "queued", key |-> k] =>
           captureTasks'[c] = [state |-> "queued", key |-> k]
    BY <2>5, <2>6
  <2> QED BY <2>2, <2>4, <2>7 DEF FilesOwned
<1>5. ASSUME NEW c \in CaptureIds, Cleanup(c)
      PROVE  FilesOwned'
  <2>1. /\ UNCHANGED captures /\ captureFiles' = captureFiles \ {captureTasks[c].key}
        /\ \A b \in CaptureIds : b # c => captureTasks'[b] = captureTasks[b]
    BY <1>1, <1>5, CleanupFacts
  <2>2. \A k : captureTasks[c] = [state |-> "queued", key |-> k] => k \notin captureFiles'
    BY <2>1
  <2> QED BY <2>1, <2>2 DEF FilesOwned, Stored
<1> QED BY <1>1, <1>2, <1>3, <1>4, <1>5, StepKinds DEF CallExport, Call, RestoreStep

\* OpenCapture finds the file of every capture: cleanup, however late, deletes
\* files of removed captures only.  A commit whose answer is lost breaks it (the
\* file is removed, the row stays), and so may an upload that is repeated after
\* its item was restored under its old id, whose key a task may still delete.
THEOREM CapturesCanBeOpened ==
  ASSUME ~("upload" \in Calls /\ "transfer" \in Calls), "commit" \notin Mishaps
  PROVE  Spec => []CapturesReadable
<1>1. KeysInv /\ CapturesReadable /\ [Next]_vars => KeysInv' /\ CapturesReadable'
  BY KeysSteps, ReadableKept
<1> QED BY <1>1, KeysStart, PTL DEF Spec

\* Delete queues the file of every capture it drops (workers.go), so no file is
\* forgotten by a server that does not crash between a file and its row.  Of a
\* capture that was restored the deletion task exists already and is kept.
THEOREM NoCaptureFileIsForgotten ==
  ASSUME "transfer" \notin Calls, "crash" \notin Mishaps
  PROVE  Spec => []CaptureFilesAccounted
<1>1. KeysInv /\ FilesOwned /\ [Next]_vars => KeysInv' /\ FilesOwned'
  BY KeysSteps, OwnedKept
<1>2. FilesOwned => CaptureFilesAccounted
  BY DEF FilesOwned, CaptureFilesAccounted
<1> QED BY <1>1, <1>2, KeysStart, PTL DEF Spec

=============================================================================
