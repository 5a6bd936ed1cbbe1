--------------------------- MODULE SearchIndexProofs ---------------------------
(***************************************************************************)
(* The index agrees with the database: what is marked as indexed is, and   *)
(* what was removed is gone, for every number of items, servers, changes   *)
(* and faults.                                                             *)
(***************************************************************************)
EXTENDS SearchIndex, TLAPS

CaptureStates ==
    {"none", "queued", "capturing", "complete", "blocked", "failed", "not_captured"}
Titles == {"given", "captured", "edited"}
Texts == Nat \X Nat
Rows == [url : Urls \cup {NoUrl}, capture : CaptureStates, token : Nat, until : Nat,
         due : Nat, attempts : Nat, text : Texts, title : Titles, edited : BOOLEAN,
         tags : SUBSET Tags, suggested : SUBSET Tags,
         enrich : {"pending", "complete", "failed"}, version : Nat, indexed : Nat,
         bad : BOOLEAN]
Documents == [title : Titles, tags : SUBSET Tags, text : Texts, capture : CaptureStates]
Tasks == [task : Nat, op : {"upsert", "delete"}, item : ItemIds, doc : Documents]
Servers == [pc : {"idle", "send", "wait"}, op : {"none", "upsert", "delete"},
            item : Nat, version : Nat, doc : Documents, task : Nat, alive : BOOLEAN]

IndexTypes ==
    /\ items \in [ItemIds -> Rows] /\ archive.items \in [ItemIds -> Rows]
    /\ gone \subseteq ItemIds /\ lastItem \in Nat /\ lastToken \in Nat /\ restores \in Nat
    /\ indexer \in [Indexers -> Servers]
    /\ \A w \in Indexers : indexer[w].pc # "idle" =>
           indexer[w].op \in {"upsert", "delete"} /\ indexer[w].item \in ItemIds
    /\ queue \in Seq(Tasks) /\ lastTask \in Nat /\ index \in [ItemIds -> Documents]

\* Who does anything holds the lock.
OneAtATime == \A w \in Indexers : indexer[w].pc # "idle" => lock = w

\* The task of a server is the last one of the queue, and once it is through
\* nothing else is to come.
TaskOf(u) == [task |-> u.task, op |-> u.op, item |-> u.item, doc |-> u.doc]
Outcome(t) == IF t.op = "upsert" THEN t.doc ELSE NoDoc
LastInQueue ==
    \A w \in Indexers : indexer[w].pc = "wait" =>
        /\ indexer[w].task = lastTask
        /\ queue # <<>> => queue[Len(queue)] = TaskOf(indexer[w])
        /\ queue = <<>> /\ lastTask \notin refused =>
              index[indexer[w].item] = Outcome(TaskOf(indexer[w]))

\* What is uploaded is there or waits to be removed.
UploadsKnown ==
    \A w \in Indexers : indexer[w].pc # "idle" /\ indexer[w].op = "upsert" =>
        Saved(indexer[w].item) \/ indexer[w].item \in gone

\* While nothing was restored: ids are given out once, and versions grow.
RowsInOrder ==
    \A i \in ItemIds :
        /\ items[i].indexed <= items[i].version
        /\ Saved(i) => items[i].version > 0 /\ i <= lastItem
        /\ i \in gone => ~Saved(i) /\ i <= lastItem

\* A server has the document of the version it read, of an item that is still
\* dirty.
SameShown(d, r) == Shown(d) = Shown(Projection(r))
DocsInOrder ==
    \A w \in Indexers : indexer[w].pc # "idle" =>
        LET u == indexer[w] IN
        /\ u.item <= lastItem
        /\ u.op = "delete" => ~Saved(u.item)
        /\ u.op = "upsert" /\ Saved(u.item) =>
              /\ Dirty(u.item) /\ u.version <= items[u.item].version
              /\ u.version = items[u.item].version => SameShown(u.doc, items[u.item])

\* A clean item is found as it is, and no task can change that.
CleanStays ==
    \A i \in ItemIds : Saved(i) /\ ~Dirty(i) =>
        /\ SameShown(index[i], items[i])
        /\ \A k \in DOMAIN queue : queue[k].item # i

\* What was removed is not found, and no upload can change that.
RemovedStays ==
    \A i \in ItemIds : ~Saved(i) /\ i \notin gone =>
        /\ index[i] = NoDoc
        /\ \A k \in DOMAIN queue : queue[k].item = i => queue[k].op = "delete"

Ordered == OneAtATime /\ LastInQueue /\ UploadsKnown /\ RemovedStays
Original == RowsInOrder /\ DocsInOrder /\ CleanStays

\* The inductive invariant.
IndexInv ==
    /\ IndexTypes
    /\ ~unlocked => Ordered
    /\ ~unlocked /\ restores = 0 => Original

-----------------------------------------------------------------------------
(* What the statements make of a row *)

\* The version grows, or what is shown stays; the mark stays or is reset.
RowFollows(r, s) ==
    /\ s \in Rows /\ s.capture # "none"
    /\ s.indexed = r.indexed \/ s.indexed = 0
    /\ \/ s.version > r.version
       \/ s.version = r.version /\ Shown(Projection(s)) = Shown(Projection(r))

LEMMA RowFields ==
  ASSUME NEW r \in Rows
  PROVE  /\ r.url \in Urls \cup {NoUrl} /\ r.capture \in CaptureStates /\ r.token \in Nat
         /\ r.until \in Nat /\ r.due \in Nat /\ r.attempts \in Nat /\ r.text \in Texts
         /\ r.title \in Titles /\ r.tags \in SUBSET Tags
         /\ r.suggested \in SUBSET Tags /\ r.enrich \in {"pending", "complete", "failed"}
         /\ r.version \in Nat /\ r.indexed \in Nat
         /\ r.edited \in BOOLEAN /\ r.bad \in BOOLEAN
  BY DEF Rows

LEMMA TextTypes == NoText \in Texts /\ ApprovedText \in Texts
  BY ItemsAssumption DEF NoText, ApprovedText, Texts

LEMMA NoRowFacts ==
  NoItemRow \in Rows /\ NoItemRow.capture = "none"
  /\ NoItemRow.version = 0 /\ NoItemRow.indexed = 0
  BY TextTypes DEF NoItemRow, Rows, CaptureStates, Titles, NoToken

LEMMA NewItemFacts ==
  ASSUME NEW u \in Urls
  PROVE  /\ NewItem(u, {}) \in Rows /\ NewItem(u, {}).capture = "queued"
         /\ NewItem(u, {}).version = 1 /\ NewItem(u, {}).indexed = 0
  BY TextTypes DEF NewItem, NoItemRow, Rows, CaptureStates, Titles, NoToken

LEMMA EditedFacts ==
  ASSUME NEW r \in Rows, r.capture # "none", NEW tags \in SUBSET Tags
  PROVE  RowFollows(r, Edited(r, tags))
<1> DEFINE s == Edited(r, tags)
<1>1. r.version + 1 \in Nat /\ "edited" \in Titles /\ TRUE \in BOOLEAN
  BY RowFields DEF Titles
<1>2. s \in Rows
  BY <1>1, Zenon DEF Edited, Touched, Rows
<1>3. s.capture = r.capture /\ s.indexed = r.indexed /\ s.version = r.version + 1
  BY RowFields DEF Edited, Touched, Rows
<1> HIDE DEF s
<1>4. s.version > r.version
  BY <1>3, RowFields
<1> QED BY <1>2, <1>3, <1>4 DEF s, RowFollows

LEMMA CaptureFailedFacts ==
  ASSUME NEW r \in Rows, r.capture # "none", NEW attempts
  PROVE  RowFollows(r, CaptureFailed(r, attempts))
<1> DEFINE s == CaptureFailed(r, attempts)
           c == IF TriedAgain(attempts) THEN "queued" ELSE "failed"
<1>1. r.version + 1 \in Nat /\ c \in CaptureStates /\ c # "none"
      /\ CaptureWait \in Nat /\ NoToken \in Nat /\ 0 \in Nat
  BY RowFields, ItemsAssumption DEF CaptureStates, NoToken
<1>2. s \in Rows
  BY <1>1, Zenon DEF CaptureFailed, Touched, Rows
<1>3. s.capture = c /\ s.indexed = r.indexed /\ s.version = r.version + 1
  BY RowFields DEF CaptureFailed, Touched, Rows
<1> HIDE DEF s, c
<1>4. s.version > r.version
  BY <1>3, RowFields
<1> QED BY <1>1, <1>2, <1>3, <1>4 DEF s, RowFollows

LEMMA CaptureStoredFacts ==
  ASSUME NEW r \in Rows, r.capture # "none", NEW c \in Texts
  PROVE  RowFollows(r, CaptureStored(r, c, "page"))
<1> DEFINE s == CaptureStored(r, c, "page")
<1>1. r.version + 1 \in Nat /\ StatusOf("page") = "complete" /\ "complete" \in CaptureStates
      /\ NoToken \in Nat /\ 0 \in Nat
  BY RowFields DEF CaptureStates, NoToken, StatusOf
<1>2. TitleOf(r, "page") \in Titles /\ TextOf(r, c, "page") \in Texts
  BY RowFields DEF TitleOf, TextOf, Titles
<1>3. s \in Rows
  BY <1>1, <1>2, Zenon DEF CaptureStored, ClassifiedAgain, Touched, Rows
<1>4. s.capture = StatusOf("page") /\ s.indexed = r.indexed /\ s.version = r.version + 1
  BY RowFields DEF CaptureStored, ClassifiedAgain, Touched, Rows
<1> HIDE DEF s
<1>5. s.version > r.version
  BY <1>4, RowFields
<1> QED BY <1>1, <1>3, <1>4, <1>5 DEF s, RowFollows

\* A claim shows nothing new.
LEMMA ClaimedFacts ==
  ASSUME NEW r \in Rows, r.capture \in {"queued", "capturing"}, NEW token \in Nat
  PROVE  RowFollows(r, CaptureClaimed(r, token))
<1> DEFINE s == CaptureClaimed(r, token)
<1>1. "capturing" \in CaptureStates /\ CaptureTicks \in Nat /\ r.attempts + 1 \in Nat
  BY RowFields, ItemsAssumption DEF CaptureStates
<1>2. s \in Rows
  BY <1>1, Zenon DEF CaptureClaimed, Rows
<1>3. /\ s.capture = "capturing" /\ s.indexed = r.indexed /\ s.version = r.version
      /\ s.title = r.title /\ s.tags = r.tags /\ s.text = r.text
  BY RowFields DEF CaptureClaimed, Rows
<1> HIDE DEF s
<1>4. Shown(Projection(s)) = Shown(Projection(r))
  <2>1. Shown(Projection(s)) = [title |-> r.title, tags |-> r.tags, text |-> r.text,
                                capture |-> "queued"]
    BY <1>3 DEF Shown, Projection
  <2>2. Shown(Projection(r)) = [title |-> r.title, tags |-> r.tags, text |-> r.text,
                                capture |-> "queued"]
    BY DEF Shown, Projection
  <2> QED BY <2>1, <2>2
<1> QED BY <1>2, <1>3, <1>4 DEF s, RowFollows

\* The two marks of indexing say nothing of the item.
Marked(r, n, bad) == [r EXCEPT !.indexed = n, !.bad = bad]

LEMMA MarkedFacts ==
  ASSUME NEW r \in Rows, NEW n \in Nat, NEW bad \in BOOLEAN
  PROVE  /\ Marked(r, n, bad) \in Rows /\ Marked(r, n, bad).capture = r.capture
         /\ Marked(r, n, bad).version = r.version /\ Marked(r, n, bad).indexed = n
         /\ Shown(Projection(Marked(r, n, bad))) = Shown(Projection(r))
<1> DEFINE s == Marked(r, n, bad)
<1>1. s \in Rows
  BY Zenon DEF Marked, Rows
<1>2. /\ s.capture = r.capture /\ s.indexed = n /\ s.version = r.version
      /\ s.title = r.title /\ s.tags = r.tags /\ s.text = r.text
  BY RowFields DEF Marked, Rows
<1> HIDE DEF s
<1>3. Projection(s) = Projection(r)
  BY <1>2 DEF Projection
<1> QED BY <1>1, <1>2, <1>3 DEF s

LEMMA ErrorFacts ==
  ASSUME NEW r \in Rows, r.capture # "none"
  PROVE  RowFollows(r, [r EXCEPT !.bad = TRUE])
<1> DEFINE s == [r EXCEPT !.bad = TRUE]
<1>1. s \in Rows
  BY Zenon DEF Rows
<1>2. /\ s.capture = r.capture /\ s.indexed = r.indexed /\ s.version = r.version
      /\ s.title = r.title /\ s.tags = r.tags /\ s.text = r.text
  BY RowFields DEF Rows
<1> HIDE DEF s
<1>3. Projection(s) = Projection(r)
  BY <1>2 DEF Projection
<1> QED BY <1>1, <1>2, <1>3 DEF s, RowFollows

LEMMA RestoredFacts ==
  ASSUME NEW r \in Rows
  PROVE  /\ Restored(r) \in Rows
         /\ Marked(Touched(r), 0, FALSE) \in Rows
         /\ Marked(Touched(r), 0, FALSE).capture = r.capture
<1> DEFINE q == IF r.capture \in {"queued", "capturing"} THEN "not_captured" ELSE r.capture
<1>1. /\ q \in CaptureStates /\ r.tags \cup r.suggested \in SUBSET Tags
      /\ NoToken \in Nat /\ 0 \in Nat /\ 1 \in Nat /\ r.version + 1 \in Nat
  BY RowFields DEF CaptureStates, NoToken
<1>2. Restored(r) \in Rows
  BY <1>1, ZenonT(30) DEF Restored, Rows
<1>3. Touched(r) \in Rows
  BY <1>1, Zenon DEF Touched, Rows
<1>4. Touched(r).capture = r.capture
  BY RowFields DEF Touched, Rows
<1> QED BY <1>2, <1>3, <1>4, MarkedFacts

LEMMA ProjectionType == ASSUME NEW r \in Rows PROVE Projection(r) \in Documents
  BY RowFields DEF Projection, Documents

LEMMA QuietFacts ==
  /\ NoDoc \in Documents /\ Quiet \in Servers /\ Quiet.pc = "idle"
  /\ Quiet = [pc |-> "idle", op |-> "none", item |-> NoItem, version |-> 0,
              doc |-> NoDoc, task |-> 0, alive |-> TRUE]
<1>1. NoDoc \in Documents
  BY TextTypes DEF NoDoc, Documents, Titles, CaptureStates
<1>2. Quiet \in Servers /\ Quiet.pc = "idle"
  BY <1>1 DEF Quiet, Servers, NoItem
<1> QED BY <1>1, <1>2 DEF Quiet

-----------------------------------------------------------------------------
(* What the parts of the invariant need of a step *)

\* What a transaction that is not about the index does to one item of a library
\* into which nothing was restored.
ItemMoves(i) ==
    \/ /\ items'[i] = items[i] \/ (Saved(i) /\ RowFollows(items[i], items'[i]))
       /\ i \in gone' => i \in gone
    \/ /\ ~Saved(i) /\ lastItem < i /\ i <= lastItem' /\ i \notin gone'
       /\ items'[i].capture # "none" /\ items'[i].version = 1 /\ items'[i].indexed = 0
    \/ Saved(i) /\ items'[i] = NoItemRow

\* And what it does to any library.
Moves ==
    /\ items' \in [ItemIds -> Rows] /\ gone \subseteq gone' /\ gone' \subseteq ItemIds
    /\ lastItem' \in Nat /\ lastItem <= lastItem' /\ restores' \in Nat
    /\ restores' = 0 => restores = 0
    /\ \A i \in ItemIds : Saved(i) /\ items'[i].capture = "none" => i \in gone'
    /\ ~unlocked /\ restores' = 0 => \A i \in ItemIds : ItemMoves(i)

\* A server goes on with what it has, or rests.
Carries(u, v) ==
    u.pc # "idle" => /\ v.pc # "idle" /\ u.op = v.op /\ u.item = v.item
                     /\ u.version = v.version /\ u.doc = v.doc
Carried == \A w \in Indexers : Carries(indexer'[w], indexer[w])

\* A task may come from a server that has it to do.
Queued ==
    \A k \in DOMAIN queue' :
        \/ k \in DOMAIN queue /\ queue'[k] = queue[k]
        \/ \E w \in Indexers : /\ indexer[w].pc # "idle"
                               /\ queue'[k].item = indexer[w].item
                               /\ queue'[k].op = indexer[w].op

LEMMA RowFacts ==
  ASSUME IndexTypes, NEW i \in ItemIds
  PROVE  /\ items[i] \in Rows /\ items[i].version \in Nat /\ items[i].indexed \in Nat
         /\ i \in Nat /\ lastItem \in Nat
  BY RowFields DEF IndexTypes, ItemIds

LEMMA RowsMove ==
  ASSUME IndexTypes, RowsInOrder, Moves, ~unlocked, restores' = 0
  PROVE  RowsInOrder'
<1> SUFFICES ASSUME NEW i \in ItemIds
             PROVE  /\ items'[i].indexed <= items'[i].version
                    /\ items'[i].capture # "none" => items'[i].version > 0 /\ i <= lastItem'
                    /\ i \in gone' => items'[i].capture = "none" /\ i <= lastItem'
  BY DEF RowsInOrder, Saved
<1>1. /\ items[i].version \in Nat /\ items[i].indexed \in Nat
      /\ i \in Nat /\ lastItem \in Nat /\ lastItem' \in Nat /\ lastItem <= lastItem'
  BY RowFacts DEF Moves
<1>2. items'[i].version \in Nat /\ items'[i].indexed \in Nat
  BY RowFields DEF Moves
<1>3. /\ items[i].indexed <= items[i].version
      /\ items[i].capture # "none" => items[i].version > 0 /\ i <= lastItem
      /\ i \in gone => items[i].capture = "none" /\ i <= lastItem
  BY DEF RowsInOrder, Saved
<1>4. ItemMoves(i)
  BY DEF Moves
<1>5. CASE items'[i] = items[i] /\ (i \in gone' => i \in gone)
  BY <1>1, <1>3, <1>5
<1>6. CASE Saved(i) /\ RowFollows(items[i], items'[i]) /\ (i \in gone' => i \in gone)
  BY <1>1, <1>2, <1>3, <1>6 DEF RowFollows, Saved
<1>7. CASE /\ ~Saved(i) /\ lastItem < i /\ i <= lastItem' /\ i \notin gone'
           /\ items'[i].capture # "none" /\ items'[i].version = 1 /\ items'[i].indexed = 0
  BY <1>7
<1>8. CASE Saved(i) /\ items'[i] = NoItemRow
  BY <1>1, <1>3, <1>8, NoRowFacts DEF Saved
<1> QED BY <1>4, <1>5, <1>6, <1>7, <1>8 DEF ItemMoves

LEMMA DocsMove ==
  ASSUME IndexTypes, RowsInOrder, DocsInOrder, Moves, ~unlocked, restores' = 0, Carried
  PROVE  DocsInOrder'
<1> SUFFICES ASSUME NEW w \in Indexers, indexer'[w].pc # "idle"
             PROVE  LET u == indexer'[w] IN
                    /\ u.item <= lastItem'
                    /\ u.op = "delete" => items'[u.item].capture = "none"
                    /\ u.op = "upsert" /\ items'[u.item].capture # "none" =>
                          /\ items'[u.item].indexed < items'[u.item].version
                          /\ u.version <= items'[u.item].version
                          /\ u.version = items'[u.item].version =>
                                Shown(u.doc) = Shown(Projection(items'[u.item]))
  BY DEF DocsInOrder, Saved, Dirty, SameShown
<1>0. indexer[w].pc # "idle" /\ indexer[w].item \in ItemIds
  BY DEF Carried, Carries, IndexTypes
<1>1. PICK i \in ItemIds : i = indexer[w].item
  BY <1>0
<1>2. PICK op, version, doc :
          /\ op = indexer[w].op /\ version = indexer[w].version /\ doc = indexer[w].doc
          /\ indexer'[w].op = op /\ indexer'[w].version = version
          /\ indexer'[w].doc = doc /\ indexer'[w].item = i
  BY <1>1 DEF Carried, Carries
<1>3. /\ i <= lastItem
      /\ op = "delete" => items[i].capture = "none"
      /\ op = "upsert" /\ items[i].capture # "none" =>
            /\ items[i].indexed < items[i].version
            /\ version <= items[i].version
            /\ version = items[i].version => Shown(doc) = Shown(Projection(items[i]))
  BY <1>0, <1>1, <1>2 DEF DocsInOrder, Saved, Dirty, SameShown
<1>4. /\ items[i].version \in Nat /\ items[i].indexed \in Nat /\ version \in Nat
      /\ i \in Nat /\ lastItem \in Nat /\ lastItem' \in Nat /\ lastItem <= lastItem'
  BY <1>2, RowFacts DEF Moves, IndexTypes, Servers
<1>5. items'[i].version \in Nat /\ items'[i].indexed \in Nat
  BY RowFields DEF Moves
<1>6. ItemMoves(i)
  BY DEF Moves
<1> SUFFICES /\ i <= lastItem'
             /\ op = "delete" => items'[i].capture = "none"
             /\ op = "upsert" /\ items'[i].capture # "none" =>
                   /\ items'[i].indexed < items'[i].version
                   /\ version <= items'[i].version
                   /\ version = items'[i].version =>
                         Shown(doc) = Shown(Projection(items'[i]))
  BY <1>2
<1>7. CASE items'[i] = items[i]
  BY <1>3, <1>4, <1>7
<1>8. CASE Saved(i) /\ RowFollows(items[i], items'[i])
  BY <1>3, <1>4, <1>5, <1>8 DEF RowFollows, Saved
<1>9. CASE lastItem < i
  BY <1>3, <1>4, <1>9
<1>10. CASE items'[i] = NoItemRow
  BY <1>3, <1>4, <1>10, NoRowFacts
<1> QED BY <1>6, <1>7, <1>8, <1>9, <1>10 DEF ItemMoves

LEMMA CleanMove ==
  ASSUME IndexTypes, RowsInOrder, DocsInOrder, CleanStays, Moves,
         ~unlocked, restores' = 0, Queued, index' = index
  PROVE  CleanStays'
<1> SUFFICES ASSUME NEW i \in ItemIds, items'[i].capture # "none",
                    ~(items'[i].indexed < items'[i].version)
             PROVE  /\ Shown(index[i]) = Shown(Projection(items'[i]))
                    /\ \A k \in DOMAIN queue' : queue'[k].item # i
  BY DEF CleanStays, Saved, Dirty, SameShown
<1>1. /\ items[i].version \in Nat /\ items[i].indexed \in Nat
      /\ items'[i].version \in Nat /\ items'[i].indexed \in Nat
  BY RowFacts, RowFields DEF Moves
<1>2. /\ items[i].indexed <= items[i].version
      /\ items[i].capture # "none" => items[i].version > 0
  BY DEF RowsInOrder, Saved
<1>3. ItemMoves(i)
  BY DEF Moves
<1>4. /\ items[i].capture # "none" /\ ~(items[i].indexed < items[i].version)
      /\ Shown(Projection(items'[i])) = Shown(Projection(items[i]))
  <2>1. CASE items'[i] = items[i]
    BY <2>1
  <2>2. CASE Saved(i) /\ RowFollows(items[i], items'[i])
    BY <1>1, <1>2, <2>2 DEF RowFollows, Saved
  <2>3. CASE items'[i].version = 1 /\ items'[i].indexed = 0
    BY <2>3
  <2>4. CASE items'[i] = NoItemRow
    BY <2>4, NoRowFacts
  <2> QED BY <1>3, <2>1, <2>2, <2>3, <2>4 DEF ItemMoves
<1>5. Shown(index[i]) = Shown(Projection(items[i])) /\ \A k \in DOMAIN queue : queue[k].item # i
  BY <1>4 DEF CleanStays, Saved, Dirty, SameShown
<1>6. ASSUME NEW w \in Indexers, indexer[w].pc # "idle", indexer[w].item = i
      PROVE  FALSE
  <2>1. indexer[w].op \in {"upsert", "delete"}
    BY <1>6 DEF IndexTypes
  <2> QED BY <1>4, <1>6, <2>1 DEF DocsInOrder, Saved, Dirty
<1>7. \A k \in DOMAIN queue' : queue'[k].item # i
  BY <1>5, <1>6 DEF Queued
<1> QED BY <1>4, <1>5, <1>7

LEMMA KnownMove ==
  ASSUME IndexTypes, UploadsKnown, Moves, Carried
  PROVE  UploadsKnown'
<1> SUFFICES ASSUME NEW w \in Indexers, indexer'[w].pc # "idle", indexer'[w].op = "upsert"
             PROVE  items'[indexer'[w].item].capture # "none" \/ indexer'[w].item \in gone'
  BY DEF UploadsKnown, Saved
<1>1. /\ indexer[w].pc # "idle" /\ indexer[w].op = "upsert"
      /\ indexer'[w].item = indexer[w].item /\ indexer[w].item \in ItemIds
  BY DEF Carried, Carries, IndexTypes
<1>2. Saved(indexer[w].item) \/ indexer[w].item \in gone
  BY <1>1 DEF UploadsKnown
<1> QED BY <1>1, <1>2 DEF Moves

LEMMA RemovedMove ==
  ASSUME IndexTypes, UploadsKnown, RemovedStays, Moves, Queued, index' = index
  PROVE  RemovedStays'
<1> SUFFICES ASSUME NEW i \in ItemIds, items'[i].capture = "none", i \notin gone'
             PROVE  /\ index[i] = NoDoc
                    /\ \A k \in DOMAIN queue' : queue'[k].item = i => queue'[k].op = "delete"
  BY DEF RemovedStays, Saved
<1>1. ~Saved(i) /\ i \notin gone
  BY DEF Moves
<1>2. /\ index[i] = NoDoc
      /\ \A k \in DOMAIN queue : queue[k].item = i => queue[k].op = "delete"
  BY <1>1 DEF RemovedStays
<1>3. ASSUME NEW w \in Indexers, indexer[w].pc # "idle", indexer[w].item = i
      PROVE  indexer[w].op = "delete"
  BY <1>1, <1>3 DEF UploadsKnown, IndexTypes
<1> QED BY <1>2, <1>3 DEF Queued

-----------------------------------------------------------------------------
(* The transactions of everyone else *)

LEMMA StillMoves ==
  ASSUME IndexInv, UNCHANGED <<items, gone, lastItem, restores>>
  PROVE  Moves
  BY DEF IndexInv, IndexTypes, Moves, ItemMoves, Saved

LEMMA PutMoves ==
  ASSUME IndexInv, NEW i \in ItemIds, NEW row, items' = [items EXCEPT ![i] = row],
         Saved(i), RowFollows(items[i], row), UNCHANGED <<gone, lastItem, restores>>
  PROVE  Moves
<1>1. items \in [ItemIds -> Rows] /\ row \in Rows /\ row.capture # "none"
  BY DEF IndexInv, IndexTypes, RowFollows
<1>2. /\ items' \in [ItemIds -> Rows] /\ items'[i] = row
      /\ \A k \in ItemIds : k # i => items'[k] = items[k]
  BY <1>1
<1>3. \A k \in ItemIds : ItemMoves(k)
  BY <1>2 DEF ItemMoves
<1>4. \A k \in ItemIds : Saved(k) /\ items'[k].capture = "none" => k \in gone'
  BY <1>1, <1>2 DEF Saved
<1>5. gone \subseteq ItemIds /\ lastItem \in Nat /\ restores \in Nat
  BY DEF IndexInv, IndexTypes
<1> QED BY <1>2, <1>3, <1>4, <1>5 DEF Moves

LEMMA SaveMoves ==
  ASSUME IndexInv, NEW u \in Urls, Save(u, {}) PROVE Moves
<1>1. UNCHANGED <<gone, restores>> /\ gone \subseteq ItemIds /\ lastItem \in Nat
      /\ restores \in Nat /\ items \in [ItemIds -> Rows]
  BY DEF IndexInv, IndexTypes, Save
<1>2. CASE UNCHANGED <<items, lastItem>>
  BY <1>1, <1>2, StillMoves
<1>3. CASE /\ lastItem < MaxItems /\ lastItem' = lastItem + 1
           /\ PutItem(lastItem + 1, NewItem(u, {}))
  <2> DEFINE n == lastItem + 1
             row == NewItem(u, {})
  <2>1. /\ row \in Rows /\ row.capture = "queued" /\ row.version = 1 /\ row.indexed = 0
    BY NewItemFacts
  <2> HIDE DEF row
  <2>2. n \in ItemIds /\ n \in Nat
    BY <1>1, <1>3, ItemsAssumption DEF ItemIds
  <2>3. items' = [items EXCEPT ![n] = row]
    BY <1>3 DEF PutItem, row
  <2>4. lastItem' = n /\ lastItem < n /\ n <= lastItem' /\ lastItem' \in Nat
        /\ lastItem <= lastItem'
    BY <1>1, <1>3
  <2> HIDE DEF n
  <2>5. /\ items' \in [ItemIds -> Rows] /\ items'[n] = row
        /\ \A k \in ItemIds : k # n => items'[k] = items[k]
    BY <1>1, <2>1, <2>2, <2>3
  <2>6. \A k \in ItemIds : Saved(k) /\ items'[k].capture = "none" => k \in gone'
    BY <2>1, <2>5 DEF Saved
  <2>7. ASSUME ~unlocked, restores' = 0, NEW k \in ItemIds
        PROVE  ItemMoves(k)
    <3>1. ~Saved(n) /\ n \notin gone
      <4>1. RowsInOrder
        BY <1>1, <2>7 DEF IndexInv, Original
      <4>2. ~(n <= lastItem)
        BY <1>1, <2>2, <2>4
      <4> QED BY <2>2, <4>1, <4>2 DEF RowsInOrder
    <3> QED BY <1>1, <2>1, <2>4, <2>5, <3>1 DEF ItemMoves
  <2> QED BY <1>1, <2>4, <2>5, <2>6, <2>7 DEF Moves
<1> QED BY <1>2, <1>3 DEF Save

LEMMA DeleteMoves ==
  ASSUME IndexInv, NEW i \in ItemIds, NEW u, Saved(i), DeleteItem(i, u) PROVE Moves
<1>1. /\ gone' = gone \cup {i} /\ items' = [items EXCEPT ![i] = NoItemRow]
      /\ UNCHANGED <<lastItem, restores>>
  BY DEF DeleteItem, RecordRemoval, PutItem
<1>2. items \in [ItemIds -> Rows] /\ gone \subseteq ItemIds /\ lastItem \in Nat
      /\ restores \in Nat
  BY DEF IndexInv, IndexTypes
<1>3. /\ items' \in [ItemIds -> Rows] /\ items'[i] = NoItemRow
      /\ \A k \in ItemIds : k # i => items'[k] = items[k]
  BY <1>1, <1>2, NoRowFacts
<1>4. \A k \in ItemIds : ItemMoves(k)
  BY <1>1, <1>3 DEF ItemMoves
<1>5. \A k \in ItemIds : Saved(k) /\ items'[k].capture = "none" => k \in gone'
  BY <1>1, <1>3 DEF Saved
<1> QED BY <1>1, <1>2, <1>3, <1>4, <1>5 DEF Moves

LEMMA RestoreMoves ==
  ASSUME IndexInv, NEW i \in ItemIds, RestoreItem(i) PROVE Moves
<1> DEFINE old == archive.items[i]
           target == IF Saved(i) \/ At(old.url) = {} THEN i
                     ELSE CHOOSE k \in At(old.url) : TRUE
           row == IF Saved(target) THEN items[target] ELSE Restored(old)
           new == Marked(Touched(row), 0, FALSE)
<1>1. /\ items' = [items EXCEPT ![target] = new]
      /\ restores' = restores + 1 /\ UNCHANGED <<gone, lastItem>>
  BY Zenon DEF RestoreItem, PutItem, Marked
<1>2. items \in [ItemIds -> Rows] /\ gone \subseteq ItemIds /\ lastItem \in Nat
      /\ restores \in Nat /\ old \in Rows
  BY DEF IndexInv, IndexTypes
<1>3. target \in ItemIds
  <2>1. CASE Saved(i) \/ At(old.url) = {}
    BY <2>1
  <2>2. CASE ~(Saved(i) \/ At(old.url) = {})
    <3>1. At(old.url) # {} /\ At(old.url) \subseteq ItemIds
      BY <2>2 DEF At
    <3>2. (CHOOSE k \in At(old.url) : TRUE) \in At(old.url)
      BY <3>1, Zenon
    <3> QED BY <2>2, <3>1, <3>2, Zenon
  <2> QED BY <2>1, <2>2
<1> HIDE DEF target
<1>4. row \in Rows /\ (Saved(target) => row.capture # "none")
  BY <1>2, <1>3, RestoredFacts DEF Saved
<1> HIDE DEF row
<1>5. new \in Rows /\ (Saved(target) => new.capture # "none")
  BY <1>4, RestoredFacts
<1> HIDE DEF new
<1>6. /\ items' \in [ItemIds -> Rows] /\ items'[target] = new
      /\ \A k \in ItemIds : k # target => items'[k] = items[k]
  BY <1>1, <1>2, <1>3, <1>5
<1>7. \A k \in ItemIds : Saved(k) /\ items'[k].capture = "none" => k \in gone'
  BY <1>5, <1>6 DEF Saved
<1>8. restores' \in Nat /\ restores' # 0
  BY <1>1, <1>2
<1> QED BY <1>1, <1>2, <1>6, <1>7, <1>8 DEF Moves

LEMMA ReindexMoves == ASSUME IndexInv, Reindex PROVE Moves
<1> DEFINE Row(k) == IF Saved(k) THEN Marked(items[k], 0, FALSE) ELSE items[k]
<1>1. items' = [k \in ItemIds |-> Row(k)] /\ UNCHANGED <<gone, lastItem, restores>>
  BY Zenon DEF Reindex, Marked
<1>2. items \in [ItemIds -> Rows] /\ gone \subseteq ItemIds /\ lastItem \in Nat
      /\ restores \in Nat
  BY DEF IndexInv, IndexTypes
<1>3. ASSUME NEW k \in ItemIds
      PROVE  /\ Row(k) \in Rows
             /\ Saved(k) => RowFollows(items[k], Row(k)) /\ Row(k).capture # "none"
             /\ ~Saved(k) => Row(k) = items[k]
  <2>1. items[k] \in Rows
    BY <1>2
  <2>2. /\ Marked(items[k], 0, FALSE) \in Rows
        /\ Marked(items[k], 0, FALSE).capture = items[k].capture
        /\ Marked(items[k], 0, FALSE).version = items[k].version
        /\ Marked(items[k], 0, FALSE).indexed = 0
        /\ Shown(Projection(Marked(items[k], 0, FALSE))) = Shown(Projection(items[k]))
    BY <2>1, MarkedFacts
  <2> QED BY <2>1, <2>2 DEF RowFollows, Saved
<1> HIDE DEF Row
<1>4. items' \in [ItemIds -> Rows] /\ \A k \in ItemIds : items'[k] = Row(k)
  BY <1>1, <1>3
<1>5. \A k \in ItemIds : ItemMoves(k)
  BY <1>1, <1>3, <1>4 DEF ItemMoves
<1>6. \A k \in ItemIds : Saved(k) /\ items'[k].capture = "none" => k \in gone'
  BY <1>3, <1>4
<1> QED BY <1>1, <1>2, <1>4, <1>5, <1>6 DEF Moves

LEMMA RowOnlyMoves ==
  ASSUME IndexInv, NEW i \in ItemIds, Saved(i), NEW row, RowFollows(items[i], row),
         RowOnly(i, row)
  PROVE  Moves
  BY PutMoves DEF RowOnly, PutItem

\* Everyone's transactions move items, and leave the archive and the leases typed.
LEMMA ChangeMoves ==
  ASSUME IndexInv, ChangeAny
  PROVE  Moves /\ archive'.items \in [ItemIds -> Rows] /\ lastToken' \in Nat
<1>1. /\ items \in [ItemIds -> Rows] /\ archive.items \in [ItemIds -> Rows]
      /\ lastToken \in Nat
  BY DEF IndexInv, IndexTypes
<1>2. ASSUME NEW u \in Urls, Save(u, {})
      PROVE  Moves /\ archive'.items \in [ItemIds -> Rows] /\ lastToken' \in Nat
  <2>1. archive' = archive /\ lastToken' = lastToken
    BY <1>2 DEF Save
  <2> QED BY <1>1, <1>2, <2>1, SaveMoves
<1>3. ASSUME Export
      PROVE  Moves /\ archive'.items \in [ItemIds -> Rows] /\ lastToken' \in Nat
  <2>1. /\ archive' = [items |-> items, captures |-> captures, tombs |-> tombs]
        /\ lastToken' = lastToken /\ UNCHANGED <<items, gone, lastItem, restores>>
    BY <1>3 DEF Export
  <2>2. archive'.items = items
    BY <2>1
  <2> QED BY <1>1, <2>1, <2>2, StillMoves
<1>4. ASSUME Reindex
      PROVE  Moves /\ archive'.items \in [ItemIds -> Rows] /\ lastToken' \in Nat
  <2>1. archive' = archive /\ lastToken' = lastToken
    BY <1>4 DEF Reindex
  <2> QED BY <1>1, <1>4, <2>1, ReindexMoves
<1>5. ASSUME NEW i \in ItemIds, ChangeItem(i)
      PROVE  Moves /\ archive'.items \in [ItemIds -> Rows] /\ lastToken' \in Nat
  <2>1. items[i] \in Rows /\ items[i].token \in Nat
    BY <1>1, RowFields
  <2>2. ASSUME NEW tags \in SUBSET Tags, Edit(i, tags)
        PROVE  Moves /\ archive'.items \in [ItemIds -> Rows] /\ lastToken' \in Nat
    <3>1. Saved(i) /\ RowOnly(i, Edited(items[i], tags))
      BY <2>2 DEF Edit
    <3>2. RowFollows(items[i], Edited(items[i], tags))
      BY <2>1, <3>1, EditedFacts DEF Saved
    <3>3. archive' = archive /\ lastToken' = lastToken
      BY <3>1 DEF RowOnly
    <3> QED BY <1>1, <3>1, <3>2, <3>3, RowOnlyMoves
  <2>3. ASSUME ClaimCapture(i)
        PROVE  Moves /\ archive'.items \in [ItemIds -> Rows] /\ lastToken' \in Nat
    <3>1. /\ items' = [items EXCEPT ![i] = CaptureClaimed(items[i], lastToken + 1)]
          /\ items[i].capture \in {"queued", "capturing"}
          /\ UNCHANGED <<gone, lastItem, restores>> /\ archive' = archive
          /\ lastToken' = lastToken + 1
      BY <2>3 DEF ClaimCapture, CaptureDue, PutItem
    <3>2. lastToken + 1 \in Nat /\ Saved(i)
      BY <1>1, <3>1 DEF Saved
    <3>3. RowFollows(items[i], CaptureClaimed(items[i], lastToken + 1))
      BY <2>1, <3>1, <3>2, ClaimedFacts
    <3> QED BY <1>1, <3>1, <3>2, <3>3, PutMoves
  <2>4. ASSUME FailCapture(i, items[i].token, items[i].attempts)
        PROVE  Moves /\ archive'.items \in [ItemIds -> Rows] /\ lastToken' \in Nat
    <3>1. Saved(i) /\ RowOnly(i, CaptureFailed(items[i], items[i].attempts))
      BY <2>4 DEF FailCapture, CaptureHeld
    <3>2. RowFollows(items[i], CaptureFailed(items[i], items[i].attempts))
      BY <2>1, <3>1, CaptureFailedFacts DEF Saved
    <3>3. archive' = archive /\ lastToken' = lastToken
      BY <3>1 DEF RowOnly
    <3> QED BY <1>1, <3>1, <3>2, <3>3, RowOnlyMoves
  <2>5. ASSUME StoreCapture(i, ServerCapture(items[i].token), "page"), UNCHANGED lastToken
        PROVE  Moves /\ archive'.items \in [ItemIds -> Rows] /\ lastToken' \in Nat
    <3> DEFINE c == ServerCapture(items[i].token)
    <3>1. c \in Texts
      BY <2>1 DEF ServerCapture, Texts
    <3> HIDE DEF c
    <3>2. /\ Saved(i) /\ items' = [items EXCEPT ![i] = CaptureStored(items[i], c, "page")]
          /\ UNCHANGED <<gone, lastItem, restores>> /\ archive' = archive
      BY <2>5 DEF StoreCapture, PutItem, c
    <3>3. RowFollows(items[i], CaptureStored(items[i], c, "page"))
      BY <2>1, <3>1, <3>2, CaptureStoredFacts DEF Saved
    <3> QED BY <1>1, <2>5, <3>2, <3>3, PutMoves
  <2>6. ASSUME Saved(i), DeleteItem(i, items[i].url)
        PROVE  Moves /\ archive'.items \in [ItemIds -> Rows] /\ lastToken' \in Nat
    <3>1. archive' = archive /\ lastToken' = lastToken
      BY <2>6 DEF DeleteItem
    <3> QED BY <1>1, <2>6, <3>1, DeleteMoves
  <2>7. ASSUME RestoreItem(i)
        PROVE  Moves /\ archive'.items \in [ItemIds -> Rows] /\ lastToken' \in Nat
    <3>1. archive' = archive /\ lastToken' = lastToken
      BY <2>7 DEF RestoreItem
    <3> QED BY <1>1, <2>7, <3>1, RestoreMoves
  <2> QED BY <1>5, <2>2, <2>3, <2>4, <2>5, <2>6, <2>7 DEF ChangeItem
<1> QED BY <1>2, <1>3, <1>4, <1>5 DEF ChangeAny

-----------------------------------------------------------------------------
(* The steps of IndexOnce *)

ServerTypes ==
    /\ indexer \in [Indexers -> Servers]
    /\ \A w \in Indexers : indexer[w].pc # "idle" =>
           indexer[w].op \in {"upsert", "delete"} /\ indexer[w].item \in ItemIds
EngineTypes == queue \in Seq(Tasks) /\ lastTask \in Nat /\ index \in [ItemIds -> Documents]
OtherTypes == archive.items \in [ItemIds -> Rows] /\ lastToken \in Nat

LEMMA TypeParts == ASSUME IndexInv PROVE ServerTypes /\ EngineTypes /\ OtherTypes
  BY DEF IndexInv, IndexTypes, ServerTypes, EngineTypes, OtherTypes

LEMMA TypesMove ==
  ASSUME Moves, ServerTypes', EngineTypes', OtherTypes'
  PROVE  IndexTypes'
  BY DEF IndexTypes, Moves, ServerTypes, EngineTypes, OtherTypes

\* A step that moves items and in which servers go on or rest.
LEMMA Keeps ==
  ASSUME IndexInv, Moves, Carried, Queued, index' = index, unlocked' = unlocked,
         ServerTypes', EngineTypes', OtherTypes', ~unlocked => OneAtATime' /\ LastInQueue'
  PROVE  IndexInv'
<1>1. IndexTypes'
  BY TypesMove
<1>2. ASSUME ~unlocked' PROVE Ordered'
  <2>1. ~unlocked /\ IndexTypes /\ UploadsKnown /\ RemovedStays
    BY <1>2 DEF IndexInv, Ordered
  <2>2. UploadsKnown' /\ RemovedStays'
    BY <2>1, KnownMove, RemovedMove
  <2> QED BY <2>1, <2>2 DEF Ordered
<1>3. ASSUME ~unlocked', restores' = 0 PROVE Original'
  <2>1. ~unlocked /\ restores = 0 /\ IndexTypes
    BY <1>3 DEF IndexInv, Moves
  <2>2. RowsInOrder /\ DocsInOrder /\ CleanStays
    BY <2>1 DEF IndexInv, Original
  <2> QED BY <1>3, <2>1, <2>2, RowsMove, DocsMove, CleanMove DEF Original
<1> QED BY <1>1, <1>2, <1>3 DEF IndexInv

\* Nothing of the engine changes.
LEMMA QueueStays ==
  ASSUME IndexInv, UNCHANGED <<queue, lastTask, index>>
  PROVE  Queued /\ EngineTypes'
  BY TypeParts DEF Queued, EngineTypes

\* The task that was accepted is the last one.
LEMMA AcceptFacts ==
  ASSUME IndexInv, NEW w \in Indexers, indexer[w].pc # "idle", Accept(w)
  PROVE  /\ Queued /\ EngineTypes' /\ index' = index /\ lastTask' = lastTask + 1
         /\ queue' # <<>>
         /\ queue'[Len(queue')] = [task |-> lastTask + 1, op |-> indexer[w].op,
                                   item |-> indexer[w].item, doc |-> indexer[w].doc]
<1> DEFINE t == [task |-> lastTask + 1, op |-> indexer[w].op,
                 item |-> indexer[w].item, doc |-> indexer[w].doc]
<1>1. queue \in Seq(Tasks) /\ lastTask \in Nat /\ index \in [ItemIds -> Documents]
  BY TypeParts DEF EngineTypes
<1>2. /\ indexer[w].op \in {"upsert", "delete"} /\ indexer[w].item \in ItemIds
      /\ indexer[w].doc \in Documents
  BY TypeParts DEF ServerTypes, Servers
<1>3. t \in Tasks /\ t.item = indexer[w].item /\ t.op = indexer[w].op
  BY <1>1, <1>2 DEF Tasks
<1>4. queue' = Append(queue, t) /\ lastTask' = lastTask + 1 /\ index' = index
  BY DEF Accept
<1> HIDE DEF t
<1>5. /\ queue' \in Seq(Tasks) /\ Len(queue') = Len(queue) + 1 /\ queue'[Len(queue) + 1] = t
      /\ \A k \in 1..Len(queue) : queue'[k] = queue[k]
      /\ DOMAIN queue' = 1..(Len(queue) + 1) /\ DOMAIN queue = 1..Len(queue)
      /\ Len(queue) \in Nat /\ queue' # <<>>
  BY <1>1, <1>3, <1>4
<1>6. Queued
  <2> SUFFICES ASSUME NEW k \in DOMAIN queue'
               PROVE  \/ k \in DOMAIN queue /\ queue'[k] = queue[k]
                      \/ queue'[k].item = indexer[w].item /\ queue'[k].op = indexer[w].op
    BY DEF Queued
  <2>1. k \in 1..Len(queue) \/ k = Len(queue) + 1
    BY <1>5
  <2> QED BY <1>3, <1>5, <2>1
<1>7. EngineTypes'
  BY <1>1, <1>4, <1>5 DEF EngineTypes
<1>8. queue'[Len(queue')] = t
  BY <1>5
<1> QED BY <1>4, <1>5, <1>6, <1>7, <1>8 DEF t

\* Who worked rests, and nobody else works.
LEMMA RollbackFacts ==
  ASSUME IndexInv, NEW w \in Indexers, indexer[w].pc # "idle", Rollback(w)
  PROVE  /\ ServerTypes' /\ Carried
         /\ ~unlocked => \A v \in Indexers : indexer'[v].pc = "idle"
<1>1. indexer \in [Indexers -> Servers] /\ indexer' = [indexer EXCEPT ![w] = Quiet]
  BY TypeParts DEF ServerTypes, Rollback, SetIndexer
<1>2. /\ indexer' \in [Indexers -> Servers] /\ indexer'[w].pc = "idle"
      /\ \A v \in Indexers : v # w => indexer'[v] = indexer[v]
  BY <1>1, QuietFacts
<1>3. ServerTypes'
  BY <1>2, TypeParts DEF ServerTypes
<1>4. Carried
  BY <1>2 DEF Carried, Carries
<1>5. ASSUME ~unlocked, NEW v \in Indexers PROVE indexer'[v].pc = "idle"
  <2>1. OneAtATime
    BY <1>5 DEF IndexInv, Ordered
  <2> QED BY <1>2, <2>1 DEF OneAtATime
<1> QED BY <1>3, <1>4, <1>5

LEMMA RestKeeps ==
  ASSUME \A v \in Indexers : indexer'[v].pc = "idle"
  PROVE  OneAtATime' /\ LastInQueue' /\ UploadsKnown' /\ DocsInOrder'
  BY DEF OneAtATime, LastInQueue, UploadsKnown, DocsInOrder

LEMMA ErrorMoves ==
  ASSUME IndexInv, NEW w \in Indexers, indexer[w].pc # "idle", EndsInError(w)
  PROVE  Moves /\ OtherTypes'
<1> DEFINE i == indexer[w].item
<1>1. i \in ItemIds /\ items \in [ItemIds -> Rows]
  BY DEF IndexInv, IndexTypes
<1> HIDE DEF i
<1>2. CASE UNCHANGED itemVars
  BY <1>2, StillMoves, TypeParts DEF itemVars, OtherTypes
<1>3. CASE MarkIndexError(i)
  <2>1. archive' = archive /\ lastToken' = lastToken
    BY <1>3 DEF MarkIndexError, RowOnly
  <2>2. OtherTypes'
    BY <2>1, TypeParts DEF OtherTypes
  <2>3. CASE Saved(i)
    <3>1. RowOnly(i, [items[i] EXCEPT !.bad = TRUE])
      BY <1>3, <2>3 DEF MarkIndexError
    <3>2. RowFollows(items[i], [items[i] EXCEPT !.bad = TRUE])
      BY <1>1, <2>3, ErrorFacts DEF Saved
    <3> QED BY <1>1, <2>2, <2>3, <3>1, <3>2, RowOnlyMoves
  <2>4. CASE ~Saved(i)
    <3>1. items' = [items EXCEPT ![i] = items[i]] /\ UNCHANGED <<gone, lastItem, restores>>
      BY <1>3, <2>4 DEF MarkIndexError, RowOnly, PutItem
    <3>2. items' = items
      BY <1>1, <3>1
    <3> QED BY <2>2, <3>1, <3>2, StillMoves
  <2> QED BY <2>3, <2>4
<1> QED BY <1>2, <1>3 DEF EndsInError, i

LEMMA ErrorKeeps ==
  ASSUME IndexInv, NEW w \in Indexers, indexer[w].pc # "idle", EndsInError(w),
         Queued, EngineTypes', index' = index
  PROVE  IndexInv'
<1>1. Rollback(w) /\ unlocked' = unlocked
  BY DEF EndsInError
<1>2. /\ ServerTypes' /\ Carried
      /\ ~unlocked => \A v \in Indexers : indexer'[v].pc = "idle"
  BY <1>1, RollbackFacts
<1>3. Moves /\ OtherTypes'
  BY ErrorMoves
<1> QED BY <1>1, <1>2, <1>3, RestKeeps, Keeps

LEMMA SendKeeps == ASSUME IndexInv, NEW w \in Indexers, Send(w) PROVE IndexInv'
<1> DEFINE u == [indexer[w] EXCEPT !.pc = "wait", !.task = lastTask + 1]
<1>1. /\ indexer[w].pc = "send" /\ Accept(w) /\ indexer' = [indexer EXCEPT ![w] = u]
      /\ UNCHANGED <<items, gone, lastItem, restores, archive, lastToken, lock, unlocked>>
  BY DEF Send, SetIndexer, itemVars
<1>2. indexer \in [Indexers -> Servers] /\ lastTask \in Nat /\ lastTask + 1 \in Nat
  BY TypeParts DEF ServerTypes, EngineTypes
<1>3. /\ u \in Servers /\ u.pc = "wait" /\ u.task = lastTask + 1 /\ u.op = indexer[w].op
      /\ u.item = indexer[w].item /\ u.doc = indexer[w].doc /\ u.version = indexer[w].version
  <2>1. indexer[w] \in Servers
    BY <1>2
  <2> QED BY <1>2, <2>1 DEF Servers
<1> HIDE DEF u
<1>4. /\ indexer' \in [Indexers -> Servers] /\ indexer'[w] = u
      /\ \A v \in Indexers : v # w => indexer'[v] = indexer[v]
  BY <1>1, <1>2, <1>3
<1>5. Moves /\ OtherTypes'
  BY <1>1, StillMoves, TypeParts DEF OtherTypes
<1>6. ServerTypes'
  BY <1>1, <1>3, <1>4, TypeParts DEF ServerTypes
<1>7. Carried
  <2> SUFFICES ASSUME NEW v \in Indexers PROVE Carries(indexer'[v], indexer[v])
    BY DEF Carried
  <2>1. CASE v = w
    BY <1>1, <1>3, <1>4, <2>1 DEF Carries
  <2>2. CASE v # w
    BY <1>4, <2>2 DEF Carries
  <2> QED BY <2>1, <2>2
<1>8. /\ Queued /\ EngineTypes' /\ index' = index /\ lastTask' = lastTask + 1
      /\ queue' # <<>>
      /\ queue'[Len(queue')] = [task |-> lastTask + 1, op |-> indexer[w].op,
                                item |-> indexer[w].item, doc |-> indexer[w].doc]
  BY <1>1, AcceptFacts
<1>9. ASSUME ~unlocked PROVE OneAtATime' /\ LastInQueue'
  <2>1. \A v \in Indexers : v # w => indexer'[v].pc = "idle"
    <3>1. OneAtATime
      BY <1>9 DEF IndexInv, Ordered
    <3> QED BY <1>1, <1>4, <3>1 DEF OneAtATime
  <2>2. lock' = w
    <3>1. OneAtATime
      BY <1>9 DEF IndexInv, Ordered
    <3> QED BY <1>1, <3>1 DEF OneAtATime
  <2>3. OneAtATime'
    BY <2>1, <2>2 DEF OneAtATime
  <2>4. queue'[Len(queue')] = TaskOf(u) /\ u.task = lastTask'
    BY <1>3, <1>8 DEF TaskOf
  <2>5. LastInQueue'
    BY <1>4, <1>8, <2>1, <2>4 DEF LastInQueue, TaskOf
  <2> QED BY <2>3, <2>5
<1> QED BY <1>1, <1>5, <1>6, <1>7, <1>8, <1>9, Keeps

LEMMA SendFailsKeeps == ASSUME IndexInv, NEW w \in Indexers, SendFails(w) PROVE IndexInv'
<1>1. indexer[w].pc # "idle" /\ EndsInError(w) /\ (Accept(w) \/ UNCHANGED engineVars)
  BY DEF SendFails
<1>2. Queued /\ EngineTypes' /\ index' = index
  <2>1. CASE Accept(w)
    BY <1>1, <2>1, AcceptFacts
  <2>2. CASE UNCHANGED engineVars
    BY <2>2, QueueStays DEF engineVars
  <2> QED BY <1>1, <2>1, <2>2
<1> QED BY <1>1, <1>2, ErrorKeeps

LEMMA GivesUpKeeps == ASSUME IndexInv, NEW w \in Indexers, GivesUp(w) PROVE IndexInv'
<1>1. indexer[w].pc # "idle" /\ EndsInError(w) /\ UNCHANGED <<queue, lastTask, index>>
  BY DEF GivesUp, engineVars
<1> QED BY <1>1, QueueStays, ErrorKeeps

LEMMA CrashKeeps == ASSUME IndexInv, NEW w \in Indexers, Crash(w) PROVE IndexInv'
<1>1. /\ indexer[w].pc # "idle" /\ Rollback(w) /\ UNCHANGED <<queue, lastTask, index>>
      /\ UNCHANGED <<items, gone, lastItem, restores, archive, lastToken, unlocked>>
  BY DEF Crash, engineVars, itemVars
<1>2. Moves /\ OtherTypes'
  BY <1>1, StillMoves, TypeParts DEF OtherTypes
<1>3. /\ ServerTypes' /\ Carried
      /\ ~unlocked => \A v \in Indexers : indexer'[v].pc = "idle"
  BY <1>1, RollbackFacts
<1> QED BY <1>1, <1>2, <1>3, QueueStays, RestKeeps, Keeps

\* The lock was free, so the others rest: w is given something to do.
LEMMA TakeFacts ==
  ASSUME IndexInv, NEW w \in Indexers, NEW u \in Servers, u.pc = "send",
         u.op \in {"upsert", "delete"}, u.item \in ItemIds,
         lock = NoServer, SetIndexer(w, u), lock' = w
  PROVE  /\ ServerTypes' /\ indexer'[w] = u
         /\ ~unlocked => /\ OneAtATime' /\ LastInQueue'
                         /\ \A v \in Indexers : v # w => indexer'[v].pc = "idle"
<1>1. indexer \in [Indexers -> Servers]
  BY TypeParts DEF ServerTypes
<1>2. /\ indexer' \in [Indexers -> Servers] /\ indexer'[w] = u
      /\ \A v \in Indexers : v # w => indexer'[v] = indexer[v]
  BY <1>1 DEF SetIndexer
<1>3. ServerTypes'
  BY <1>2, TypeParts DEF ServerTypes
<1>4. ASSUME ~unlocked
      PROVE  \A v \in Indexers : v # w => indexer'[v].pc = "idle"
  <2>1. OneAtATime
    BY <1>4 DEF IndexInv, Ordered
  <2> QED BY <1>2, <2>1, IndexAssumption DEF OneAtATime, NoServer
<1>5. ASSUME ~unlocked PROVE OneAtATime' /\ LastInQueue'
  BY <1>2, <1>4, <1>5 DEF OneAtATime, LastInQueue
<1> QED BY <1>2, <1>3, <1>4, <1>5

\* Nothing changes but what one server does.
StillElse ==
    UNCHANGED <<items, gone, lastItem, restores, archive, lastToken,
                queue, refused, lastTask, index, unlocked>>

LEMMA TakeKeeps ==
  ASSUME IndexInv, NEW w \in Indexers, NEW u \in Servers, u.pc = "send",
         u.op \in {"upsert", "delete"}, u.item \in ItemIds,
         lock = NoServer, SetIndexer(w, u), lock' = w, StillElse,
         u.op = "upsert" => /\ Dirty(u.item) /\ u.version = items[u.item].version
                            /\ u.doc = Projection(items[u.item]),
         u.op = "delete" => u.item \in gone
  PROVE  IndexInv'
<1>1. /\ ServerTypes' /\ indexer'[w] = u
      /\ ~unlocked => /\ OneAtATime' /\ LastInQueue'
                      /\ \A v \in Indexers : v # w => indexer'[v].pc = "idle"
  BY TakeFacts
<1>2. IndexTypes'
  <2>1. EngineTypes' /\ OtherTypes' /\ Moves
    BY TypeParts, StillMoves DEF StillElse, EngineTypes, OtherTypes
  <2> QED BY <1>1, <2>1, TypesMove
<1>3. ASSUME ~unlocked' PROVE Ordered'
  <2>1. ~unlocked /\ UNCHANGED <<items, gone, queue, index>>
    BY <1>3 DEF StillElse
  <2>2. RemovedStays'
    BY <2>1 DEF IndexInv, Ordered, RemovedStays, Saved
  <2>3. u.op = "upsert" => items[u.item].capture # "none"
    BY DEF Dirty, Saved
  <2>4. UploadsKnown'
    BY <1>1, <2>1, <2>3 DEF UploadsKnown, Saved
  <2> QED BY <1>1, <2>1, <2>2, <2>4 DEF Ordered
<1>4. ASSUME ~unlocked', restores' = 0 PROVE Original'
  <2>1. /\ ~unlocked /\ restores = 0
        /\ UNCHANGED <<items, gone, lastItem, queue, index>>
    BY <1>4 DEF StillElse
  <2>2. RowsInOrder /\ CleanStays
    BY <2>1 DEF IndexInv, Original
  <2>3. RowsInOrder'
    BY <2>1, <2>2 DEF RowsInOrder, Saved
  <2>4. CleanStays'
    BY <2>1, <2>2 DEF CleanStays, Saved, Dirty
  <2>5. /\ u.item <= lastItem /\ items[u.item].version \in Nat
        /\ u.op = "delete" => items[u.item].capture = "none"
    <3>1. items[u.item].version \in Nat
      BY RowFacts DEF IndexInv
    <3> QED BY <2>2, <3>1 DEF RowsInOrder, Dirty, Saved
  <2>6. ASSUME u.op = "upsert"
        PROVE  /\ items[u.item].indexed < items[u.item].version
               /\ u.version <= items[u.item].version
               /\ Shown(u.doc) = Shown(Projection(items[u.item]))
    BY <2>5, <2>6 DEF Dirty
  <2>7. DocsInOrder'
    BY <1>1, <2>1, <2>5, <2>6 DEF DocsInOrder, Saved, Dirty, SameShown
  <2> QED BY <2>3, <2>4, <2>7 DEF Original
<1> QED BY <1>2, <1>3, <1>4 DEF IndexInv

LEMMA TakeRemovalKeeps == ASSUME IndexInv, NEW w \in Indexers, TakeRemoval(w) PROVE IndexInv'
<1>1. PICK i \in gone :
          SetIndexer(w, [Quiet EXCEPT !.pc = "send", !.op = "delete", !.item = i])
  BY DEF TakeRemoval
<1> DEFINE u == [Quiet EXCEPT !.pc = "send", !.op = "delete", !.item = i]
<1>2. i \in ItemIds /\ i \in Nat
  <2>1. gone \subseteq ItemIds
    BY DEF IndexInv, IndexTypes
  <2> QED BY <2>1 DEF ItemIds
<1>3. u \in Servers /\ u.pc = "send" /\ u.op = "delete" /\ u.item = i
  BY <1>2, QuietFacts DEF Servers
<1>4. lock = NoServer /\ lock' = w /\ StillElse
  BY DEF TakeRemoval, StillElse, itemVars, engineVars
<1> HIDE DEF u
<1> QED BY <1>1, <1>2, <1>3, <1>4, TakeKeeps DEF u

LEMMA TakeItemKeeps == ASSUME IndexInv, NEW w \in Indexers, TakeItem(w) PROVE IndexInv'
<1>1. PICK i \in ItemIds :
          /\ Indexable(i)
          /\ SetIndexer(w, [Quiet EXCEPT !.pc = "send", !.op = "upsert", !.item = i,
                                         !.version = items[i].version,
                                         !.doc = Projection(items[i])])
  BY DEF TakeItem
<1> DEFINE u == [Quiet EXCEPT !.pc = "send", !.op = "upsert", !.item = i,
                              !.version = items[i].version, !.doc = Projection(items[i])]
<1>2. i \in Nat /\ items[i].version \in Nat /\ Projection(items[i]) \in Documents
  BY RowFacts, ProjectionType DEF IndexInv
<1>3. /\ u \in Servers /\ u.pc = "send" /\ u.op = "upsert" /\ u.item = i
      /\ u.version = items[i].version /\ u.doc = Projection(items[i])
  BY <1>2, QuietFacts DEF Servers
<1>4. lock = NoServer /\ lock' = w /\ StillElse /\ Dirty(i) /\ SetIndexer(w, u)
  BY <1>1 DEF TakeItem, StillElse, itemVars, engineVars, Indexable
<1> HIDE DEF u
<1> QED BY <1>3, <1>4, TakeKeeps

\* Success means that nothing of the queue is left, so the index is as the task
\* of the server wanted it.
LEMMA SuccessFacts ==
  ASSUME IndexInv, NEW w \in Indexers, Succeeds(w), ~unlocked
  PROVE  queue = <<>> /\ index[indexer[w].item] = Outcome(TaskOf(indexer[w]))
<1>1. /\ indexer[w].pc = "wait" /\ indexer[w].task \notin refused
      /\ \A k \in DOMAIN queue : queue[k].task # indexer[w].task
  BY DEF Succeeds, Waits
<1>2. /\ indexer[w].task = lastTask
      /\ queue # <<>> => queue[Len(queue)] = TaskOf(indexer[w])
      /\ queue = <<>> /\ lastTask \notin refused =>
            index[indexer[w].item] = Outcome(TaskOf(indexer[w]))
  BY <1>1 DEF IndexInv, Ordered, LastInQueue
<1>3. ASSUME queue # <<>> PROVE FALSE
  <2>1. queue \in Seq(Tasks)
    BY TypeParts DEF EngineTypes
  <2>2. Len(queue) \in DOMAIN queue
    BY <1>3, <2>1
  <2>3. TaskOf(indexer[w]).task = indexer[w].task
    BY DEF TaskOf
  <2> QED BY <1>1, <1>2, <1>3, <2>2, <2>3
<1> QED BY <1>1, <1>2, <1>3

LEMMA SucceedsKeeps == ASSUME IndexInv, NEW w \in Indexers, Succeeds(w) PROVE IndexInv'
<1> DEFINE u == indexer[w]
           i == u.item
<1>1. /\ u.pc = "wait" /\ Rollback(w) /\ UNCHANGED <<queue, lastTask, index, unlocked>>
  BY DEF Succeeds, engineVars
<1>2. /\ ServerTypes' /\ Carried
      /\ ~unlocked => \A v \in Indexers : indexer'[v].pc = "idle"
  BY <1>1, RollbackFacts
<1>3. Queued /\ EngineTypes'
  BY <1>1, QueueStays
<1>4. /\ i \in ItemIds /\ u.op \in {"upsert", "delete"} /\ u.version \in Nat
      /\ items \in [ItemIds -> Rows] /\ gone \subseteq ItemIds /\ lastItem \in Nat
      /\ restores \in Nat
  BY <1>1 DEF IndexInv, IndexTypes, Servers
<1>5. CASE ~u.alive
  <2>1. UNCHANGED <<items, gone, lastItem, restores, archive, lastToken>>
    BY <1>5 DEF Succeeds, itemVars
  <2>2. Moves /\ OtherTypes'
    BY <2>1, StillMoves, TypeParts DEF OtherTypes
  <2> QED BY <1>1, <1>2, <1>3, <2>2, RestKeeps, Keeps
<1>6. CASE u.alive /\ u.op = "upsert" /\ ~Saved(i)
  <2>1. /\ items' = [items EXCEPT ![i] = items[i]]
        /\ UNCHANGED <<gone, lastItem, restores, archive, lastToken>>
    BY <1>6 DEF Succeeds, MarkIndexed, RowOnly, PutItem
  <2>2. items' = items
    BY <1>4, <2>1
  <2>3. Moves /\ OtherTypes'
    BY <2>1, <2>2, StillMoves, TypeParts DEF OtherTypes
  <2> QED BY <1>1, <1>2, <1>3, <2>3, RestKeeps, Keeps
<1>7. CASE u.alive /\ u.op = "upsert" /\ Saved(i)
  <2> DEFINE row == Marked(items[i], u.version, FALSE)
  <2>1. /\ items' = [items EXCEPT ![i] = row]
        /\ UNCHANGED <<gone, lastItem, restores, archive, lastToken>>
    BY <1>7 DEF Succeeds, MarkIndexed, RowOnly, PutItem, Marked
  <2>2. /\ row \in Rows /\ row.capture = items[i].capture /\ row.indexed = u.version
        /\ row.version = items[i].version
        /\ Shown(Projection(row)) = Shown(Projection(items[i]))
    BY <1>4, MarkedFacts
  <2> HIDE DEF row
  <2>3. /\ items' \in [ItemIds -> Rows] /\ items'[i] = row
        /\ \A k \in ItemIds : k # i => items'[k] = items[k]
    BY <1>4, <2>1, <2>2
  <2>4. IndexTypes'
    <3>1. OtherTypes'
      BY <2>1, TypeParts DEF OtherTypes
    <3> QED BY <1>2, <1>3, <1>4, <2>1, <2>3, <3>1
            DEF IndexTypes, ServerTypes, EngineTypes, OtherTypes
  <2>5. ASSUME ~unlocked' PROVE Ordered'
    <3>1. ~unlocked
      BY <1>1, <2>5
    <3>2. RemovedStays
      BY <3>1 DEF IndexInv, Ordered
    <3>3. \A k \in ItemIds : items'[k].capture = items[k].capture
      BY <2>2, <2>3
    <3>4. RemovedStays'
      BY <1>1, <2>1, <3>2, <3>3 DEF RemovedStays, Saved
    <3> QED BY <1>2, <3>1, <3>4, RestKeeps DEF Ordered
  <2>6. ASSUME ~unlocked', restores' = 0 PROVE Original'
    <3>1. ~unlocked /\ restores = 0
      BY <1>1, <2>1, <2>6
    <3>2. RowsInOrder /\ DocsInOrder /\ CleanStays
      BY <3>1 DEF IndexInv, Original
    <3>3. queue = <<>> /\ index[i] = u.doc
      BY <1>7, <3>1, SuccessFacts DEF Outcome, TaskOf
    <3>4. /\ u.version <= items[i].version
          /\ u.version = items[i].version => Shown(u.doc) = Shown(Projection(items[i]))
      BY <1>1, <1>7, <3>2 DEF DocsInOrder, SameShown
    <3>5. items[i].version \in Nat
      BY RowFacts, <1>4 DEF IndexInv
    <3>6. RowsInOrder'
      <4> SUFFICES ASSUME NEW k \in ItemIds
                   PROVE  /\ items'[k].indexed <= items'[k].version
                          /\ items'[k].capture # "none" => items'[k].version > 0 /\ k <= lastItem
                          /\ k \in gone => items'[k].capture = "none" /\ k <= lastItem
        BY <2>1 DEF RowsInOrder, Saved
      <4>1. /\ items[k].indexed <= items[k].version
            /\ items[k].capture # "none" => items[k].version > 0 /\ k <= lastItem
            /\ k \in gone => items[k].capture = "none" /\ k <= lastItem
        BY <3>2 DEF RowsInOrder, Saved
      <4>2. CASE k = i
        BY <2>2, <2>3, <3>4, <4>1, <4>2
      <4>3. CASE k # i
        BY <2>3, <4>1, <4>3
      <4> QED BY <4>2, <4>3
    <3>7. CleanStays'
      <4> SUFFICES ASSUME NEW k \in ItemIds, items'[k].capture # "none",
                          ~(items'[k].indexed < items'[k].version)
                   PROVE  Shown(index[k]) = Shown(Projection(items'[k]))
        BY <1>1, <3>3 DEF CleanStays, Saved, Dirty, SameShown
      <4>1. CASE k = i
        <5>1. u.version = items[i].version
          BY <1>4, <2>2, <2>3, <3>4, <3>5, <4>1
        <5> QED BY <2>2, <2>3, <3>3, <3>4, <4>1, <5>1
      <4>2. CASE k # i
        BY <2>3, <3>2, <4>2 DEF CleanStays, Saved, Dirty, SameShown
      <4> QED BY <4>1, <4>2
    <3> QED BY <1>2, <3>1, <3>6, <3>7, RestKeeps DEF Original
  <2> QED BY <2>4, <2>5, <2>6 DEF IndexInv
<1>8. CASE u.alive /\ u.op = "delete"
  <2>1. /\ gone' = gone \ {i}
        /\ UNCHANGED <<items, lastItem, restores, archive, lastToken>>
    BY <1>8 DEF Succeeds, ForgetDeletion
  <2>2. IndexTypes'
    <3>1. OtherTypes'
      BY <2>1, TypeParts DEF OtherTypes
    <3> QED BY <1>2, <1>3, <1>4, <2>1, <3>1
            DEF IndexTypes, ServerTypes, EngineTypes, OtherTypes
  <2>3. ASSUME ~unlocked' PROVE Ordered'
    <3>1. ~unlocked
      BY <1>1, <2>3
    <3>2. RemovedStays
      BY <3>1 DEF IndexInv, Ordered
    <3>3. queue = <<>> /\ index[i] = NoDoc
      BY <1>8, <3>1, SuccessFacts DEF Outcome, TaskOf
    <3>4. RemovedStays'
      BY <1>1, <2>1, <3>2, <3>3 DEF RemovedStays, Saved
    <3> QED BY <1>2, <3>1, <3>4, RestKeeps DEF Ordered
  <2>4. ASSUME ~unlocked', restores' = 0 PROVE Original'
    <3>1. ~unlocked /\ restores = 0
      BY <1>1, <2>1, <2>4
    <3>2. RowsInOrder /\ CleanStays
      BY <3>1 DEF IndexInv, Original
    <3>3. RowsInOrder'
      BY <2>1, <3>2 DEF RowsInOrder, Saved
    <3>4. CleanStays'
      BY <1>1, <2>1, <3>2 DEF CleanStays, Saved, Dirty
    <3> QED BY <1>2, <3>1, <3>3, <3>4, RestKeeps DEF Original
  <2> QED BY <2>2, <2>3, <2>4 DEF IndexInv
<1> QED BY <1>4, <1>5, <1>6, <1>7, <1>8

\* A server that lost its session goes on: nothing is said from here on.
LEMMA LoseSessionKeeps ==
  ASSUME IndexInv, NEW w \in Indexers, LoseSession(w) PROVE IndexInv'
<1> DEFINE u == [indexer[w] EXCEPT !.alive = FALSE]
<1>1. /\ indexer' = [indexer EXCEPT ![w] = u] /\ unlocked' = TRUE /\ indexer[w].pc # "idle"
      /\ UNCHANGED <<items, gone, lastItem, restores, archive, lastToken,
                     queue, lastTask, index>>
  BY DEF LoseSession, SetIndexer, itemVars, engineVars
<1>2. indexer \in [Indexers -> Servers] /\ indexer[w] \in Servers
  BY TypeParts DEF ServerTypes
<1>3. u \in Servers /\ u.pc = indexer[w].pc /\ u.op = indexer[w].op /\ u.item = indexer[w].item
  BY <1>2 DEF Servers
<1> HIDE DEF u
<1>4. /\ indexer' \in [Indexers -> Servers] /\ indexer'[w] = u
      /\ \A v \in Indexers : v # w => indexer'[v] = indexer[v]
  BY <1>1, <1>2, <1>3
<1>5. ServerTypes'
  BY <1>1, <1>3, <1>4, TypeParts DEF ServerTypes
<1>6. EngineTypes' /\ OtherTypes' /\ Moves
  BY <1>1, TypeParts, StillMoves DEF EngineTypes, OtherTypes
<1> QED BY <1>1, <1>5, <1>6, TypesMove DEF IndexInv

-----------------------------------------------------------------------------
(* The engine *)

LEMMA TailFacts ==
  ASSUME IndexInv, queue # <<>>, queue' = Tail(queue)
  PROVE  /\ Head(queue) \in Tasks /\ Head(queue) = queue[1] /\ 1 \in DOMAIN queue
         /\ queue' \in Seq(Tasks)
         /\ \A k \in DOMAIN queue' : k + 1 \in DOMAIN queue /\ queue'[k] = queue[k + 1]
         /\ queue' # <<>> => queue'[Len(queue')] = queue[Len(queue)]
         /\ queue' = <<>> => queue[Len(queue)] = queue[1]
<1>1. queue \in Seq(Tasks)
  BY TypeParts DEF EngineTypes
<1>2. /\ Len(queue) \in Nat /\ Len(queue) > 0 /\ DOMAIN queue = 1..Len(queue)
      /\ Head(queue) = queue[1]
  BY <1>1
<1>3. /\ queue' \in Seq(Tasks) /\ Len(queue') = Len(queue) - 1
      /\ DOMAIN queue' = 1..(Len(queue) - 1)
      /\ \A k \in 1..(Len(queue) - 1) : queue'[k] = queue[k + 1]
  BY <1>1, <1>2
<1>4. queue[1] \in Tasks
  BY <1>1, <1>2
<1>5. ASSUME queue' # <<>> PROVE queue'[Len(queue')] = queue[Len(queue)]
  <2>1. Len(queue') # 0
    BY <1>3, <1>5
  <2>2. Len(queue) - 1 \in 1..(Len(queue) - 1) /\ (Len(queue) - 1) + 1 = Len(queue)
    BY <1>2, <1>3, <2>1
  <2> QED BY <1>3, <2>2
<1>6. ASSUME queue' = <<>> PROVE Len(queue) = 1
  <2>1. Len(<<>>) = 0
    OBVIOUS
  <2>2. Len(queue') = 0
    BY ONLY <1>6, <2>1, Zenon
  <2>3. Len(queue) \in Nat /\ Len(queue) - 1 = 0
    BY ONLY <1>2, <1>3, <2>2, Zenon
  <2> QED BY ONLY <2>3
<1> QED BY <1>2, <1>3, <1>4, <1>5, <1>6

\* Nothing changes but the engine.
StillAround ==
    UNCHANGED <<items, gone, lastItem, restores, archive, lastToken, indexer, lock,
                lastTask, unlocked>>

\* A step of the engine has to keep the waiting servers' tasks, the clean items
\* and the removed ones.
LEMMA EngineKeeps ==
  ASSUME IndexInv, StillAround, EngineTypes',
         ~unlocked => LastInQueue' /\ RemovedStays',
         ~unlocked /\ restores = 0 => CleanStays'
  PROVE  IndexInv'
<1>1. IndexTypes'
  <2>1. ServerTypes' /\ OtherTypes' /\ Moves
    BY TypeParts, StillMoves DEF StillAround, ServerTypes, OtherTypes
  <2> QED BY <2>1, TypesMove
<1>2. ASSUME ~unlocked' PROVE Ordered'
  <2>1. ~unlocked /\ OneAtATime /\ UploadsKnown
    BY <1>2 DEF StillAround, IndexInv, Ordered
  <2>2. OneAtATime' /\ UploadsKnown'
    BY <2>1 DEF StillAround, OneAtATime, UploadsKnown, Saved
  <2> QED BY <2>1, <2>2 DEF Ordered
<1>3. ASSUME ~unlocked', restores' = 0 PROVE Original'
  <2>1. ~unlocked /\ restores = 0
    BY <1>3 DEF StillAround
  <2>2. RowsInOrder /\ DocsInOrder
    BY <2>1 DEF IndexInv, Original
  <2>3. RowsInOrder'
    BY <2>2 DEF StillAround, RowsInOrder, Saved
  <2>4. DocsInOrder'
    BY <2>2 DEF StillAround, DocsInOrder, Saved, Dirty
  <2> QED BY <2>1, <2>3, <2>4 DEF Original
<1> QED BY <1>1, <1>2, <1>3 DEF IndexInv

LEMMA EngineAppliesKeeps == ASSUME IndexInv, EngineApplies PROVE IndexInv'
<1> DEFINE t == queue[1]
           done == Outcome(t)
<1>1. /\ queue # <<>> /\ queue' = Tail(queue)
      /\ StillAround /\ refused' = refused
  BY DEF EngineApplies, StillAround, itemVars, serverVars
<1>2. /\ Head(queue) \in Tasks /\ Head(queue) = queue[1] /\ 1 \in DOMAIN queue
      /\ queue' \in Seq(Tasks)
      /\ \A k \in DOMAIN queue' : k + 1 \in DOMAIN queue /\ queue'[k] = queue[k + 1]
      /\ queue' # <<>> => queue'[Len(queue')] = queue[Len(queue)]
      /\ queue' = <<>> => queue[Len(queue)] = queue[1]
  BY <1>1, TailFacts
<1>3. index' = [index EXCEPT ![t.item] = done] /\ t \in Tasks
  BY <1>2 DEF EngineApplies, Outcome
<1>4. /\ index \in [ItemIds -> Documents] /\ t.item \in ItemIds /\ done \in Documents
      /\ lastTask \in Nat
  BY <1>3, TypeParts, QuietFacts DEF EngineTypes, Tasks, Outcome
<1> HIDE DEF done
<1>5. /\ index' \in [ItemIds -> Documents] /\ index'[t.item] = done
      /\ \A k \in ItemIds : k # t.item => index'[k] = index[k]
  BY <1>3, <1>4
<1>6. EngineTypes'
  BY <1>1, <1>2, <1>4, <1>5 DEF EngineTypes, StillAround
<1>7. ASSUME ~unlocked PROVE LastInQueue'
  <2>1. UNCHANGED <<indexer, lastTask, refused>>
    BY <1>1 DEF StillAround
  <2> SUFFICES ASSUME NEW w \in Indexers, indexer[w].pc = "wait"
               PROVE  /\ indexer[w].task = lastTask
                      /\ queue' # <<>> => queue'[Len(queue')] = TaskOf(indexer[w])
                      /\ queue' = <<>> =>
                            index'[indexer[w].item] = Outcome(TaskOf(indexer[w]))
    BY <2>1 DEF LastInQueue
  <2>2. indexer[w].task = lastTask /\ queue[Len(queue)] = TaskOf(indexer[w])
    BY <1>1, <1>7 DEF IndexInv, Ordered, LastInQueue
  <2>3. TaskOf(indexer[w]).item = indexer[w].item
    BY DEF TaskOf
  <2>4. ASSUME queue' = <<>> PROVE index'[indexer[w].item] = Outcome(TaskOf(indexer[w]))
    <3>1. t = TaskOf(indexer[w])
      BY <1>2, <2>2, <2>4
    <3>2. t.item = indexer[w].item /\ done = Outcome(TaskOf(indexer[w]))
      BY <2>3, <3>1 DEF done
    <3> QED BY <1>5, <3>2
  <2> QED BY <1>2, <2>2, <2>4
<1>8. ASSUME ~unlocked PROVE RemovedStays'
  <2> SUFFICES ASSUME NEW i \in ItemIds, items[i].capture = "none", i \notin gone
               PROVE  /\ index'[i] = NoDoc
                      /\ \A k \in DOMAIN queue' : queue'[k].item = i => queue'[k].op = "delete"
    BY <1>1 DEF StillAround, RemovedStays, Saved
  <2>1. /\ index[i] = NoDoc
        /\ \A k \in DOMAIN queue : queue[k].item = i => queue[k].op = "delete"
    BY <1>8 DEF IndexInv, Ordered, RemovedStays, Saved
  <2>2. t.item = i => done = NoDoc
    BY <1>2, <2>1 DEF done, Outcome
  <2> QED BY <1>2, <1>5, <2>1, <2>2
<1>9. ASSUME ~unlocked, restores = 0 PROVE CleanStays'
  <2> SUFFICES ASSUME NEW i \in ItemIds, items[i].capture # "none",
                      ~(items[i].indexed < items[i].version)
               PROVE  /\ Shown(index'[i]) = Shown(Projection(items[i]))
                      /\ \A k \in DOMAIN queue' : queue'[k].item # i
    BY <1>1 DEF StillAround, CleanStays, Saved, Dirty, SameShown
  <2>1. /\ Shown(index[i]) = Shown(Projection(items[i]))
        /\ \A k \in DOMAIN queue : queue[k].item # i
    BY <1>9 DEF IndexInv, Original, CleanStays, Saved, Dirty, SameShown
  <2>2. t.item # i
    BY <1>2, <2>1
  <2> QED BY <1>2, <1>5, <2>1, <2>2
<1> QED BY <1>1, <1>6, <1>7, <1>8, <1>9, EngineKeeps

LEMMA EngineRefusesKeeps == ASSUME IndexInv, EngineRefuses PROVE IndexInv'
<1>1. /\ queue # <<>> /\ queue' = Tail(queue) /\ StillAround /\ index' = index
      /\ refused' = refused \cup {Head(queue).task}
  BY DEF EngineRefuses, StillAround, itemVars, serverVars
<1>2. /\ Head(queue) = queue[1] /\ 1 \in DOMAIN queue
      /\ queue' \in Seq(Tasks)
      /\ \A k \in DOMAIN queue' : k + 1 \in DOMAIN queue /\ queue'[k] = queue[k + 1]
      /\ queue' # <<>> => queue'[Len(queue')] = queue[Len(queue)]
      /\ queue' = <<>> => queue[Len(queue)] = queue[1]
  BY <1>1, TailFacts
<1>3. EngineTypes'
  BY <1>1, <1>2, TypeParts DEF EngineTypes, StillAround
<1>4. ASSUME ~unlocked PROVE LastInQueue'
  <2>1. UNCHANGED <<indexer, lastTask, index>>
    BY <1>1 DEF StillAround
  <2> SUFFICES ASSUME NEW w \in Indexers, indexer[w].pc = "wait"
               PROVE  /\ indexer[w].task = lastTask
                      /\ queue' # <<>> => queue'[Len(queue')] = TaskOf(indexer[w])
                      /\ queue' = <<>> => lastTask \in refused'
    BY <2>1 DEF LastInQueue
  <2>2. indexer[w].task = lastTask /\ queue[Len(queue)] = TaskOf(indexer[w])
    BY <1>1, <1>4 DEF IndexInv, Ordered, LastInQueue
  <2>3. TaskOf(indexer[w]).task = indexer[w].task
    BY DEF TaskOf
  <2>4. queue' = <<>> => Head(queue).task = lastTask
    BY <1>2, <2>2, <2>3
  <2> QED BY <1>1, <1>2, <2>2, <2>4
<1>5. ASSUME ~unlocked PROVE RemovedStays'
  <2>1. RemovedStays
    BY <1>5 DEF IndexInv, Ordered
  <2> QED BY <1>1, <1>2, <2>1 DEF StillAround, RemovedStays, Saved
<1>6. ASSUME ~unlocked, restores = 0 PROVE CleanStays'
  <2>1. CleanStays
    BY <1>6 DEF IndexInv, Original
  <2> QED BY <1>1, <1>2, <2>1 DEF StillAround, CleanStays, Saved, Dirty
<1> QED BY <1>1, <1>3, <1>4, <1>5, <1>6, EngineKeeps

-----------------------------------------------------------------------------
(* The specification *)

LEMMA ChangeKeeps == ASSUME IndexInv, ChangeAny PROVE IndexInv'
<1>1. UNCHANGED <<indexer, lock, queue, refused, lastTask, index, unlocked>>
  BY DEF ChangeAny, serverVars, engineVars
<1>2. Moves /\ OtherTypes'
  BY ChangeMoves DEF OtherTypes
<1>3. ServerTypes' /\ Carried
  BY <1>1, TypeParts DEF ServerTypes, Carried, Carries
<1>4. ASSUME ~unlocked PROVE OneAtATime' /\ LastInQueue'
  <2>1. OneAtATime /\ LastInQueue
    BY <1>4 DEF IndexInv, Ordered
  <2> QED BY <1>1, <2>1 DEF OneAtATime, LastInQueue
<1> QED BY <1>1, <1>2, <1>3, <1>4, QueueStays, Keeps

LEMMA StutterKeeps == ASSUME IndexInv, UNCHANGED vars PROVE IndexInv'
<1>1. UNCHANGED <<items, gone, lastItem, restores, archive, lastToken, indexer, lock,
                  queue, refused, lastTask, index, unlocked>>
  BY DEF vars, itemVars, serverVars, engineVars
<1> QED BY <1>1 DEF IndexInv, IndexTypes, Ordered, Original, OneAtATime, LastInQueue,
                    UploadsKnown, RowsInOrder, DocsInOrder, CleanStays, RemovedStays,
                    Saved, Dirty

LEMMA InitKeeps == ASSUME IndexInit PROVE IndexInv
<1>1. /\ items = [i \in ItemIds |-> NoItemRow] /\ lastItem = 0 /\ gone = {}
      /\ lastToken = NoToken /\ restores = 0
      /\ indexer = [w \in Indexers |-> Quiet] /\ queue = <<>> /\ lastTask = 0
      /\ index = [i \in ItemIds |-> NoDoc]
  BY DEF IndexInit, ItemsInit
<1>2. archive.items = [i \in ItemIds |-> NoItemRow]
  BY DEF IndexInit, ItemsInit, NoArchive
<1>3. queue \in Seq(Tasks)
  BY <1>1
<1>4. IndexTypes
  BY <1>1, <1>2, <1>3, NoRowFacts, QuietFacts DEF IndexTypes, NoToken
<1>5. \A w \in Indexers : indexer[w].pc = "idle"
  BY <1>1, QuietFacts
<1>6. \A i \in ItemIds : ~Saved(i) /\ items[i].version = 0 /\ items[i].indexed = 0
                         /\ index[i] = NoDoc
  BY <1>1, NoRowFacts DEF Saved
<1>7. Ordered
  BY <1>1, <1>5, <1>6 DEF Ordered, OneAtATime, LastInQueue, UploadsKnown, RemovedStays
<1>8. Original
  BY <1>1, <1>5, <1>6 DEF Original, RowsInOrder, DocsInOrder, CleanStays
<1> QED BY <1>4, <1>7, <1>8 DEF IndexInv

LEMMA NextKeeps == ASSUME IndexInv, [Next]_vars PROVE IndexInv'
<1>1. ASSUME NEW w \in Indexers, Loop(w) PROVE IndexInv'
  BY <1>1, TakeRemovalKeeps, TakeItemKeeps, SendKeeps, GivesUpKeeps, SucceedsKeeps DEF Loop
<1>2. ASSUME NEW w \in Indexers, FindsNothing(w) PROVE IndexInv'
  BY <1>2, StutterKeeps DEF FindsNothing
<1> QED BY <1>1, <1>2, SendFailsKeeps, CrashKeeps, LoseSessionKeeps, EngineAppliesKeeps,
           EngineRefusesKeeps, ChangeKeeps, StutterKeeps DEF Next

\* The inductive invariant holds: one server works at a time, its task is the
\* last of the queue, what it uploads is known, and, while nothing was restored,
\* versions order the documents of an item.
THEOREM IndexInOrder == Spec => []IndexInv
<1>1. IndexInit => IndexInv
  BY InitKeeps
<1>2. IndexInv /\ [Next]_vars => IndexInv'
  BY NextKeeps
<1> QED BY <1>1, <1>2, PTL DEF Spec

\* IndexOnce marks the version it read and not the one of the row, and reads the
\* version before the document is sent: an item that is not dirty is found as it
\* is, whatever was edited, captured or removed while it was being indexed and
\* however often a server crashed or gave up, for any number of items, servers
\* and tasks, while no server lost its lock and nothing was restored.
THEOREM CleanItemsAreFound == Spec => []CleanMeansCurrent
<1>1. IndexInv => CleanMeansCurrent
  BY DEF IndexInv, Original, CleanStays, SameShown, CleanMeansCurrent
<1> QED BY <1>1, IndexInOrder, PTL

\* Removals are forgotten only when the engine is done with them, and the engine
\* keeps its order: what was removed is not found again, while no server lost
\* its lock.
THEOREM RemovedAreNotFound == Spec => []RemovedLeaveIndex
<1>1. IndexInv => RemovedLeaveIndex
  BY DEF IndexInv, Ordered, RemovedStays, RemovedLeaveIndex
<1> QED BY <1>1, IndexInOrder, PTL

=============================================================================
