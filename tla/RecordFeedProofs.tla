--------------------------- MODULE RecordFeedProofs ---------------------------
(***************************************************************************)
(* The safety of a recording: what is on disk and what the manifest says   *)
(* of it, what the last recorded tops say of the books, and the contract   *)
(* of a recording directory; for any venue, instruments, markets, tables   *)
(* and bounds, and any order of messages, storage errors, crashes and      *)
(* exports.                                                                *)
(***************************************************************************)
EXTENDS RecordFeed, TLAPS

\* No ladder is held, and no grace.
Clear == \A i \in Instruments : book[i].ladder = "none" /\ book[i].since = NoGrace

Looping == {"wait", "recover", "replace", "reconnect"}

\* The database, its lease and the files of the directory.
StoreInv ==
    /\ open => /\ lease = "recorder" /\ export = NoExport
               /\ manifest = NoManifest /\ failure = "none"
               /\ db.status = "recording" /\ (lost => failed)
    /\ ~open => ~pending
    /\ export # NoExport =>
          /\ ~open /\ lease = export.by /\ manifest = NoManifest
          /\ export.db = db
          /\ \A t \in Tables \ export.left : table[t] = db.commits

\* The loop and the store.
LoopInv ==
    /\ main \in Looping \cup {"ending", "closing"} => open
    /\ main \in {"export", "crashed"} => ~open
    /\ main \in Looping => count < MaxMessages

\* The verdict of the database, and that of the manifest.
VerdictInv ==
    /\ db.status = "complete" =>
          ~open /\ ~lost /\ ~rawFailed /\ \A i \in Instruments : seen[i] # "bad"
    /\ manifest.status = "complete" => db.status = "complete"
    /\ failure = "persistence" => manifest.status \in {"none", "failed"}

\* The books, and what was last recorded of them.
SeenTrue ==
    \A i \in Instruments :
        /\ seen[i] # "bad" => book[i].ladder = "intact" /\ ~book[i].conflict
        /\ seen[i] = "quoted" => ~book[i].resolved

BookInv ==
    /\ ~stale
    /\ main = "reconnect" => Clear
    /\ main = "wait" /\ feed \in {"fresh", "connect"} => Clear
    /\ main \in Looping => SeenTrue
    /\ \A i \in Instruments : book[i].ladder = "locked" => Waiting(book[i])

IInv == TypeOK /\ StoreInv /\ LoopInv /\ VerdictInv /\ BookInv

-----------------------------------------------------------------------------
(* The directory: what each call of the store and of an export keeps, and   *)
(* what a reader sees of it.                                                *)

StorePart == StoreType /\ StoreInv

Nothing == [rows |-> 0, verdict |-> "none"]

\* A step of the contract, or one that a reader does not see.
ContractStep == Contract!Next \/ UNCHANGED <<db.commits, open, Shown>>

LEMMA HiddenShown ==
    /\ manifest = NoManifest => Shown = Nothing
    /\ manifest' = NoManifest => Shown' = Nothing
  BY DEF Shown, Nothing, NoManifest

\* Nothing of the directory changes but failures, rows that are not committed, and tables
\* of which no manifest tells.
LEMMA Unseen ==
    ASSUME UNCHANGED <<db, open, manifest>>, manifest = NoManifest \/ table' = table
    PROVE  ContractStep
<1>1. Shown' = Shown
  <2>1. CASE manifest = NoManifest
    BY <2>1, HiddenShown
  <2>2. CASE table' = table
    BY <2>2 DEF Shown
  <2> QED  BY <2>1, <2>2
<1> QED  BY <1>1 DEF ContractStep

\* append, or a refused write, of a recording that is open.
LEMMA RowKeeps ==
    ASSUME StorePart, open, Stored \/ StoreFails
    PROVE  StorePart' /\ open' /\ ContractStep
<1>0. pending \in BOOLEAN /\ failed \in BOOLEAN /\ lost \in BOOLEAN /\ (lost => failed)
  BY DEF StorePart, StoreType, StoreInv
<1>1. /\ UNCHANGED <<lease, open, db, files>>
      /\ pending' \in BOOLEAN /\ failed' \in BOOLEAN /\ lost' \in BOOLEAN /\ (lost' => failed')
  <2>1. CASE Stored
    BY <1>0, <2>1 DEF Stored
  <2>2. CASE StoreFails
    BY <2>2 DEF StoreFails
  <2> QED  BY <2>1, <2>2
<1>2. StorePart'
  BY <1>1 DEF StorePart, StoreType, StoreInv, files
<1>3. ContractStep
  BY <1>1, Unseen DEF files
<1> QED  BY <1>1, <1>2, <1>3

\* flush
LEMMA CommitKeeps ==
    ASSUME StorePart, open, NEW e \in BOOLEAN, Committed(e)
    PROVE  StorePart' /\ open' /\ ContractStep
<1>1. /\ UNCHANGED <<lease, open, failed, lost, files>> /\ pending' = FALSE
      /\ db' = [db EXCEPT !.commits = @ + 1, !.ever = e]
  BY DEF Committed
<1>2. db \in Database /\ db.commits \in Nat
  BY DEF StorePart, StoreType, Database
<1>3. db' \in Database /\ db'.status = db.status /\ db'.commits = db.commits + 1
  <2>1. db' = [commits |-> db.commits + 1, status |-> db.status, ever |-> e]
    BY <1>1, <1>2 DEF Database
  <2>2. db.status \in Verdicts \cup {"recording"} /\ db.commits + 1 \in Nat
    BY <1>2 DEF Database
  <2> QED  BY <2>1, <2>2 DEF Database
<1>4. /\ export = NoExport /\ manifest = NoManifest
  BY DEF StorePart, StoreInv
<1>5. StorePart'
  BY <1>1, <1>3, <1>4 DEF StorePart, StoreType, StoreInv, files
<1>6. Contract!Commit
  <2>1. Shown = Nothing /\ Shown' = Nothing
    BY <1>1, <1>4, HiddenShown DEF files
  <2> QED  BY <1>1, <1>3, <2>1 DEF Contract!Commit, Nothing
<1> QED  BY <1>1, <1>5, <1>6 DEF ContractStep, Contract!Next

LEMMA BatchKeeps ==
    ASSUME StorePart, open, NEW e \in BOOLEAN, Written(e)
    PROVE  StorePart' /\ open' /\ ContractStep
  BY RowKeeps, CommitKeeps DEF Written

\* finish
LEMMA FinishKeeps ==
    ASSUME StorePart, open, NEW s \in Verdicts, NEW e \in BOOLEAN, FinishCommits(s, e)
    PROVE  StorePart' /\ ~open' /\ ContractStep
<1>1. /\ UNCHANGED <<failed, lost, files>> /\ pending' = FALSE /\ open' = FALSE /\ lease' = "none"
      /\ db' = [commits |-> db.commits + 1, status |-> s, ever |-> e]
  BY DEF FinishCommits
<1>2. db \in Database /\ db.commits \in Nat
  BY DEF StorePart, StoreType, Database
<1>3. db' \in Database /\ db'.commits = db.commits + 1
  BY <1>1, <1>2 DEF Database
<1>4. /\ export = NoExport /\ manifest = NoManifest
  BY DEF StorePart, StoreInv
<1>5. StorePart'
  BY <1>1, <1>3, <1>4 DEF StorePart, StoreType, StoreInv, files
<1>6. Contract!Commit
  <2>1. Shown = Nothing /\ Shown' = Nothing
    BY <1>1, <1>4, HiddenShown DEF files
  <2> QED  BY <1>1, <1>3, <2>1 DEF Contract!Commit, Nothing
<1> QED  BY <1>1, <1>5, <1>6 DEF ContractStep, Contract!Next

LEMMA FailedFinishKeeps ==
    ASSUME StorePart, open, FinishFails
    PROVE  /\ StorePart' /\ ~open' /\ ContractStep
           /\ UNCHANGED <<db, manifest>> /\ manifest = NoManifest
<1>1. /\ open' = FALSE /\ lease' = "none" /\ pending' = FALSE /\ failed' = TRUE
      /\ lost' \in BOOLEAN /\ failure' \in {"persistence", failure}
      /\ UNCHANGED <<db, table, manifest, export, exports>>
  BY DEF FinishFails, Close, StorePart, StoreType
<1>2. export = NoExport /\ manifest = NoManifest
  BY DEF StorePart, StoreInv
<1>3. StorePart'
  BY <1>1, <1>2 DEF StorePart, StoreType, StoreInv
<1>4. Contract!Stop
  <2>1. Shown' = Shown
    BY <1>1, <1>2, HiddenShown
  <2> QED  BY <1>1, <2>1 DEF Contract!Stop
<1> QED  BY <1>1, <1>2, <1>3, <1>4 DEF ContractStep, Contract!Next

\* The recorder's process dies.
LEMMA DeathKeeps ==
    ASSUME StorePart, StoreDies
    PROVE  /\ StorePart' /\ ~open' /\ ContractStep
           /\ UNCHANGED <<db, manifest, failure>> /\ lost' = (lost \/ pending)
<1>1. /\ open' = FALSE /\ pending' = FALSE /\ lost' = (lost \/ pending) /\ lost' \in BOOLEAN
      /\ UNCHANGED <<db, failed, table, manifest, failure, exports>>
      /\ lease' = IF lease = "recorder" THEN "none" ELSE lease
      /\ export' = IF export.by = "recorder" THEN NoExport ELSE export
  BY DEF StoreDies, Dies, StorePart, StoreType
<1>2. StorePart'
  <2>1. CASE export = NoExport
    <3>1. export' = NoExport
      BY <1>1, <2>1
    <3> QED  BY <1>1, <3>1 DEF StorePart, StoreType, StoreInv
  <2>2. CASE export # NoExport /\ export.by = "recorder"
    <3>1. export' = NoExport
      BY <1>1, <2>2
    <3> QED  BY <1>1, <3>1 DEF StorePart, StoreType, StoreInv
  <2>3. CASE export # NoExport /\ export.by # "recorder"
    <3>1. export' = export /\ lease' = lease
      BY <1>1, <2>3 DEF StorePart, StoreInv
    <3> QED  BY <1>1, <2>3, <3>1 DEF StorePart, StoreType, StoreInv
  <2> QED  BY <2>1, <2>2, <2>3
<1>3. Shown' = Shown
  BY <1>1 DEF Shown
<1>4. CASE open
  <2>1. Contract!Stop
    BY <1>1, <1>3, <1>4 DEF Contract!Stop
  <2> QED  BY <1>1, <1>2, <2>1 DEF ContractStep, Contract!Next
<1>5. CASE ~open
  <2>1. open' = open
    BY <1>1, <1>5 DEF StorePart, StoreType
  <2> QED  BY <1>1, <1>2, <1>3, <2>1 DEF ContractStep
<1> QED  BY <1>4, <1>5

-----------------------------------------------------------------------------
(* An export.                                                               *)

\* What a step of an export leaves alone, and what it may say.
ExportStep ==
    /\ StorePart' /\ ~open' /\ ContractStep /\ UNCHANGED store
    /\ \/ manifest' = manifest
       \/ manifest' = NoManifest
       \/ manifest'.status = Verdict(db) /\ UNCHANGED failure
    /\ failure' = "persistence" <=> failure = "persistence"

LEMMA ExportStartsKeeps ==
    ASSUME StorePart, NEW p \in {"recorder", "operator"}, ExportStarts(p),
           exports' \in 0 .. MaxExports
    PROVE  ExportStep
<1>1. /\ lease = "none" /\ export = NoExport /\ lease' = p /\ manifest' = NoManifest
      /\ export' = [by |-> p, left |-> Tables, db |-> db]
      /\ UNCHANGED <<store, table, failure>>
  BY DEF ExportStarts
<1>2. ~open
  BY <1>1 DEF StorePart, StoreInv
<1>3. export'.db = db /\ export'.by = p /\ export'.left = Tables
      /\ export' \in [by : {"recorder", "operator"}, left : SUBSET Tables, db : {db}]
  BY <1>1
<1>4. StorePart'
  BY <1>1, <1>2, <1>3 DEF StorePart, StoreType, StoreInv, store
<1>5. Contract!Withdraw
  <2>1. Shown' = Nothing
    BY <1>1, HiddenShown
  <2> QED  BY <1>1, <1>2, <2>1 DEF Contract!Withdraw, Nothing, store
<1> QED  BY <1>1, <1>2, <1>4, <1>5 DEF ExportStep, ContractStep, Contract!Next, store

\* What is known of an export under way.
LEMMA Exported ==
    ASSUME StorePart, NEW p \in {"recorder", "operator"}, export.by = p
    PROVE  /\ export # NoExport /\ ~open /\ manifest = NoManifest /\ export.db = db
           /\ export \in [by : {"recorder", "operator"}, left : SUBSET Tables, db : {db}]
           /\ export.left \subseteq Tables /\ db \in Database /\ db.commits \in Nat
           /\ lease = p /\ table \in [Tables -> Nat]
           /\ \A t \in Tables \ export.left : table[t] = db.commits
<1>1. export # NoExport
  BY DEF NoExport
<1> QED  BY <1>1 DEF StorePart, StoreType, StoreInv, Database

LEMMA ExportTableKeeps ==
    ASSUME StorePart, NEW p \in {"recorder", "operator"}, ExportTable(p)
    PROVE  ExportStep
<1>1. PICK t \in export.left :
        /\ table' = [table EXCEPT ![t] = export.db.commits]
        /\ export' = [export EXCEPT !.left = @ \ {t}]
  BY DEF ExportTable
<1>2. UNCHANGED <<lease, store, manifest, failure, exports>> /\ export.by = p
  BY DEF ExportTable
<1>3. t \in Tables /\ ~open /\ manifest = NoManifest
  BY <1>2, Exported
<1>4. table' \in [Tables -> Nat] /\ table'[t] = db.commits
      /\ \A s \in Tables \ {t} : table'[s] = table[s]
  BY <1>1, <1>2, <1>3, Exported
<1>5. /\ export' \in [by : {"recorder", "operator"}, left : SUBSET Tables, db : {db}]
      /\ export'.by = export.by /\ export'.db = db /\ export'.left = export.left \ {t}
  BY <1>1, <1>2, Exported
<1>6. \A s \in Tables \ export'.left : table'[s] = db.commits
  BY <1>2, <1>4, <1>5, Exported
<1>7. StorePart'
  BY <1>2, <1>3, <1>4, <1>5, <1>6, Exported DEF StorePart, StoreType, StoreInv, store
<1>8. ContractStep
  BY <1>2, <1>3, Unseen DEF store
<1> QED  BY <1>2, <1>3, <1>7, <1>8 DEF ExportStep, store

\* The verdict an export gives.
LEMMA VerdictType ==
    ASSUME NEW d \in Database
    PROVE  /\ Verdict(d) \in Verdicts
           /\ failure = "persistence" => Verdict(d) = "failed"
           /\ Verdict(d) = "complete" => d.status = "complete"
<1>1. CASE failure = "persistence"
  <2>1. Verdict(d) = "failed"
    BY ONLY <1>1 DEF Verdict
  <2> QED  BY <2>1 DEF Verdicts
<1>2. CASE failure # "persistence" /\ d.status = "recording"
  <2>1. Verdict(d) \in {"partial", "failed"}
    BY ONLY <1>2 DEF Verdict
  <2> QED  BY <1>2, <2>1 DEF Verdicts
<1>3. CASE failure # "persistence" /\ d.status # "recording"
  <2>1. Verdict(d) = d.status
    BY ONLY <1>3 DEF Verdict
  <2> QED  BY <1>3, <2>1 DEF Database
<1> QED  BY <1>1, <1>2, <1>3

LEMMA ExportManifestKeeps ==
    ASSUME StorePart, NEW p \in {"recorder", "operator"}, ExportManifest(p)
    PROVE  ExportStep
<1>1. /\ manifest' = [commits |-> export.db.commits, status |-> Verdict(export.db)]
      /\ export' = NoExport /\ lease' = "none" /\ export.left = {} /\ export.by = p
      /\ UNCHANGED <<store, table, failure, exports>>
  BY DEF ExportManifest
<1>2. /\ export.db = db /\ ~open /\ db \in Database /\ db.commits \in Nat /\ manifest = NoManifest
      /\ \A t \in Tables : table[t] = db.commits
  BY <1>1, Exported
<1>3. Verdict(db) \in Verdicts
  BY <1>2, VerdictType
<1>4. /\ manifest'.status = Verdict(db) /\ manifest'.commits = db.commits
      /\ manifest' \in [commits : Nat, status : Verdicts] /\ manifest' # NoManifest
  BY <1>1, <1>2, <1>3 DEF Verdicts, NoManifest
<1>5. StorePart'
  BY <1>1, <1>2, <1>4 DEF StorePart, StoreType, StoreInv, store
<1>6. Contract!Publish
  <2>1. Shown = Nothing
    BY <1>2, HiddenShown
  <2>2. Shown' = [rows |-> db.commits, verdict |-> Verdict(db)]
    BY <1>1, <1>2, <1>4 DEF Shown
  <2>3. db' = db /\ open' = open
    BY <1>1 DEF store
  <2> QED  BY <1>2, <1>3, <2>1, <2>2, <2>3 DEF Contract!Publish, Contract!Verdicts, Verdicts, Nothing
<1> QED  BY <1>1, <1>2, <1>4, <1>5, <1>6 DEF ExportStep, ContractStep, Contract!Next, store

LEMMA ExportFailsKeeps ==
    ASSUME StorePart, NEW p \in {"recorder", "operator"}, ExportFails(p)
    PROVE  ExportStep
<1>1. /\ manifest' = NoManifest /\ export' = NoExport /\ lease' = "none" /\ export.by = p
      /\ failure' \in {failure, IF failure = "persistence" THEN failure ELSE "export"}
      /\ UNCHANGED <<store, table, exports>>
  BY DEF ExportFails
<1>2. ~open /\ manifest = NoManifest
  BY <1>1, Exported
<1>3. failure' \in {"none", "persistence", "export"}
      /\ (failure' = "persistence" <=> failure = "persistence")
  BY <1>1 DEF StorePart, StoreType
<1>4. StorePart'
  BY <1>1, <1>2, <1>3 DEF StorePart, StoreType, StoreInv, store
<1>5. ContractStep
  BY <1>1, <1>2, Unseen DEF store
<1> QED  BY <1>1, <1>2, <1>3, <1>4, <1>5 DEF ExportStep, store

LEMMA OperatorKeeps ==
    ASSUME StorePart, Operator
    PROVE  ExportStep
<1>1. CASE OperatorExports
  <2>1. ExportStarts("operator") /\ exports' \in 0 .. MaxExports
    BY <1>1, StoreAssumption DEF OperatorExports, StorePart, StoreType
  <2> QED  BY <2>1, ExportStartsKeeps
<1>2. CASE export.by = "operator" /\ Dies("operator") /\ UNCHANGED store
  <2>1. /\ lease' = "none" /\ export' = NoExport /\ ~open /\ manifest = NoManifest
        /\ UNCHANGED <<table, manifest, failure, exports, store>>
    BY <1>2, Exported DEF Dies
  <2>2. StorePart'
    BY <2>1 DEF StorePart, StoreType, StoreInv, store
  <2>3. ContractStep
    BY <2>1, Unseen DEF store
  <2> QED  BY <2>1, <2>2, <2>3 DEF ExportStep, store
<1> QED
  BY <1>1, <1>2, ExportTableKeeps, ExportManifestKeeps, ExportFailsKeeps DEF Operator

-----------------------------------------------------------------------------
(* The books: what a message may make of one.                               *)

BookType == [ladder : {"none", "intact", "locked", "broken"}, conflict : BOOLEAN,
             market : Markets \cup {None}, resolved : BOOLEAN, since : NoGrace .. MaxFollowup]

\* A book that is locked has its grace.
Sound(b) == b \in BookType /\ (b.ladder = "locked" => Waiting(b))

\* The grace of a book has room for one more message.
Young(b) == Waiting(b) => b.since + 1 < MaxFollowup

LEMMA BookFields ==
    ASSUME NEW b \in BookType
    PROVE  /\ b.ladder \in {"none", "intact", "locked", "broken"} /\ b.conflict \in BOOLEAN
           /\ b.market \in Markets \cup {None} /\ b.resolved \in BOOLEAN
           /\ b.since \in NoGrace .. MaxFollowup /\ b.since \in Int /\ MaxFollowup \in Nat
           /\ MaxFollowup >= 1 /\ NoGrace = -1
  BY RecordAssumption DEF BookType, NoGrace

LEMMA Built ==
    ASSUME NEW b \in BookType, NEW l \in {"none", "intact", "locked", "broken"},
           NEW c \in BOOLEAN, NEW m \in Markets \cup {None}, NEW r \in BOOLEAN,
           NEW s \in NoGrace .. MaxFollowup
    PROVE  /\ [b EXCEPT !.ladder = l, !.conflict = c, !.since = s] \in BookType
           /\ [b EXCEPT !.ladder = l, !.since = s, !.conflict = c] \in BookType
           /\ [b EXCEPT !.ladder = l, !.since = s] \in BookType
           /\ [b EXCEPT !.ladder = l] \in BookType
           /\ [b EXCEPT !.since = s] \in BookType
           /\ [b EXCEPT !.market = m] \in BookType
           /\ [b EXCEPT !.market = m, !.resolved = r] \in BookType
  BY DEF BookType

LEMMA GraceRange ==
    /\ NoGrace \in NoGrace .. MaxFollowup /\ 0 \in NoGrace .. MaxFollowup /\ NoGrace # 0
  BY RecordAssumption DEF NoGrace

LEMMA AgedSound ==
    ASSUME NEW b, Sound(b), Young(b)
    PROVE  /\ Sound(Aged(b))
           /\ Aged(b).ladder = b.ladder
           /\ Waiting(Aged(b)) <=> Waiting(b)
<1>1. CASE Waiting(b)
  <2> DEFINE s == b.since + 1
  <2>1. b \in BookType /\ s \in NoGrace .. MaxFollowup /\ s # NoGrace
    BY <1>1, BookFields DEF Sound, Young, Waiting
  <2>2. Aged(b) = [b EXCEPT !.since = s]
    BY <1>1 DEF Aged
  <2> HIDE DEF s
  <2>3. Aged(b).ladder = b.ladder /\ Aged(b).since = s
    BY <2>1, <2>2 DEF BookType
  <2>4. Aged(b) \in BookType
    BY <2>1, <2>2 DEF BookType
  <2> QED  BY <1>1, <2>1, <2>3, <2>4 DEF Sound, Waiting
<1>2. CASE ~Waiting(b)
  BY <1>2 DEF Aged
<1> QED  BY <1>1, <1>2

LEMMA ConflictingSound ==
    ASSUME NEW b, Sound(b)
    PROVE  Sound(Conflicting(b))
<1> DEFINE c == [b EXCEPT !.ladder = "none", !.conflict = TRUE, !.since = NoGrace]
<1>1. c \in BookType /\ c.ladder = "none"
  BY GraceRange DEF Sound, BookType
<1> QED  BY <1>1 DEF Conflicting, Sound

LEMMA NamedSound ==
    ASSUME NEW b, Sound(b), NEW m \in Markets \cup {None}
    PROVE  /\ Sound(Named(b, m))
           /\ Named(b, m).ladder = b.ladder /\ Named(b, m).since = b.since
  BY DEF Named, Sound, BookType, Waiting

LEMMA WithBookSound ==
    ASSUME NEW b, Sound(b), NEW m \in Markets \cup {None}, NEW l \in {"intact", "broken"}
    PROVE  Sound(WithBook(b, m, l))
<1> DEFINE n == Named(b, m)
           c == b.conflict /\ l # "intact"
           d == [n EXCEPT !.ladder = l, !.since = NoGrace, !.conflict = c]
<1>1. n \in BookType /\ c \in BOOLEAN
  BY NamedSound, BookFields DEF Sound
<1>2. WithBook(b, m, l) = d
  BY DEF WithBook
<1> HIDE DEF n, c
<1>3. d \in BookType /\ d.ladder = l
  BY <1>1, GraceRange DEF BookType
<1> QED  BY <1>2, <1>3 DEF Sound

LEMMA WithDeltaSound ==
    ASSUME NEW b, Sound(b), NEW m \in Markets \cup {None},
           NEW l \in {"none", "intact", "locked", "broken"},
           l = "locked" => b.ladder \in {"intact", "locked"}
    PROVE  Sound(WithDelta(b, m, l))
<1> DEFINE n == Named(b, m)
           s == IF l # "locked" THEN NoGrace ELSE IF b.ladder = "intact" THEN 0 ELSE b.since
           d == [n EXCEPT !.ladder = l, !.since = s]
<1>1. n \in BookType
  BY NamedSound DEF Sound
<1>2. s \in NoGrace .. MaxFollowup /\ (l = "locked" => s # NoGrace)
  BY GraceRange, BookFields DEF Sound, Waiting
<1>3. WithDelta(b, m, l) = d
  BY DEF WithDelta
<1> HIDE DEF n, s
<1>4. d \in BookType /\ d.ladder = l /\ d.since = s
  BY <1>1, <1>2 DEF BookType
<1> QED  BY <1>2, <1>3, <1>4 DEF Sound, Waiting

\* Only an intact or a locked book is locked by a delta, and only Polymarket's.
LEMMA DeltaLocks ==
    ASSUME NEW b \in BookType, NEW l \in AfterDelta(b)
    PROVE  /\ l \in {"none", "intact", "locked", "broken"}
           /\ l = "locked" => b.ladder \in {"intact", "locked"} /\ Polymarket
<1>1. CASE b.ladder = "none"
  <2>1. l \in {"none"}
    BY ONLY <1>1, l \in AfterDelta(b) DEF AfterDelta
  <2> QED  BY <2>1
<1>2. CASE b.ladder = "broken"
  <2>1. l \in {"broken"}
    BY ONLY <1>2, l \in AfterDelta(b) DEF AfterDelta
  <2> QED  BY <2>1
<1>3. CASE b.ladder \in {"intact", "locked"}
  <2>1. l \in IF Polymarket THEN {"intact", "locked", "broken"} ELSE {"intact", "broken"}
    BY ONLY <1>3, l \in AfterDelta(b) DEF AfterDelta
  <2> QED  BY <1>3, <2>1
<1> QED  BY <1>1, <1>2, <1>3, BookFields

BooksSound(bs) == bs \in [Instruments -> BookType] /\ \A i \in Instruments : Sound(bs[i])

LEMMA AfterBookSound ==
    ASSUME BooksSound(book), \A j \in Instruments : Young(book[j]),
           NEW i \in Instruments, NEW m \in MaybeMarket, NEW l \in {"intact", "broken"}
    PROVE  BooksSound(AfterBook(i, m, l))
<1>1. AgedBooks \in [Instruments -> BookType] /\ \A j \in Instruments : Sound(AgedBooks[j])
  BY AgedSound DEF BooksSound, AgedBooks, Sound
<1> DEFINE x == IF Rejected(i, m, "book") THEN Conflicting(AgedBooks[i])
                ELSE WithBook(AgedBooks[i], m, l)
<1>2. Sound(x)
  BY <1>1, ConflictingSound, WithBookSound DEF MaybeMarket
<1>3. AfterBook(i, m, l) = [AgedBooks EXCEPT ![i] = x]
  BY <1>1 DEF AfterBook
<1> HIDE DEF x
<1> QED  BY <1>1, <1>2, <1>3 DEF BooksSound, Sound

LEMMA AfterTickSizeSound ==
    ASSUME BooksSound(book), \A j \in Instruments : Young(book[j]),
           NEW i \in Instruments, NEW m \in MaybeMarket
    PROVE  BooksSound(AfterTickSize(i, m))
<1>1. AgedBooks \in [Instruments -> BookType] /\ \A j \in Instruments : Sound(AgedBooks[j])
  BY AgedSound DEF BooksSound, AgedBooks, Sound
<1> DEFINE x == IF Rejected(i, m, "tick_size_change") THEN Conflicting(AgedBooks[i])
                ELSE Named(AgedBooks[i], m)
<1>2. Sound(x)
  BY <1>1, ConflictingSound, NamedSound DEF MaybeMarket
<1>3. AfterTickSize(i, m) = [AgedBooks EXCEPT ![i] = x]
  BY <1>1 DEF AfterTickSize
<1> HIDE DEF x
<1> QED  BY <1>1, <1>2, <1>3 DEF BooksSound, Sound

LEMMA AfterDeltasSound ==
    ASSUME BooksSound(book), \A j \in Instruments : Young(book[j]),
           NEW S \in SUBSET Instruments, NEW m \in MaybeMarket, NEW ls,
           \A i \in S : ls[i] \in AfterDelta(book[i])
    PROVE  BooksSound(AfterDeltas(S, m, ls))
<1> DEFINE x(i) == IF i \notin S THEN Aged(book[i])
                   ELSE IF Rejected(i, m, "price_change") THEN Conflicting(book[i])
                   ELSE WithDelta(Aged(book[i]), m, ls[i])
<1>1. ASSUME NEW i \in Instruments  PROVE Sound(x(i))
  <2>1. Sound(book[i]) /\ Young(book[i]) /\ book[i] \in BookType
    BY DEF BooksSound, Sound
  <2>2. Sound(Aged(book[i])) /\ Aged(book[i]).ladder = book[i].ladder
    BY <2>1, AgedSound
  <2>3. CASE i \notin S
    BY <2>2, <2>3
  <2>4. CASE i \in S
    <3>1. /\ ls[i] \in {"none", "intact", "locked", "broken"}
          /\ ls[i] = "locked" => book[i].ladder \in {"intact", "locked"}
      BY <2>1, <2>4, DeltaLocks
    <3>2. Sound(Conflicting(book[i])) /\ Sound(WithDelta(Aged(book[i]), m, ls[i]))
      BY <2>1, <2>2, <3>1, ConflictingSound, WithDeltaSound DEF MaybeMarket
    <3> QED  BY <2>4, <3>2
  <2> QED  BY <2>3, <2>4
<1>2. AfterDeltas(S, m, ls) = [i \in Instruments |-> x(i)]
  BY DEF AfterDeltas
<1> HIDE DEF x
<1> QED  BY <1>1, <1>2 DEF BooksSound, Sound

LEMMA AfterLifecycleSound ==
    ASSUME BooksSound(book), \A j \in Instruments : Young(book[j]),
           NEW S, NEW m \in MaybeMarket, NEW r \in BOOLEAN
    PROVE  BooksSound(AfterLifecycle(S, m, r))
<1> DEFINE y(i) == [Aged(book[i]) EXCEPT !.market = IF @ = None THEN m ELSE @, !.resolved = @ \/ r]
           x(i) == IF i \in S \/ (m # None /\ book[i].market = m) THEN y(i) ELSE Aged(book[i])
<1>1. ASSUME NEW i \in Instruments  PROVE Sound(x(i))
  <2> DEFINE a == Aged(book[i])
  <2>1. Sound(a)
    BY AgedSound DEF BooksSound
  <2>2. y(i) = [a EXCEPT !.market = IF @ = None THEN m ELSE @, !.resolved = @ \/ r]
    OBVIOUS
  <2> HIDE DEF a, y
  <2>3. a \in BookType
    BY <2>1 DEF Sound
  <2>4. y(i) = [ladder |-> a.ladder, conflict |-> a.conflict,
                market |-> IF a.market = None THEN m ELSE a.market,
                resolved |-> a.resolved \/ r, since |-> a.since]
    BY <2>2, <2>3 DEF BookType
  <2>5. y(i) \in BookType /\ y(i).ladder = a.ladder /\ y(i).since = a.since
    <3> DEFINE q == a.resolved \/ r
    <3>1. q \in BOOLEAN
      OBVIOUS
    <3>2. y(i) = [ladder |-> a.ladder, conflict |-> a.conflict,
                  market |-> IF a.market = None THEN m ELSE a.market,
                  resolved |-> q, since |-> a.since]
      BY <2>4
    <3> HIDE DEF q
    <3> QED  BY <2>3, <3>1, <3>2, BookFields DEF BookType, MaybeMarket
  <2>6. Sound(y(i))
    BY <2>1, <2>5 DEF Sound, Waiting
  <2> QED  BY <2>1, <2>6 DEF a
<1>2. AfterLifecycle(S, m, r) = [i \in Instruments |-> x(i)]
  BY DEF AfterLifecycle
<1> HIDE DEF x, y
<1> QED  BY <1>1, <1>2 DEF BooksSound, Sound

LEMMA AfterKalshiSound ==
    ASSUME BooksSound(book), NEW i \in Instruments, NEW l \in {"none", "intact", "broken"}, NEW S
    PROVE  BooksSound(AfterKalshi(i, l, S))
<1> DEFINE x(j) == IF j \in S /\ (j = i \/ book[j].ladder # "none") /\ l # "none"
                   THEN [book[j] EXCEPT !.ladder = "broken"]
                   ELSE IF j = i THEN [book[j] EXCEPT !.ladder = l] ELSE book[j]
<1>1. ASSUME NEW j \in Instruments  PROVE Sound(x(j))
  <2>1. Sound(book[j]) /\ book[j] \in BookType
    BY DEF BooksSound, Sound
  <2>2. ASSUME NEW k \in {"none", "intact", "broken"}
        PROVE  Sound([book[j] EXCEPT !.ladder = k])
    <3>1. [book[j] EXCEPT !.ladder = k] \in BookType /\ [book[j] EXCEPT !.ladder = k].ladder = k
      BY <2>1 DEF BookType
    <3> QED  BY <3>1 DEF Sound
  <2> QED  BY <2>1, <2>2
<1>2. AfterKalshi(i, l, S) = [j \in Instruments |-> x(j)]
  BY DEF AfterKalshi
<1> HIDE DEF x
<1> QED  BY <1>1, <1>2 DEF BooksSound, Sound

\* Whatever the message, when no grace is over.
LEMMA MessageSound ==
    ASSUME BooksSound(book), \A j \in Instruments : Young(book[j]), NEW bs \in Messages
    PROVE  BooksSound(bs)
<1>1. CASE bs = AgedBooks
  BY <1>1, AgedSound DEF BooksSound, AgedBooks, Sound
<1>2. CASE Polymarket /\ bs # AgedBooks
  <2> DEFINE Locals(S) == {f \in [S -> {"none", "intact", "locked", "broken"}] :
                             \A i \in S : f[i] \in AfterDelta(book[i])}
             A == {AfterBook(i, m, l) : i \in Instruments, m \in MaybeMarket, l \in {"intact", "broken"}}
             B == UNION {{AfterDeltas(S, m, l) : m \in MaybeMarket, l \in Locals(S)} :
                         S \in (SUBSET Instruments) \ {{}}}
             C == {AfterTickSize(i, m) : i \in Instruments, m \in MaybeMarket}
             D == {AfterLifecycle(S, m, r) : S \in SUBSET Instruments, m \in MaybeMarket, r \in BOOLEAN}
             K == {AfterKalshi(i, l, S) : i \in Instruments, l \in {"intact", "broken"}, S \in SUBSET Instruments}
                    \cup (UNION {{AfterKalshi(i, l, S) : l \in AfterDelta(book[i]), S \in SUBSET Instruments} :
                                 i \in Instruments})
  <2>1. bs \in A \/ bs \in B \/ bs \in C \/ bs \in D
    <3>1. Messages = {AgedBooks} \cup IF Polymarket THEN A \cup B \cup C \cup D ELSE K
      BY DEF Messages
    <3> HIDE DEF A, B, C, D, K
    <3> QED  BY <1>2, <3>1
  <2>2. CASE bs \in A
    BY <2>2, AfterBookSound
  <2>3. CASE bs \in B
    <3>1. PICK S \in (SUBSET Instruments) \ {{}} :
              bs \in {AfterDeltas(S, m, l) : m \in MaybeMarket, l \in Locals(S)}
      BY <2>3
    <3>2. PICK m \in MaybeMarket, l \in Locals(S) : bs = AfterDeltas(S, m, l)
      BY <3>1
    <3>3. \A i \in S : l[i] \in AfterDelta(book[i])
      BY <3>2
    <3> QED  BY <3>2, <3>3, AfterDeltasSound
  <2>4. CASE bs \in C
    BY <2>4, AfterTickSizeSound
  <2>5. CASE bs \in D
    BY <2>5, AfterLifecycleSound
  <2> QED  BY <2>1, <2>2, <2>3, <2>4, <2>5
<1>3. CASE ~Polymarket /\ bs # AgedBooks
  <2>1. \/ \E i \in Instruments, l \in {"intact", "broken"}, S \in SUBSET Instruments :
              bs = AfterKalshi(i, l, S)
        \/ \E i \in Instruments : \E l \in AfterDelta(book[i]), S \in SUBSET Instruments :
              bs = AfterKalshi(i, l, S)
    BY <1>3 DEF Messages
  <2>2. \A i \in Instruments : \A l \in AfterDelta(book[i]) : l \in {"none", "intact", "broken"}
    BY <1>3, DeltaLocks DEF BooksSound, Sound
  <2> QED  BY <2>1, <2>2, AfterKalshiSound
<1> QED  BY <1>1, <1>2, <1>3

-----------------------------------------------------------------------------
(* The steps.                                                               *)

Mains == {"wait", "recover", "replace", "reconnect", "ending", "closing", "export", "over", "crashed"}
Feeds == {"fresh", "retry", "connect", "read", "message", "ended", "error", "deadline"}

\* The types of what the loop and its receive task keep.
TaskType ==
    /\ venue \in {"polymarket", "kalshi"} /\ main \in Mains /\ feed \in Feeds
    /\ used \in 0 .. MaxReconnects /\ link \in BOOLEAN /\ stale \in BOOLEAN
EndType ==
    /\ count \in 0 .. MaxMessages
    /\ expired \in BOOLEAN /\ cancelled \in BOOLEAN /\ normal \in BOOLEAN /\ rawFailed \in BOOLEAN
SeenType ==
    /\ late \subseteq Instruments /\ ever \in BOOLEAN
    /\ seen \in [Instruments -> {"bad", "intact", "quoted"}]

LEMMA InvParts ==
    /\ IInv <=> /\ StorePart /\ TaskType /\ EndType /\ SeenType /\ BooksSound(book)
                /\ LoopInv /\ VerdictInv /\ BookInv
    /\ IInv' <=> /\ StorePart' /\ TaskType' /\ EndType' /\ SeenType' /\ BooksSound(book')
                 /\ LoopInv' /\ VerdictInv' /\ BookInv'
  BY DEF IInv, TypeOK, StorePart, TaskType, EndType, SeenType, BooksSound, Sound, BookInv,
         Mains, Feeds, BookType

\* Every step keeps the invariant, and the contract of the directory.
StepOK == IInv' /\ ContractStep

\* While the recorder has its database open there is no verdict.
LEMMA OpenVerdict ==
    ASSUME StorePart', open'
    PROVE  VerdictInv'
  BY DEF StorePart, StoreInv, VerdictInv, NoManifest

\* Nothing of the directory changes.
LEMMA StorageStays ==
    ASSUME StorePart, UNCHANGED storage
    PROVE  StorePart' /\ ContractStep /\ open' = open /\ UNCHANGED <<db, lost, manifest, failure>>
<1>1. UNCHANGED <<lease, open, db, pending, failed, lost, table, manifest, failure, export, exports>>
  BY DEF storage, store, files
<1>2. StorePart'
  BY <1>1 DEF StorePart, StoreType, StoreInv
<1>3. ContractStep
  BY <1>1, Unseen
<1> QED  BY <1>1, <1>2, <1>3

LEMMA ObservedKeeps ==
    ASSUME NEW bs, BooksSound(bs), Observed(bs), SeenType
    PROVE  BooksSound(book') /\ SeenType' /\ SeenTrue'
<1>1. \A i \in Instruments :
         /\ Top(bs[i]) \in {"bad", "intact", "quoted"}
         /\ Top(bs[i]) # "bad" => bs[i].ladder = "intact" /\ ~bs[i].conflict
         /\ Top(bs[i]) = "quoted" => ~bs[i].resolved
  BY DEF Top, Intact
<1>2. /\ book' = bs /\ seen' = [i \in Instruments |-> Top(bs[i])]
      /\ late' \subseteq late /\ ever' \in BOOLEAN
  BY DEF Observed, SeenType
<1> QED  BY <1>1, <1>2 DEF SeenType, SeenTrue

LEMMA DisconnectedKeeps ==
    ASSUME BooksSound(book), Disconnected, SeenType
    PROVE  BooksSound(book') /\ SeenType' /\ SeenTrue' /\ Clear'
<1>1. /\ book' = [i \in Instruments |-> ResetBook(book[i])]
      /\ seen' = [i \in Instruments |-> "bad"] /\ late' = {} /\ ever' = ever
  BY DEF Disconnected
<1>2. ASSUME NEW i \in Instruments
      PROVE  /\ Sound(ResetBook(book[i]))
             /\ ResetBook(book[i]).ladder = "none" /\ ResetBook(book[i]).since = NoGrace
  <2>1. book[i] \in BookType
    BY DEF BooksSound
  <2>2. ResetBook(book[i]) \in BookType /\ ResetBook(book[i]).ladder = "none"
        /\ ResetBook(book[i]).since = NoGrace
    BY <2>1, GraceRange DEF ResetBook, BookType
  <2> QED  BY <2>2 DEF Sound
<1>3. BooksSound(book')
  BY <1>1, <1>2 DEF BooksSound, Sound
<1> QED  BY <1>1, <1>2, <1>3 DEF SeenType, SeenTrue, Clear

\* The loop ends on an error.
LEMMA Interrupts ==
    ASSUME IInv, main \in Looping, StorePart', open', ContractStep, Interrupted,
           feed' \in Feeds, used' \in 0 .. MaxReconnects, link' \in BOOLEAN,
           count' \in 0 .. MaxMessages, cancelled' \in BOOLEAN, rawFailed' \in BOOLEAN,
           UNCHANGED <<venue, stale, expired>>
    PROVE  StepOK
<1>1. /\ main' = "ending" /\ normal' = FALSE /\ UNCHANGED <<book, late, ever>>
      /\ seen' \in {seen, [i \in Instruments |-> "bad"]}
  BY DEF Interrupted
<1>2. BooksSound(book') /\ SeenType'
  BY <1>1, InvParts DEF SeenType
<1>3. TaskType' /\ EndType'
  BY <1>1, InvParts DEF TaskType, EndType, Mains
<1>4. LoopInv' /\ BookInv'
  BY <1>1, InvParts DEF LoopInv, BookInv, Looping
<1> QED  BY <1>2, <1>3, <1>4, OpenVerdict, InvParts DEF StepOK

\* A step of a living loop that leaves the books and what was said of them alone.
LEMMA LoopSteps ==
    ASSUME IInv, StorePart', open', ContractStep, UNCHANGED <<books, count>>,
           TaskType', EndType', ~stale',
           main' \in Looping => main \in Looping,
           main' \notin {"export", "crashed"},
           main' = "reconnect" \/ (main' = "wait" /\ feed' \in {"fresh", "connect"}) => Clear
    PROVE  StepOK
<1>1. BooksSound(book') /\ SeenType'
  BY InvParts DEF books, SeenType
<1>2. LoopInv'
  BY InvParts DEF LoopInv
<1>3. BookInv'
  BY InvParts DEF BookInv, books, SeenTrue, Clear, Waiting
<1> QED  BY <1>1, <1>2, <1>3, OpenVerdict, InvParts DEF StepOK

\* What the invariant says of a living loop.
LEMMA Living ==
    ASSUME IInv, main \in Looping \cup {"ending", "closing"}
    PROVE  /\ StorePart /\ open /\ TaskType /\ EndType /\ SeenType /\ BooksSound(book)
           /\ ~stale /\ LoopInv /\ BookInv
  BY InvParts DEF LoopInv, BookInv

LEMMA RaisesKeeps ==
    ASSUME IInv, main \in Looping, Raises \/ WriteFails,
           feed' \in Feeds, used' \in 0 .. MaxReconnects, link' \in BOOLEAN,
           count' \in 0 .. MaxMessages, cancelled' \in BOOLEAN,
           UNCHANGED <<venue, stale, expired>>
    PROVE  StepOK
<1>1. StorePart /\ open /\ rawFailed \in BOOLEAN
  BY Living DEF EndType
<1>2. (Stored \/ StoreFails) /\ Interrupted /\ rawFailed' \in BOOLEAN
  BY <1>1 DEF Raises, WriteFails
<1>3. StorePart' /\ open' /\ ContractStep
  BY <1>1, <1>2, RowKeeps
<1> QED  BY <1>2, <1>3, Interrupts

LEMMA GraceEndsStep ==
    ASSUME IInv, GraceEnds
    PROVE  StepOK
<1>1. /\ main = "wait" /\ main' = "recover"
      /\ UNCHANGED <<storage, venue, feed, link, used, stale, ends, books>>
  BY DEF GraceEnds
<1>2. StorePart /\ open /\ TaskType /\ EndType /\ ~stale
  BY <1>1, Living DEF Looping
<1>3. StorePart' /\ open' /\ ContractStep
  BY <1>1, <1>2, StorageStays
<1>4. TaskType' /\ EndType' /\ ~stale' /\ count' = count
  BY <1>1, <1>2 DEF TaskType, EndType, ends, Mains
<1> QED  BY <1>1, <1>3, <1>4, LoopSteps DEF Looping

\* No grace is over.
LEMMA NotOverdue ==
    ASSUME BooksSound(book), ~Overdue(1)
    PROVE  \A j \in Instruments : Young(book[j]) /\ (Waiting(book[j]) => j \notin late)
<1> SUFFICES ASSUME NEW j \in Instruments, Waiting(book[j])
             PROVE  book[j].since + 1 < MaxFollowup /\ j \notin late
  BY DEF Young
<1>1. ~(j \in late \/ book[j].since + 1 >= MaxFollowup)
  BY DEF Overdue
<1>2. book[j].since \in Int /\ MaxFollowup \in Nat
  BY BookFields DEF BooksSound
<1> QED  BY <1>1, <1>2

LEMMA RecordsStep ==
    ASSUME IInv, Records
    PROVE  StepOK
<1>1. /\ main = "wait" /\ feed = "message" /\ ~Overdue(1) /\ count' = count + 1
      /\ UNCHANGED <<venue, link, used, stale, expired, cancelled>> /\ feed' = "read"
  BY DEF Records
<1>2. /\ StorePart /\ open /\ TaskType /\ EndType /\ SeenType /\ ~stale /\ BooksSound(book)
      /\ LoopInv
  BY <1>1, Living DEF Looping
<1>3. count \in 0 .. MaxMessages /\ count < MaxMessages /\ MaxMessages \in Nat
      /\ count' \in 0 .. MaxMessages
  BY <1>1, <1>2, RecordAssumption DEF EndType, LoopInv, Looping
<1>4. CASE WriteFails \/ Raises
  BY <1>1, <1>2, <1>3, <1>4, RaisesKeeps DEF Looping, Feeds, TaskType, EndType
<1>5. ASSUME NEW bs \in Messages, Observed(bs), UNCHANGED rawFailed,
             \/ count' = MaxMessages /\ Stored /\ main' = "ending" /\ normal' = TRUE
             \/ /\ count' < MaxMessages /\ Written(ever')
                /\ IF Due(bs) THEN main' = "recover" /\ UNCHANGED normal ELSE Continue
      PROVE  StepOK
  <2>1. BooksSound(book') /\ SeenType' /\ SeenTrue'
    BY <1>1, <1>2, <1>5, MessageSound, NotOverdue, ObservedKeeps
  <2>2. StorePart' /\ open' /\ ContractStep
    BY <1>2, <1>5, <2>1, RowKeeps, BatchKeeps DEF SeenType
  <2>3. /\ main' \in {"ending", "recover", "wait"} /\ normal' \in BOOLEAN
        /\ main' # "ending" => count' < MaxMessages
    BY <1>2, <1>5 DEF Continue, EndType
  <2>4. TaskType' /\ EndType'
    BY <1>1, <1>2, <1>3, <1>5, <2>3 DEF TaskType, EndType, Mains, Feeds
  <2>5. LoopInv'
    BY <2>2, <2>3 DEF LoopInv, Looping
  <2>6. BookInv'
    BY <1>1, <1>2, <2>1, <2>3 DEF BookInv, BooksSound, Sound
  <2> QED  BY <2>1, <2>2, <2>4, <2>5, <2>6, OpenVerdict, InvParts DEF StepOK
<1> QED  BY <1>4, <1>5 DEF Records

LEMMA FeedStopsStep ==
    ASSUME IInv, FeedStops
    PROVE  StepOK
<1>1. /\ main = "wait" /\ feed \in {"ended", "error", "deadline"}
      /\ UNCHANGED <<venue, feed, link, used, stale, count, expired, cancelled>>
  BY DEF FeedStops
<1>2. StorePart /\ open /\ TaskType /\ EndType /\ ~stale
  BY <1>1, Living DEF Looping
<1>3. CASE Raises
  BY <1>1, <1>2, <1>3, RaisesKeeps DEF Looping, TaskType, EndType
<1>4. CASE /\ main' = "ending" /\ normal' = (feed = "deadline")
           /\ UNCHANGED <<storage, rawFailed, books>>
  <2>1. StorePart' /\ open' /\ ContractStep
    BY <1>2, <1>4, StorageStays
  <2>2. normal' \in BOOLEAN
    BY <1>4
  <2>3. TaskType' /\ EndType' /\ ~stale'
    BY <1>1, <1>2, <1>4, <2>2 DEF TaskType, EndType, Mains
  <2> QED  BY <1>1, <1>4, <2>1, <2>3, LoopSteps DEF Looping
<1> QED  BY <1>3, <1>4 DEF FeedStops

LEMMA TimerStep ==
    ASSUME IInv, Timer
    PROVE  StepOK
<1>1. /\ main = "wait" /\ UNCHANGED <<venue, feed, link, used, stale, count, expired, cancelled>>
  BY DEF Timer
<1>2. StorePart /\ open /\ TaskType /\ EndType /\ SeenType /\ ~stale /\ BookInv
  BY <1>1, Living DEF Looping
<1>3. CASE WriteFails
  BY <1>1, <1>2, <1>3, RaisesKeeps DEF Looping, TaskType, EndType
<1>4. CASE /\ Written(ever) /\ UNCHANGED <<rawFailed, books>>
           /\ IF Due(book) THEN main' = "recover" /\ UNCHANGED normal ELSE Continue
  <2>1. StorePart' /\ open' /\ ContractStep
    BY <1>2, <1>4, BatchKeeps DEF SeenType
  <2>2. main' \in {"recover", "ending", "wait"} /\ normal' \in BOOLEAN
    BY <1>2, <1>4 DEF Continue, EndType
  <2>3. TaskType' /\ EndType' /\ ~stale'
    BY <1>1, <1>2, <1>4, <2>2 DEF TaskType, EndType, Mains
  <2>4. feed \in {"fresh", "connect"} => Clear
    BY <1>1, <1>2 DEF BookInv
  <2> QED  BY <1>1, <1>4, <2>1, <2>2, <2>3, <2>4, LoopSteps DEF Looping
<1> QED  BY <1>3, <1>4 DEF Timer

LEMMA PumpClosesStep ==
    ASSUME IInv, PumpCloses
    PROVE  StepOK
<1>1. /\ main = "recover" /\ main' = "replace" /\ feed' = "fresh"
      /\ UNCHANGED <<storage, venue, link, used, stale, ends, books>>
  BY DEF PumpCloses
<1>2. StorePart /\ open /\ TaskType /\ EndType /\ ~stale
  BY <1>1, Living DEF Looping
<1>3. StorePart' /\ open' /\ ContractStep
  BY <1>1, <1>2, StorageStays
<1>4. TaskType' /\ EndType' /\ ~stale' /\ count' = count
  BY <1>1, <1>2 DEF TaskType, EndType, ends, Mains, Feeds
<1> QED  BY <1>1, <1>3, <1>4, LoopSteps DEF Looping

\* One more replacement is within the budget.
LEMMA UsedGrows ==
    ASSUME TaskType, CanRetry
    PROVE  used + 1 \in 0 .. MaxReconnects
  BY RecordAssumption DEF TaskType, CanRetry

\* The books of the lost connection are gone, and the loop goes on.
LEMMA RetriedKeeps ==
    ASSUME IInv, main \in Looping, Stored, Retried, CanRetry, UNCHANGED <<venue, stale, count>>,
           main' \in Looping, feed' \in Feeds, link' \in BOOLEAN, EndType'
    PROVE  StepOK
<1>1. StorePart /\ open /\ TaskType /\ SeenType /\ BooksSound(book) /\ ~stale /\ LoopInv
  BY Living
<1>2. StorePart' /\ open' /\ ContractStep
  BY <1>1, RowKeeps
<1>3. BooksSound(book') /\ SeenType' /\ SeenTrue' /\ Clear'
  BY <1>1, DisconnectedKeeps DEF Retried
<1>4. TaskType'
  BY <1>1, UsedGrows DEF TaskType, Retried, Looping, Mains
<1>5. LoopInv'
  BY <1>1, <1>2 DEF LoopInv, Looping
<1>6. BookInv'
  BY <1>1, <1>3 DEF BookInv, BooksSound, Sound
<1> QED  BY <1>2, <1>3, <1>4, <1>5, <1>6, OpenVerdict, InvParts DEF StepOK

LEMMA ReplacesStep ==
    ASSUME IInv, Replaces
    PROVE  StepOK
<1>1. /\ main = "replace" /\ UNCHANGED <<venue, feed, stale, count, expired, cancelled>>
  BY DEF Replaces
<1>2. StorePart /\ open /\ TaskType /\ EndType /\ SeenType /\ ~stale
  BY <1>1, Living DEF Looping
<1>3. CASE /\ main' = "ending" /\ normal' = TRUE
           /\ UNCHANGED <<storage, used, link, rawFailed, books>>
  <2>1. StorePart' /\ open' /\ ContractStep
    BY <1>2, <1>3, StorageStays
  <2>2. TaskType' /\ EndType' /\ ~stale'
    BY <1>1, <1>2, <1>3 DEF TaskType, EndType, Mains
  <2> QED  BY <1>1, <1>3, <2>1, <2>2, LoopSteps DEF Looping
<1>4. CASE Raises /\ UNCHANGED <<used, link>>
  BY <1>1, <1>2, <1>4, RaisesKeeps DEF Looping, TaskType, EndType
<1>5. CASE /\ CanRetry /\ Retried /\ Stored /\ main' = "reconnect"
           /\ UNCHANGED <<normal, rawFailed>> /\ link' = FALSE
  <2>1. EndType' /\ feed' \in Feeds
    BY <1>1, <1>2, <1>5 DEF EndType, TaskType
  <2> QED  BY <1>1, <1>5, <2>1, RetriedKeeps DEF Looping
<1>6. CASE /\ CanRetry /\ StoreFails /\ Interrupted /\ used' = used + 1 /\ UNCHANGED rawFailed
           /\ link' = FALSE
  <2>1. StorePart' /\ open' /\ ContractStep /\ used' \in 0 .. MaxReconnects
    BY <1>2, <1>6, RowKeeps, UsedGrows
  <2> QED  BY <1>1, <1>2, <1>6, <2>1, Interrupts DEF Looping, TaskType, EndType
<1> QED  BY <1>1, <1>3, <1>4, <1>5, <1>6 DEF Replaces

LEMMA ReconnectsStep ==
    ASSUME IInv, Reconnects
    PROVE  StepOK
<1>1. /\ main = "reconnect" /\ UNCHANGED <<venue, feed, used, count, expired, cancelled>>
  BY DEF Reconnects
<1>2. /\ StorePart /\ open /\ TaskType /\ EndType /\ SeenType /\ ~stale /\ Clear
  BY <1>1, Living DEF Looping, BookInv
<1>3. CASE Opens /\ Stored /\ Continue /\ UNCHANGED <<rawFailed, books>>
  <2>1. StorePart' /\ open' /\ ContractStep
    BY <1>2, <1>3, RowKeeps
  <2>2. link' = TRUE /\ ~stale' /\ stale' \in BOOLEAN
    BY <1>2, <1>3 DEF Opens, Clear
  <2>3. main' \in {"ending", "wait"} /\ normal' \in BOOLEAN
    BY <1>2, <1>3 DEF Continue, EndType
  <2>4. TaskType' /\ EndType'
    BY <1>1, <1>2, <1>3, <2>2, <2>3 DEF TaskType, EndType, Mains
  <2> QED  BY <1>1, <1>2, <1>3, <2>1, <2>2, <2>3, <2>4, LoopSteps DEF Looping
<1>4. CASE link' = FALSE /\ StoreFails /\ Interrupted /\ UNCHANGED <<stale, rawFailed>>
  <2>1. StorePart' /\ open' /\ ContractStep
    BY <1>2, <1>4, RowKeeps
  <2> QED  BY <1>1, <1>2, <1>4, <2>1, Interrupts DEF Looping, TaskType, EndType
<1>5. CASE /\ link' = FALSE /\ main' \in {"replace", "ending"} /\ normal' \in {normal, TRUE}
           /\ UNCHANGED <<storage, stale, rawFailed, books>>
  <2>1. StorePart' /\ open' /\ ContractStep
    BY <1>2, <1>5, StorageStays
  <2>2. TaskType' /\ EndType' /\ ~stale'
    BY <1>1, <1>2, <1>5 DEF TaskType, EndType, Mains
  <2> QED  BY <1>1, <1>5, <2>1, <2>2, LoopSteps DEF Looping
<1>6. CASE link' = FALSE /\ Raises /\ UNCHANGED stale
  BY <1>1, <1>2, <1>6, RaisesKeeps DEF Looping, TaskType, EndType
<1> QED  BY <1>1, <1>3, <1>4, <1>5, <1>6 DEF Reconnects

LEMMA CancelledStep ==
    ASSUME IInv, Cancelled
    PROVE  StepOK
<1>1. /\ main \in Looping /\ cancelled' = TRUE /\ Raises
      /\ UNCHANGED <<venue, feed, link, used, stale, count, expired>>
  BY DEF Cancelled, Looping
<1>2. TaskType /\ EndType
  BY <1>1, Living
<1> QED  BY <1>1, <1>2, RaisesKeeps DEF TaskType, EndType


\* The invariant as the receive task, which runs while the loop waits, finds it.
LEMMA Receiving ==
    ASSUME IInv, main = "wait", UNCHANGED receiver
    PROVE  /\ StorePart /\ open /\ TaskType /\ EndType /\ SeenType /\ BooksSound(book) /\ ~stale
           /\ EndType' /\ main' = "wait" /\ UNCHANGED <<venue, count>>
           /\ feed \in {"fresh", "connect"} => Clear
  BY Living DEF receiver, EndType, BookInv, Looping

\* The receive task goes on, and the books stay.
LEMMA ReceiverSteps ==
    ASSUME IInv, main = "wait", UNCHANGED receiver, UNCHANGED <<used, books>>,
           StorePart', open', ContractStep, feed' \in Feeds, link' \in BOOLEAN, stale' = FALSE,
           feed' \in {"fresh", "connect"} => Clear
    PROVE  StepOK
<1>1. TaskType'
  BY Receiving DEF TaskType
<1> QED  BY <1>1, Receiving, LoopSteps DEF Looping

LEMMA FeedOpensStep ==
    ASSUME IInv, main = "wait", UNCHANGED receiver, FeedOpens
    PROVE  StepOK
<1>1. feed \in {"fresh", "connect"} /\ feed' \in {"read", "ended"} /\ UNCHANGED <<used, books>>
  BY DEF FeedOpens
<1>2. StorePart /\ open /\ TaskType /\ ~stale /\ Clear
  BY <1>1, Receiving
<1>3. CASE UNCHANGED <<link, stale, storage>>
  <2>1. StorePart' /\ open' /\ ContractStep
    BY <1>2, <1>3, StorageStays
  <2> QED  BY <1>1, <1>2, <1>3, <2>1, ReceiverSteps DEF TaskType, Feeds
<1>4. CASE Opens /\ Stored
  <2>1. StorePart' /\ open' /\ ContractStep
    BY <1>2, <1>4, RowKeeps
  <2>2. link' = TRUE /\ stale' = FALSE
    BY <1>2, <1>4 DEF Opens, Clear
  <2> QED  BY <1>1, <2>1, <2>2, ReceiverSteps DEF Feeds
<1> QED  BY <1>3, <1>4 DEF FeedOpens

LEMMA FeedRetriesStep ==
    ASSUME IInv, main = "wait", UNCHANGED receiver, FeedRetries
    PROVE  StepOK
<1>1. CanRetry /\ link' = FALSE /\ UNCHANGED stale
  BY DEF FeedRetries
<1>2. StorePart /\ open /\ TaskType /\ ~stale
  BY Receiving
<1>3. CASE Retried /\ Stored /\ feed' = "connect"
  BY <1>1, <1>3, Receiving, RetriedKeeps DEF Looping, Feeds
<1>4. CASE used' = used + 1 /\ StoreFails /\ feed' = "error" /\ UNCHANGED books
  <2>1. StorePart' /\ open' /\ ContractStep /\ used' \in 0 .. MaxReconnects
    BY <1>1, <1>2, <1>4, RowKeeps, UsedGrows
  <2>2. TaskType'
    BY <1>1, <1>2, <1>4, <2>1, Receiving DEF TaskType, Feeds
  <2> QED  BY <1>1, <1>2, <1>4, <2>1, <2>2, Receiving, LoopSteps DEF Looping
<1> QED  BY <1>3, <1>4 DEF FeedRetries

LEMMA ReceiverStep ==
    ASSUME IInv, Receiver
    PROVE  StepOK
<1>1. main = "wait" /\ UNCHANGED receiver
  BY DEF Receiver
<1>2. StorePart /\ open /\ TaskType /\ ~stale /\ stale \in BOOLEAN /\ link \in BOOLEAN
  BY <1>1, Receiving DEF TaskType
<1>3. CASE FeedCannotOpen
  <2>1. /\ link' = FALSE /\ feed' \in {"retry", "error"} /\ UNCHANGED <<used, stale, books>>
        /\ UNCHANGED storage \/ StoreFails
    BY <1>3 DEF FeedCannotOpen
  <2>2. StorePart' /\ open' /\ ContractStep
    <3>1. CASE UNCHANGED storage
      BY <1>2, <3>1, StorageStays
    <3>2. CASE StoreFails
      BY <1>2, <3>2, RowKeeps
    <3> QED  BY <2>1, <3>1, <3>2
  <2> QED  BY <1>1, <1>2, <2>1, <2>2, ReceiverSteps DEF Feeds
<1>4. CASE FeedBreaks \/ FeedRunsOutOfTime \/ FeedReads
  <2>1. /\ feed' \in {"retry", "error", "deadline", "message"}
        /\ UNCHANGED <<link, used, stale, books, storage>>
    BY <1>4 DEF FeedBreaks, FeedRunsOutOfTime, FeedReads, FeedGoes
  <2>2. StorePart' /\ open' /\ ContractStep
    BY <1>2, <2>1, StorageStays
  <2> QED  BY <1>1, <1>2, <2>1, <2>2, ReceiverSteps DEF Feeds
<1> QED  BY <1>1, <1>3, <1>4, FeedOpensStep, FeedRetriesStep DEF Receiver

LEMMA DropsStep ==
    ASSUME IInv, Drops
    PROVE  StepOK
<1>1. /\ main \notin {"closing", "export", "over", "crashed"} /\ link' = FALSE
      /\ UNCHANGED <<storage, venue, main, feed, used, stale, ends, books>>
  BY DEF Drops
<1>2. main \in Looping \cup {"ending"}
  BY <1>1, InvParts DEF TaskType, Mains, Looping
<1>3. StorePart /\ open /\ TaskType /\ EndType /\ ~stale /\ BookInv
  BY <1>2, Living
<1>4. StorePart' /\ open' /\ ContractStep
  BY <1>1, <1>3, StorageStays
<1>5. TaskType' /\ EndType' /\ ~stale' /\ count' = count
  BY <1>1, <1>3 DEF TaskType, EndType, ends
<1>6. main' = "reconnect" \/ (main' = "wait" /\ feed' \in {"fresh", "connect"}) => Clear
  BY <1>1, <1>3 DEF BookInv
<1> QED  BY <1>1, <1>2, <1>4, <1>5, <1>6, LoopSteps DEF Looping

LEMMA EndingStep ==
    ASSUME IInv, Ending
    PROVE  StepOK
<1>1. /\ main = "ending" /\ main' = "closing" /\ feed' = "fresh"
      /\ UNCHANGED <<venue, link, used, stale, count, expired, cancelled, rawFailed, books>>
      /\ Stored \/ StoreFails \/ UNCHANGED storage
      /\ normal' \in {normal, FALSE}
  BY DEF Ending
<1>2. StorePart /\ open /\ TaskType /\ EndType /\ ~stale
  BY <1>1, Living
<1>3. StorePart' /\ open' /\ ContractStep
  <2>1. CASE UNCHANGED storage
    BY <1>2, <2>1, StorageStays
  <2>2. CASE Stored \/ StoreFails
    BY <1>2, <2>2, RowKeeps
  <2> QED  BY <1>1, <2>1, <2>2
<1>4. TaskType' /\ EndType' /\ ~stale'
  BY <1>1, <1>2 DEF TaskType, EndType, Mains, Feeds
<1> QED  BY <1>1, <1>3, <1>4, LoopSteps DEF Looping

LEMMA CancelledWhileEndingStep ==
    ASSUME IInv, CancelledWhileEnding
    PROVE  StepOK
<1>1. /\ main = "ending" /\ main' = "over" /\ cancelled' = TRUE
      /\ UNCHANGED <<storage, venue, feed, link, used, stale, count, expired, normal,
                     rawFailed, books>>
  BY DEF CancelledWhileEnding
<1>2. StorePart /\ open /\ TaskType /\ EndType /\ ~stale
  BY <1>1, Living
<1>3. StorePart' /\ open' /\ ContractStep
  BY <1>1, <1>2, StorageStays
<1>4. TaskType' /\ EndType' /\ ~stale'
  BY <1>1, <1>2 DEF TaskType, EndType, Mains
<1> QED  BY <1>1, <1>3, <1>4, LoopSteps DEF Looping

-----------------------------------------------------------------------------
(* The end of a recording, and after it.                                    *)

\* A step of a recording that is over, or is about to be.
LEMMA EndSteps ==
    ASSUME IInv, StorePart', ContractStep, VerdictInv', TaskType', EndType',
           UNCHANGED <<stale, book, seen, ever>>, late' \subseteq Instruments, main' \notin Looping,
           main' \in {"ending", "closing"} => open',
           main' \in {"export", "crashed"} => ~open'
    PROVE  StepOK
<1>1. BooksSound(book') /\ SeenType'
  BY InvParts DEF SeenType
<1>2. LoopInv'
  BY DEF LoopInv
<1>3. BookInv'
  BY InvParts DEF BookInv, Looping
<1> QED  BY <1>1, <1>2, <1>3, InvParts DEF StepOK

\* The verdict finish may give a recording that lost nothing it knows of.
LEMMA OutcomeType ==
    ASSUME NEW n \in BOOLEAN
    PROVE  /\ Outcome(n) \in Verdicts
           /\ Outcome(n) = "complete" =>
                 ~failed /\ ~rawFailed /\ \A i \in Instruments : seen[i] # "bad"
<1> DEFINE unfit == ~ever \/ failed \/ rawFailed
           whole == n /\ \A i \in Instruments : seen[i] # "bad"
<1>1. Outcome(n) = CASE unfit -> "failed" [] ~unfit /\ whole -> "complete" [] OTHER -> "partial"
  BY DEF Outcome
<1>2. unfit => ~(~unfit /\ whole)
  OBVIOUS
<1>3. CASE unfit
  <2>1. Outcome(n) = "failed"
    <3> HIDE DEF unfit, whole
    <3> QED  BY ONLY <1>1, <1>3
  <2> QED  BY <2>1 DEF Verdicts
<1>4. CASE ~unfit /\ whole
  <2>1. Outcome(n) = "complete"
    <3> HIDE DEF unfit, whole
    <3> QED  BY ONLY <1>1, <1>4
  <2> QED  BY <1>4, <2>1 DEF Verdicts
<1>5. CASE ~unfit /\ ~whole
  <2>1. Outcome(n) = "partial"
    <3> HIDE DEF unfit, whole
    <3> QED  BY ONLY <1>1, <1>5
  <2> QED  BY <2>1 DEF Verdicts
<1> QED  BY <1>3, <1>4, <1>5

LEMMA FinishesStep ==
    ASSUME IInv, Finishes
    PROVE  StepOK
<1>1. /\ main = "closing" /\ link' = FALSE /\ cancelled' \in BOOLEAN /\ normal' \in BOOLEAN
      /\ UNCHANGED <<venue, feed, used, stale, count, expired, rawFailed, books>>
      /\ \/ FinishCommits(Outcome(normal'), ever) /\ main' = "export"
         \/ FinishFails /\ main' = "over"
  <2>1. cancelled \in BOOLEAN /\ normal \in BOOLEAN
    BY InvParts DEF EndType
  <2>2. PICK closed \in {"well", "failed", "cancelled"} :
           /\ cancelled' = (cancelled \/ closed = "cancelled")
           /\ normal' = (normal /\ closed = "well")
    BY DEF Finishes
  <2> QED  BY <2>2 DEF Finishes
<1>2. StorePart /\ open /\ TaskType /\ EndType /\ SeenType /\ ~stale
  BY <1>1, Living
<1>3. main' \in {"export", "over"}
  BY <1>1
<1>4. TaskType' /\ EndType' /\ late' \subseteq Instruments /\ UNCHANGED <<book, seen, ever>>
  BY <1>1, <1>2, <1>3 DEF TaskType, EndType, Mains, books, SeenType
<1>5. StorePart' /\ ~open' /\ ContractStep /\ VerdictInv'
  <2>1. CASE FinishCommits(Outcome(normal'), ever)
    <3>1. /\ Outcome(normal') \in Verdicts /\ ever \in BOOLEAN
          /\ Outcome(normal') = "complete" =>
                ~failed /\ ~rawFailed /\ \A i \in Instruments : seen[i] # "bad"
      BY <1>1, <1>2, OutcomeType DEF SeenType
    <3>2. StorePart' /\ ~open' /\ ContractStep
      BY <1>2, <2>1, <3>1, FinishKeeps
    <3>3. /\ db'.status = Outcome(normal') /\ UNCHANGED <<lost, failed, manifest, failure>>
      BY <2>1 DEF FinishCommits, files
    <3>4. (lost => failed) /\ manifest = NoManifest /\ failure = "none"
      BY <1>2 DEF StorePart, StoreInv
    <3>5. VerdictInv'
      BY <1>1, <1>4, <3>1, <3>2, <3>3, <3>4 DEF VerdictInv, NoManifest
    <3> QED  BY <3>2, <3>5
  <2>2. CASE FinishFails
    <3>1. /\ StorePart' /\ ~open' /\ ContractStep
          /\ UNCHANGED <<db, manifest>> /\ manifest = NoManifest
      BY <1>2, <2>2, FailedFinishKeeps
    <3>2. db.status = "recording"
      BY <1>2 DEF StorePart, StoreInv
    <3>3. VerdictInv'
      BY <3>1, <3>2 DEF VerdictInv, NoManifest
    <3> QED  BY <3>1, <3>3
  <2> QED  BY <1>1, <2>1, <2>2
<1> QED  BY <1>1, <1>3, <1>4, <1>5, EndSteps DEF Looping

\* What an export says of a recording is what the database said.
LEMMA ExportVerdict ==
    ASSUME VerdictInv, StorePart, ExportStep, UNCHANGED <<rawFailed, seen>>
    PROVE  VerdictInv'
<1>1. /\ UNCHANGED <<db, lost, open>> /\ ~open'
      /\ failure' = "persistence" <=> failure = "persistence"
      /\ \/ manifest' = manifest \/ manifest' = NoManifest
         \/ manifest'.status = Verdict(db) /\ UNCHANGED failure
  BY DEF ExportStep, store
<1>2. db \in Database
  BY DEF StorePart, StoreType
<1>3. NoManifest.status = "none"
  BY DEF NoManifest
<1>4. /\ manifest'.status = "complete" => db.status = "complete"
      /\ failure' = "persistence" => manifest'.status \in {"none", "failed"}
  <2>1. CASE manifest' = manifest
    BY <1>1, <2>1 DEF VerdictInv
  <2>2. CASE manifest' = NoManifest
    BY <1>3, <2>2
  <2>3. CASE manifest'.status = Verdict(db) /\ UNCHANGED failure
    BY <1>1, <1>2, <2>3, VerdictType
  <2> QED  BY <1>1, <2>1, <2>2, <2>3
<1> QED  BY <1>1, <1>4 DEF VerdictInv

LEMMA ExportSteps ==
    ASSUME IInv, ExportStep, TaskType', EndType', UNCHANGED <<rawFailed, stale, books>>,
           main' \notin Looping \cup {"ending", "closing"}
    PROVE  StepOK
<1>1. VerdictInv /\ StorePart /\ StorePart' /\ ~open' /\ ContractStep /\ SeenType
  BY InvParts DEF ExportStep
<1>2. UNCHANGED <<book, late, seen, ever>>
  BY DEF books
<1>3. VerdictInv'
  BY <1>1, <1>2, ExportVerdict
<1> QED  BY <1>1, <1>2, <1>3, EndSteps DEF SeenType

LEMMA ExportingStep ==
    ASSUME IInv, Exporting
    PROVE  StepOK
<1>1. /\ main = "export" /\ main' \in {"export", "over"}
      /\ UNCHANGED <<venue, feed, link, used, stale, ends, books>>
  BY DEF Exporting
<1>2. StorePart /\ TaskType /\ EndType /\ ~open /\ VerdictInv /\ SeenType
  BY <1>1, InvParts DEF LoopInv
<1>3. TaskType' /\ EndType' /\ UNCHANGED <<rawFailed, stale>>
  BY <1>1, <1>2 DEF TaskType, EndType, ends, Mains
<1>4. CASE ExportStep
  BY <1>1, <1>3, <1>4, ExportSteps DEF Looping
<1>5. CASE UNCHANGED storage
  <2>1. StorePart' /\ ContractStep /\ ~open' /\ UNCHANGED <<db, lost, manifest, failure>>
    BY <1>2, <1>5, StorageStays
  <2>2. VerdictInv' /\ late' \subseteq Instruments
    BY <1>1, <1>2, <1>3, <2>1 DEF VerdictInv, books, SeenType
  <2> QED  BY <1>1, <1>3, <2>1, <2>2, EndSteps DEF Looping, books
<1>6. CASE ExportStarts("recorder") /\ UNCHANGED exports
  <2>1. exports' \in 0 .. MaxExports
    BY <1>2, <1>6 DEF StorePart, StoreType
  <2>2. ExportStep
    BY <1>2, <1>6, <2>1, ExportStartsKeeps
  <2> QED  BY <1>4, <2>2
<1>7. CASE ExportTable("recorder") \/ ExportManifest("recorder") \/ ExportFails("recorder")
  <2>1. ExportStep
    BY <1>2, <1>7, ExportTableKeeps, ExportManifestKeeps, ExportFailsKeeps
  <2> QED  BY <1>4, <2>1
<1> QED  BY <1>5, <1>6, <1>7 DEF Exporting

LEMMA OperatorStep ==
    ASSUME IInv, Operator, UNCHANGED <<venue, tasks, ends, books>>
    PROVE  StepOK
<1>1. StorePart /\ TaskType /\ EndType /\ LoopInv
  BY InvParts
<1>2. ExportStep
  BY <1>1, OperatorKeeps
<1>3. ~open
  BY <1>2 DEF ExportStep, store
<1>4. TaskType' /\ EndType' /\ UNCHANGED <<rawFailed, stale, main>>
  BY <1>1 DEF TaskType, EndType, ends, tasks
<1> QED  BY <1>1, <1>2, <1>3, <1>4, ExportSteps DEF LoopInv

LEMMA CrashesStep ==
    ASSUME IInv, Crashes
    PROVE  StepOK
<1>1. /\ main' \in {"over", "crashed"} /\ StoreDies
      /\ UNCHANGED <<venue, feed, link, used, stale, ends, books>>
  BY DEF Crashes
<1>2. StorePart /\ TaskType /\ EndType /\ SeenType /\ VerdictInv
  BY InvParts
<1>3. /\ StorePart' /\ ~open' /\ ContractStep
      /\ UNCHANGED <<db, manifest, failure>> /\ lost' = (lost \/ pending)
  BY <1>1, <1>2, DeathKeeps
<1>4. ~open => ~pending
  BY <1>2 DEF StorePart, StoreInv
<1>5. TaskType' /\ EndType' /\ UNCHANGED <<rawFailed, stale>>
  BY <1>1, <1>2 DEF TaskType, EndType, ends, Mains
<1>6. VerdictInv' /\ late' \subseteq Instruments /\ UNCHANGED <<book, seen, ever>>
  BY <1>1, <1>2, <1>3, <1>4, <1>5 DEF VerdictInv, books, SeenType
<1> QED  BY <1>1, <1>3, <1>5, <1>6, EndSteps DEF Looping

\* Time passes, for the deadline of the capture or that of a correction, or nothing does.
LEMMA TimeSteps ==
    ASSUME IInv, UNCHANGED <<storage, venue, tasks, count, cancelled, normal, rawFailed,
                             book, seen, ever>>,
           expired' \in BOOLEAN, late' \subseteq Instruments
    PROVE  StepOK
<1>1. StorePart /\ TaskType /\ EndType /\ SeenType /\ BooksSound(book)
      /\ LoopInv /\ VerdictInv /\ BookInv
  BY InvParts
<1>2. StorePart' /\ ContractStep /\ open' = open /\ UNCHANGED <<db, lost, manifest, failure>>
  BY <1>1, StorageStays
<1>3. TaskType' /\ EndType' /\ UNCHANGED <<main, feed, stale>>
  BY <1>1 DEF TaskType, EndType, tasks
<1>4. BooksSound(book') /\ SeenType'
  BY <1>1 DEF SeenType
<1>5. LoopInv' /\ VerdictInv' /\ BookInv'
  BY <1>1, <1>2, <1>3 DEF LoopInv, VerdictInv, BookInv, SeenTrue, Clear, Waiting
<1> QED  BY <1>2, <1>3, <1>4, <1>5, InvParts DEF StepOK

LEMMA TimePassesStep ==
    ASSUME IInv, TimePasses
    PROVE  StepOK
<1>1. EndType /\ SeenType
  BY InvParts
<1>2. expired' \in BOOLEAN /\ late' \subseteq Instruments
  BY <1>1 DEF TimePasses, EndType, SeenType
<1> QED  BY <1>2, TimeSteps DEF TimePasses

LEMMA StutterStep ==
    ASSUME IInv, UNCHANGED vars
    PROVE  StepOK
<1>1. /\ UNCHANGED <<storage, venue, tasks, count, cancelled, normal, rawFailed, book, seen, ever>>
      /\ UNCHANGED <<expired, late>>
  BY DEF vars, ends, books
<1>2. expired' \in BOOLEAN /\ late' \subseteq Instruments
  BY <1>1, InvParts DEF EndType, SeenType
<1> QED  BY <1>1, <1>2, TimeSteps

LEMMA NextOK == IInv /\ [Next]_vars => StepOK
<1> SUFFICES ASSUME IInv, [Next]_vars PROVE StepOK
  OBVIOUS
<1>1. CASE Main
  BY <1>1, GraceEndsStep, RecordsStep, FeedStopsStep, TimerStep, PumpClosesStep, ReplacesStep,
     ReconnectsStep, EndingStep, FinishesStep, ExportingStep DEF Main
<1> QED
  BY <1>1, ReceiverStep, DropsStep, TimePassesStep, CancelledStep, CancelledWhileEndingStep,
     CrashesStep, OperatorStep, StutterStep DEF Next

LEMMA InitOK == Init => IInv
<1> SUFFICES ASSUME Init PROVE IInv
  OBVIOUS
<1>1. /\ StoreInit /\ main = "wait" /\ feed = "fresh"
      /\ book = [i \in Instruments |-> EmptyBook]
      /\ seen = [i \in Instruments |-> "bad"] /\ late = {} /\ ever = FALSE
  BY DEF Init
<1>2. StorePart /\ open /\ manifest = NoManifest
  <2>1. FreshDatabase \in Database /\ FreshDatabase.status = "recording"
    BY DEF FreshDatabase, Database
  <2>2. StoreType
    <3>1. exports \in 0 .. MaxExports /\ table \in [Tables -> Nat]
      BY <1>1, StoreAssumption DEF StoreInit
    <3>2. {open, pending, failed, lost} \subseteq BOOLEAN
      BY <1>1 DEF StoreInit
    <3> QED  BY <1>1, <2>1, <3>1, <3>2 DEF StoreInit, StoreType
  <2>3. StoreInv
    <3>1. /\ open = TRUE /\ lease = "recorder" /\ export = NoExport /\ manifest = NoManifest
          /\ failure = "none" /\ db.status = "recording" /\ lost = FALSE
      BY <1>1, <2>1 DEF StoreInit
    <3> QED  BY <3>1 DEF StoreInv
  <2> QED  BY <1>1, <2>2, <2>3 DEF StorePart, StoreInit
<1>3. TaskType /\ EndType /\ SeenType
  <2>0. used = 0 /\ count = 0 /\ 0 \in 0 .. MaxReconnects /\ 0 \in 0 .. MaxMessages
    BY RecordAssumption DEF Init
  <2>1. TaskType
    BY <1>1, <2>0 DEF Init, TaskType, Mains, Feeds
  <2>2. EndType
    BY <2>0 DEF Init, EndType
  <2>3. SeenType
    BY <1>1 DEF SeenType
  <2> QED  BY <2>1, <2>2, <2>3
<1>4. EmptyBook \in BookType /\ EmptyBook.ladder = "none" /\ EmptyBook.since = NoGrace
  BY GraceRange DEF EmptyBook, BookType
<1>5. BooksSound(book) /\ SeenTrue /\ Clear
  BY <1>1, <1>4 DEF BooksSound, Sound, SeenTrue, Clear
<1>6. LoopInv
  BY <1>1, <1>2, RecordAssumption DEF LoopInv, Init, Looping
<1>7. db.status = "recording" /\ failure = "none"
  BY <1>1 DEF StoreInit, FreshDatabase
<1>8. VerdictInv
  BY <1>2, <1>7 DEF VerdictInv, NoManifest
<1>9. BookInv
  BY <1>1, <1>5 DEF BookInv, BooksSound, Sound, Init
<1> QED  BY <1>2, <1>3, <1>5, <1>6, <1>8, <1>9, InvParts

-----------------------------------------------------------------------------
(* The grace of a locked book.                                              *)

\* What GraceIsBounded says of a step.
GraceStep ==
    \A i \in Instruments :
        book[i].ladder = "locked" /\ (i \in late \/ book[i].since + 1 >= MaxFollowup)
            => book'[i].ladder # "intact"

\* Ladders that stay, or go, are within their grace.
LEMMA GraceOfStill ==
    ASSUME \/ UNCHANGED book \/ UNCHANGED books
           \/ book' = [i \in Instruments |-> ResetBook(book[i])] /\ BooksSound(book)
    PROVE  GraceStep
<1>1. CASE UNCHANGED book
  BY <1>1 DEF GraceStep
<1>2. CASE UNCHANGED books
  BY <1>2 DEF GraceStep, books
<1>3. CASE book' = [i \in Instruments |-> ResetBook(book[i])] /\ BooksSound(book)
  <2>1. \A i \in Instruments : ResetBook(book[i]).ladder = "none"
    BY <1>3 DEF BooksSound, Sound, BookType, ResetBook
  <2> QED  BY <1>3, <2>1 DEF GraceStep
<1> QED  BY <1>1, <1>2, <1>3

\* Books change when a message is recorded, and no grace is over then; or with the
\* connection they came from.
LEMMA GraceOK == IInv /\ [Next]_vars => GraceStep
<1> SUFFICES ASSUME IInv, [Next]_vars PROVE GraceStep
  OBVIOUS
<1>1. BooksSound(book) /\ \A i \in Instruments : book[i].ladder = "locked" => Waiting(book[i])
  BY InvParts DEF BookInv
<1>2. ASSUME Interrupted PROVE GraceStep
  BY <1>2, GraceOfStill DEF Interrupted
<1>3. CASE Records
  <2>1. \A i \in Instruments : book[i].ladder = "locked" =>
           ~(i \in late \/ book[i].since + 1 >= MaxFollowup)
    BY <1>1, <1>3 DEF Records, Overdue
  <2> QED  BY <2>1 DEF GraceStep
<1>4. CASE Replaces
  BY <1>1, <1>2, <1>4, GraceOfStill DEF Replaces, Raises, Retried, Disconnected
<1>5. CASE Reconnects
  BY <1>2, <1>5, GraceOfStill DEF Reconnects, Raises
<1>6. CASE Receiver
  BY <1>1, <1>6, GraceOfStill
     DEF Receiver, FeedOpens, FeedCannotOpen, FeedBreaks, FeedRetries, FeedRunsOutOfTime,
         FeedReads, FeedGoes, Retried, Disconnected
<1>7. CASE FeedStops \/ Timer \/ Cancelled
  BY <1>2, <1>7, GraceOfStill DEF FeedStops, Timer, Cancelled, Raises, WriteFails
<1>8. CASE GraceEnds \/ PumpCloses \/ Ending \/ Finishes \/ Exporting
  BY <1>8, GraceOfStill DEF GraceEnds, PumpCloses, Ending, Finishes, Exporting
<1>9. CASE Drops \/ TimePasses \/ CancelledWhileEnding \/ Crashes \/ UNCHANGED vars
           \/ UNCHANGED <<venue, tasks, ends, books>>
  BY <1>9, GraceOfStill DEF Drops, TimePasses, CancelledWhileEnding, Crashes, vars
<1> QED  BY <1>3, <1>4, <1>5, <1>6, <1>7, <1>8, <1>9 DEF Next, Main

-----------------------------------------------------------------------------
(* The theorems.                                                            *)

LEMMA Invariance == Spec => []IInv
  BY InitOK, NextOK, PTL DEF Spec, StepOK

\* Every variable of a recording keeps its type.
THEOREM RecordingTypes == Spec => []TypeOK
<1>1. IInv => TypeOK
  BY DEF IInv
<1> QED  BY <1>1, Invariance, PTL

\* The last top a recording shows of a book is true: no connection opens over the ladders
\* of an earlier one, and what is shown intact or quoted is so in VenueBooks.
THEOREM TopsAreTrue == Spec => []RecordedTopIsTrue
<1>1. IInv => RecordedTopIsTrue
  BY DEF IInv, BookInv, SeenTrue, RecordedTopIsTrue, Looping
<1> QED  BY <1>1, Invariance, PTL

\* A manifest that says "complete" is of a run that lost nothing and ended whole; after a
\* persistence failure there is none, or it says "failed".
THEOREM ManifestsAreHonest == Spec => []VerdictIsHonest
<1>1. IInv => VerdictIsHonest
  BY DEF IInv, VerdictInv, VerdictIsHonest
<1> QED  BY <1>1, Invariance, PTL

\* Once its grace is over a locked book is intact again only from a new connection.
THEOREM GracesEnd == Spec => GraceIsBounded
<1>1. IInv /\ [Next]_vars => [GraceStep]_vars
  BY GraceOK
<1> QED  BY <1>1, Invariance, PTL DEF Spec, GraceIsBounded, GraceStep

\* A recording implements the contract of its directory: what is committed stays, what a
\* manifest tells is of a database at rest, and whoever rewrites the tables withdraws the
\* manifest first.
THEOREM RecordingsKeepTheContract == Spec => KeepsRecording
<1>1. Init => Contract!Init
  BY HiddenShown DEF Init, StoreInit, FreshDatabase, Contract!Init, Nothing
<1>2. IInv /\ [Next]_vars => [Contract!Next]_(Contract!vars)
  BY NextOK DEF StepOK, ContractStep, Contract!vars
<1> QED  BY <1>1, <1>2, Invariance, PTL DEF Spec, KeepsRecording, Contract!Spec

=============================================================================
