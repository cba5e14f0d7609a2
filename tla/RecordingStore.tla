---------------------------- MODULE RecordingStore ----------------------------
(***************************************************************************)
(* One recording directory: the SQLite store of the recorder, the lease    *)
(* that keeps exports away from it, and the export, which any process may  *)
(* run once the recorder is gone.                                          *)
(*                                                                         *)
(* Rows are abstracted to the commits that made them durable: `db.commits' *)
(* identifies the content of the database, and a table file remembers the  *)
(* content it was exported from.  The disk may refuse any write.           *)
(***************************************************************************)
EXTENDS Integers, FiniteSets

CONSTANTS
    Tables,        \* the tables of the recording's mode
    MaxExports     \* bound on the exports an operator starts

ASSUME StoreAssumption ==
    /\ Tables # {} /\ IsFiniteSet(Tables)
    /\ MaxExports \in Nat

VARIABLES
    lease,     \* holder of .recording.lock: none, recorder, operator
    open,      \* the recorder's database connection
    db,        \* committed: commits, and the status and ever_intact of the metadata
    pending,   \* rows appended since the last commit
    failed,    \* RecordingStore.failed
    lost,      \* history: appended rows were rolled back
    table,     \* the .parquet files: content, 0 when absent
    manifest,  \* manifest.json: content and status, or NoManifest
    failure,   \* failure.json: its phase, or none
    export,    \* the export under way: who, what is left, the snapshot it reads
    exports    \* operator exports so far

store == <<open, db, pending, failed, lost>>
files == <<table, manifest, failure, export, exports>>
storage == <<lease, store, files>>

Torn == -1    \* the files are not all of the manifest's content
NoManifest == [commits |-> 0, status |-> "none"]
FreshDatabase == [commits |-> 0, status |-> "recording", ever |-> FALSE]
NoExport == [by |-> "none", left |-> {}, db |-> FreshDatabase]
Verdicts == {"complete", "partial", "failed"}
Database == [commits : Nat, status : Verdicts \cup {"recording"}, ever : BOOLEAN]

StoreInit ==
    /\ lease = "recorder" /\ open = TRUE
    /\ db = FreshDatabase
    /\ pending = FALSE /\ failed = FALSE /\ lost = FALSE
    /\ table = [t \in Tables |-> 0]
    /\ manifest = NoManifest /\ failure = "none"
    /\ export = NoExport /\ exports = 0

StoreType ==
    /\ lease \in {"none", "recorder", "operator"}
    /\ db \in Database
    /\ {open, pending, failed, lost} \subseteq BOOLEAN
    /\ table \in [Tables -> Nat]
    /\ manifest \in {NoManifest} \cup [commits : Nat, status : Verdicts]
    /\ failure \in {"none", "persistence", "export"}
    /\ export = NoExport
       \/ export \in [by : {"recorder", "operator"}, left : SUBSET Tables, db : {db}]
    /\ exports \in 0 .. MaxExports

-----------------------------------------------------------------------------
(* RecordingStore: what one call does to the database.                      *)

\* append: the rows of an observation join the open transaction.
Stored ==
    /\ ~failed
    /\ pending' = TRUE
    /\ UNCHANGED <<lease, open, db, failed, lost, files>>

\* append or flush: the transaction is rolled back, and the store refuses all that follows.
StoreFails ==
    /\ pending' = FALSE /\ lost' = TRUE /\ failed' = TRUE
    /\ UNCHANGED <<lease, open, db, files>>

\* flush: rows and the metadata that counts them, in one transaction.
Committed(ever) ==
    /\ ~failed
    /\ db' = [db EXCEPT !.commits = @ + 1, !.ever = ever]
    /\ pending' = FALSE
    /\ UNCHANGED <<lease, open, failed, lost, files>>

\* close: what is pending is rolled back, never committed, and the lease ends.
Close ==
    /\ open' = FALSE /\ lease' = "none" /\ pending' = FALSE
    /\ lost' = (lost \/ pending)

\* finish: the last commit carries the verdict.
FinishCommits(status, ever) ==
    /\ ~failed
    /\ db' = [commits |-> db.commits + 1, status |-> status, ever |-> ever]
    /\ open' = FALSE /\ lease' = "none" /\ pending' = FALSE
    /\ UNCHANGED <<failed, lost, files>>

\* finish: the raw file, a row or the commit is refused, or the store had failed;
\* failure.json is written before the lease ends, if the disk takes it.
FinishFails ==
    /\ Close
    /\ failed' = TRUE
    /\ failure' \in {"persistence", failure}
    /\ UNCHANGED <<db, table, manifest, export, exports>>

-----------------------------------------------------------------------------
(* export_recording, by the recorder after its run or by an operator.       *)

\* A fault: the lease is not asked for.
ExportStartsAnyway(p) ==
    /\ export = NoExport
    /\ lease' = p
    /\ export' = [by |-> p, left |-> Tables, db |-> db]
    /\ manifest' = NoManifest
    /\ UNCHANGED <<store, table, failure>>

\* The lease, one snapshot of the database, and the old manifest goes first.
ExportStarts(p) ==
    /\ lease = "none" /\ export = NoExport
    /\ lease' = p
    /\ export' = [by |-> p, left |-> Tables, db |-> db]
    /\ manifest' = NoManifest
    /\ UNCHANGED <<store, table, failure>>

\* A table is written aside, verified and renamed over the old one.
ExportTable(p) ==
    /\ export.by = p
    /\ \E t \in export.left :
          /\ table' = [table EXCEPT ![t] = export.db.commits]
          /\ export' = [export EXCEPT !.left = @ \ {t}]
    /\ UNCHANGED <<lease, store, manifest, failure, exports>>

\* A fault: an interrupted recording keeps the status of its last batch.
VerdictOfBatch(d) ==
    IF d.status = "recording" THEN "complete" ELSE d.status

\* The status the manifest gives: a recorder that died left "recording" behind.
Verdict(d) ==
    CASE failure = "persistence"                           -> "failed"
      [] failure # "persistence" /\ d.status = "recording" ->
            IF d.ever THEN "partial" ELSE "failed"
      [] OTHER                                             -> d.status

\* The manifest is written last.
ExportManifest(p) ==
    /\ export.by = p /\ export.left = {}
    /\ manifest' = [commits |-> export.db.commits, status |-> Verdict(export.db)]
    /\ export' = NoExport /\ lease' = "none"
    /\ UNCHANGED <<store, table, failure, exports>>

\* A table cannot be read, verified or written: no manifest, and failure.json unless
\* an earlier failure is on record.
ExportFails(p) ==
    /\ export.by = p
    /\ manifest' = NoManifest
    /\ failure' \in {failure, IF failure = "persistence" THEN failure ELSE "export"}
    /\ export' = NoExport /\ lease' = "none"
    /\ UNCHANGED <<store, table, exports>>

\* The process dies: the system takes its lease, SQLite drops what is not committed.
Dies(p) ==
    /\ lease' = IF lease = p THEN "none" ELSE lease
    /\ export' = IF export.by = p THEN NoExport ELSE export
    /\ UNCHANGED <<table, manifest, failure, exports>>

StoreDies ==
    /\ Dies("recorder")
    /\ open' = FALSE /\ pending' = FALSE /\ lost' = (lost \/ pending)
    /\ UNCHANGED <<db, failed>>

OperatorExports ==
    /\ exports < MaxExports
    /\ ExportStarts("operator")
    /\ exports' = exports + 1

Operator ==
    \/ OperatorExports
    \/ ExportTable("operator") \/ ExportManifest("operator") \/ ExportFails("operator")
    \/ export.by = "operator" /\ Dies("operator") /\ UNCHANGED store

-----------------------------------------------------------------------------
\* What a reader finds: the manifest with the files it names.
Shown ==
    [rows    |-> IF \A t \in Tables : manifest = NoManifest \/ table[t] = manifest.commits
                 THEN manifest.commits ELSE Torn,
     verdict |-> manifest.status]

=============================================================================
