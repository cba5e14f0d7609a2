--------------------------- MODULE LegacyCapture ---------------------------
(***************************************************************************)
(* A stream run of streaming/legacy and its recovery.  A coordinator       *)
(* buffers rows of several roles and commits them in groups.  The Parquet  *)
(* backend (durability.py) writes one segment per role and then appends a  *)
(* record to a journal; the SQLite backend (sqlite_durability.py) commits  *)
(* a group in one transaction and promotes the whole database to segments  *)
(* and a journal of one record when the run ends.  After a crash,          *)
(* recovery.py reads what was committed and, asked to, finalizes the run.  *)
(*                                                                         *)
(* A row is the number it was added under; the hash of a file is its       *)
(* content.  The rows are taken to satisfy _validate_group: a group that   *)
(* does not is refused before anything is written.  A caller that catches  *)
(* an exception of commit() tries again only while the journal is as it    *)
(* was (see Retry).                                                        *)
(***************************************************************************)
EXTENDS Naturals, Sequences, FiniteSets, SequencesExt

CONSTANTS
  MaxRows,     \* rows added to a run
  MaxDeaths    \* times a process working on the run dies

ASSUME LegacyBounds == MaxRows \in Nat /\ MaxDeaths \in Nat

Tables == <<"event", "control">>      \* roles kept in tables, in write order
Raw == "raw"                          \* role kept in one file beside them
Roles(backend) == Range(Tables) \cup IF backend = "parquet" THEN {Raw} ELSE {}

VARIABLES
  run,       \* the run directory
  proc,      \* the process that works on it
  offered,   \* history: the rows added, per role
  told,      \* history: the rows of the commits that returned, per role
  deaths
legacyVars == <<run, proc, offered, told, deaths>>

\* The part of run_manifest.v1 that can be wrong: the roles it calls closed (the
\* others are failed), its verdict, the groups it counts.
NoManifest == [closed |-> {}, verdict |-> "none", groups |-> 0]

\* The run directory: run_state, segment files, temporary files left behind,
\* journal (and whether its last line is incomplete), the groups and status of
\* the SQLite database, the segment manifests installed, the run manifest.
EmptyRun ==
  [state |-> "absent", backend |-> "parquet", parts |-> {}, temps |-> {},
   orphans |-> {}, journal |-> <<>>, torn |-> FALSE, groups |-> <<>>,
   database |-> "absent", segments |-> <<>>, manifest |-> NoManifest]

NoRows == [role \in Range(Tables) |-> <<>>]

\* DurableCaptureCoordinator in memory.  `job' is what it was called for: to
\* capture, to close (finalize_segments), to recover, to settle a recovered run
\* (_finalize_recovery).  `todo' are the roles the current step still has to
\* write, `files' what it has written, `refused' that the journal was touched.
Idle ==
  [at |-> "none", job |-> "capture", buffer |-> NoRows, index |-> 0, todo |-> <<>>,
   files |-> {}, committed |-> {}, refused |-> FALSE]

LegacyInit ==
  /\ run = EmptyRun /\ proc = Idle
  /\ offered = NoRows /\ told = NoRows /\ deaths = 0

-----------------------------------------------------------------------------
(* What is on disk, and what recovery makes of it. *)

Part(role, index, rows) == [role |-> role, index |-> index, rows |-> rows]
Placed(parts, new) ==
  {p \in parts : \A q \in new : <<p.role, p.index>> # <<q.role, q.index>>} \cup new

\* The tables among some roles, in write order.  (A run that closes sorts its empty
\* roles by name: no property tells the two orders apart.)
WriteOrder(roles) ==
  LET one(table) == IF table \in roles THEN <<table>> ELSE <<>> IN one(Tables[1]) \o one(Tables[2])
Filled(buffer) == {role \in Range(Tables) : buffer[role] # <<>>}
RowsIn(files, role) ==
  IF \E f \in files : f.role = role
  THEN (CHOOSE f \in files : f.role = role).rows ELSE <<>>

\* _read_valid_records: the record at a position is accepted when its index is
\* that position, its paths are new and every file is there with its hash.
\* A record that is not leaves all later ones out of place.
Accepted(i) ==
  /\ run.journal[i].index = i - 1
  /\ run.journal[i].files \subseteq run.parts
  /\ \A j \in 1..i - 1 : \A f \in run.journal[i].files, g \in run.journal[j].files :
       <<f.role, f.index>> # <<g.role, g.index>>
Errors == run.torn \/ \E i \in DOMAIN run.journal : ~Accepted(i)
ValidRecords ==
  LET valid == CHOOSE n \in 0..Len(run.journal) :
                 /\ \A i \in 1..n : Accepted(i)
                 /\ n + 1 \in DOMAIN run.journal => ~Accepted(n + 1)
  IN SubSeq(run.journal, 1, valid)

\* recover_stream_run: SQLite is the authority until the run is finalized.
Authority(role) ==
  IF run.backend = "sqlite" /\ run.state # "finalized"
  THEN FlattenSeq([i \in DOMAIN run.groups |-> RowsIn(run.groups[i], role)])
  ELSE FlattenSeq([i \in DOMAIN ValidRecords |-> RowsIn(ValidRecords[i].files, role)])

Journaled == UNION {run.journal[i].files : i \in DOMAIN run.journal}
Unjournaled == run.parts \ Journaled
Of(role, files) == {f \in files : f.role = role}

-----------------------------------------------------------------------------
(* The coordinator. *)

Known == UNCHANGED <<offered, told, deaths>>

\* __init__: a directory with a journal is refused.
Open(backend) ==
  /\ proc.at = "none" /\ run.state = "absent"
  /\ run.journal = <<>> /\ ~run.torn
  /\ run' = [run EXCEPT !.state = "recording", !.backend = backend,
                        !.database = IF backend = "sqlite" THEN "recording" ELSE "absent"]
  /\ proc' = [Idle EXCEPT !.at = "ready"]
  /\ Known

Add(role) ==
  /\ proc.at = "ready" /\ proc.job = "capture"
  /\ LET number == Len(offered["event"]) + Len(offered["control"]) IN
     /\ number < MaxRows
     /\ proc' = [proc EXCEPT !.buffer[role] = Append(@, number)]
     /\ offered' = [offered EXCEPT ![role] = Append(@, number)]
  /\ UNCHANGED <<run, told, deaths>>

\* The start of commit(), forced, at the limit of rows or time, or for a staged
\* checkpoint.  SQLite writes no files for it.
Frozen(p) ==
  IF run.backend = "parquet" THEN [p EXCEPT !.at = "write", !.todo = WriteOrder(Filled(p.buffer))]
  ELSE [p EXCEPT !.at = "transaction"]
Commit ==
  /\ proc.at = "ready" /\ proc.job = "capture" /\ proc.buffer # NoRows
  /\ proc' = Frozen(proc)
  /\ UNCHANGED run /\ Known

\* _write_role_segment: a temporary file, flushed, then renamed.
Content(role) ==
  CASE run.backend = "sqlite" -> Authority(role)
    [] run.backend = "parquet" /\ role = Raw -> <<>>
    [] OTHER -> proc.buffer[role]
WriteSegment ==
  /\ proc.at = "write" /\ proc.todo # <<>>
  /\ LET part == Part(Head(proc.todo), proc.index, Content(Head(proc.todo))) IN
     /\ run' = [run EXCEPT !.parts = Placed(@, {part}),
                           !.temps = @ \ {<<part.role, part.index>>}]
     /\ proc' = [proc EXCEPT !.todo = Tail(@), !.files = @ \cup {part}]
  /\ Known

\* _append_journal_record adds a line; _write_journal_atomic, at the end of a
\* promotion, replaces the file.
Publish ==
  /\ proc.at = "write" /\ proc.todo = <<>>
  /\ LET record == [index |-> proc.index, files |-> proc.files] IN
     run' = [run EXCEPT !.journal =
               CASE run.backend = "sqlite" -> <<record>>
                 [] run.backend = "parquet" /\ run.torn -> @
                 [] OTHER -> Append(@, record)]
  /\ proc' = [proc EXCEPT !.at = "published"]
  /\ Known

\* SQLite: the group and its rows in one transaction.
Transaction ==
  /\ proc.at = "transaction"
  /\ run' = [run EXCEPT !.groups = Append(@,
        {Part(role, Len(run.groups), proc.buffer[role]) : role \in Filled(proc.buffer)})]
  /\ proc' = [proc EXCEPT !.at = "published"]
  /\ Known

\* After a group is published while the run closes: the file beside the tables
\* is journaled, then an empty segment for every role without rows, and then
\* the segment manifests are written.
Onward(p) ==
  LET missing == Roles(run.backend) \ p.committed IN
  CASE p.job = "capture" -> [p EXCEPT !.at = "ready"]
    [] p.job # "capture" /\ run.backend = "sqlite" -> [p EXCEPT !.at = "seal"]
    [] p.job # "capture" /\ run.backend = "parquet" /\ missing # {} ->
         [p EXCEPT !.at = "write",
                   !.todo = IF Raw \in missing THEN <<Raw>>
                            ELSE WriteOrder(missing)]
    [] OTHER -> [p EXCEPT !.at = "segments", !.todo = Append(Tables, Raw)]

\* A fault: the next group keeps the index of this one.
ReturnsInPlace ==
  /\ proc.at = "published" /\ (run.backend = "parquet" \/ run.database = "recording")
  /\ told' = [role \in DOMAIN told |-> told[role] \o proc.buffer[role]]
  /\ proc' = Onward([proc EXCEPT !.buffer = NoRows, !.files = {},
                       !.index = IF run.backend = "parquet" THEN @ ELSE 0,
                       !.committed = @ \cup {f.role : f \in proc.files}])
  /\ UNCHANGED <<run, offered, deaths>>

\* The rest of commit(): the group counts from here on.
Returns ==
  /\ proc.at = "published" /\ (run.backend = "parquet" \/ run.database = "recording")
  /\ told' = [role \in DOMAIN told |-> told[role] \o proc.buffer[role]]
  /\ proc' = Onward([proc EXCEPT !.buffer = NoRows, !.files = {},
                       !.index = IF run.backend = "parquet" THEN @ + 1 ELSE 0,
                       !.committed = @ \cup {f.role : f \in proc.files}])
  /\ UNCHANGED <<run, offered, deaths>>

\* A segment that was being written when the process died, or the write failed.
LeavesTemp ==
  /\ proc.at = "write" /\ proc.todo # <<>> /\ Head(proc.todo) # Raw
  /\ run' = [run EXCEPT !.temps = @ \cup {<<Head(proc.todo), proc.index>>}]

\* An exception of commit(): before the journal is touched, on its append, or
\* after it (stat, disk_usage).  Buffer and index stay as they are.
Raises ==
  /\ proc.at \in {"write", "transaction"} /\ proc.job = "capture"
  /\ proc' = [proc EXCEPT !.at = "raised", !.todo = <<>>, !.files = {}]
  /\ UNCHANGED run \/ LeavesTemp
  /\ Known
RaisesLate ==
  /\ run.backend = "parquet" /\ proc.job = "capture"
  /\ \/ proc.at = "write" /\ proc.todo = <<>> /\ run' = [run EXCEPT !.torn = TRUE]
     \/ proc.at = "published" /\ UNCHANGED run
  /\ proc' = [proc EXCEPT !.at = "raised", !.refused = TRUE]
  /\ Known

\* The caller goes on after an exception that left the journal as it was.
Retry ==
  /\ proc.at = "raised" /\ ~proc.refused
  /\ proc' = [proc EXCEPT !.at = "ready"]
  /\ UNCHANGED run /\ Known

\* finalize_segments: a last commit, if there are rows, and then Onward.
Close ==
  /\ proc.at = "ready" /\ proc.job = "capture"
  /\ LET closing == [proc EXCEPT !.job = "close"] IN
     proc' = IF proc.buffer # NoRows THEN Frozen(closing) ELSE Onward(closing)
  /\ UNCHANGED run /\ Known

\* The database is sealed, then promoted: every role to one segment.
Seal ==
  /\ proc.at = "seal"
  /\ run' = [run EXCEPT !.database = "sealed"]
  /\ proc' = [proc EXCEPT !.at = "write", !.todo = Tables, !.files = {}, !.index = 0]
  /\ Known
Promoted ==
  /\ proc.at = "published" /\ run.backend = "sqlite" /\ run.database = "sealed"
  /\ proc' = [proc EXCEPT !.at = "segments", !.todo = Tables,
                          !.committed = Range(Tables)]
  /\ UNCHANGED run /\ Known

\* _write_segment_manifests, and the same in _finalize_recovery: the files of
\* the records, one role after the other; a recovery calls a role without any
\* failed.
WriteManifest ==
  /\ proc.at = "segments" /\ proc.todo # <<>>
  /\ LET role == Head(proc.todo)
         files == Of(role, Journaled)
         status == IF proc.job = "settle" /\ files = {} THEN "failed" ELSE "closed"
         segment == [files |-> files, status |-> status] IN
     run' = [run EXCEPT !.segments =
               [r \in DOMAIN @ \cup {role} |-> IF r = role THEN segment ELSE @[r]]]
  /\ proc' = [proc EXCEPT !.todo = Tail(@)]
  /\ Known

\* The status of the database; a recovery then reads the journal it promoted.
SegmentsDone ==
  /\ proc.at = "segments" /\ proc.todo = <<>>
  /\ run' = [run EXCEPT !.database =
              IF run.backend = "sqlite" /\ proc.job # "settle" THEN "promoted" ELSE @]
  /\ proc' = [proc EXCEPT !.at = IF proc.job = "recover" THEN "examine" ELSE "manifest"]
  /\ Known

\* The run manifest: the caller's, from dataset_artifacts and the counters of
\* durability_manifest, or that of a recovery, from the journal.
Candidate ==
  IF proc.job = "settle"
  THEN [closed |-> {f.role : f \in Journaled}, groups |-> Len(run.journal),
        verdict |-> IF run.journal = <<>> THEN "failed" ELSE "partial"]
  ELSE [closed |-> proc.committed, verdict |-> "complete",
        groups |-> IF run.backend = "parquet" THEN proc.index ELSE 1]

\* validate_run_manifest, in the order of the code.  Each role has the segment
\* manifest its entry points to, with the same status, and the directory of the
\* role holds the files it lists and no other, of whatever name.
SegmentsMatch(m) ==
  \A role \in Roles(run.backend) :
    /\ role \in DOMAIN run.segments
    /\ (run.segments[role].status = "closed") <=> (role \in m.closed)
    /\ role \in m.closed => run.segments[role].files # {}
    /\ run.segments[role].files = Of(role, run.parts)
    /\ \A temp \in run.temps : temp[1] # role

\* The journal is valid, was counted, and gave each role what its entry says.
GroupsCounted(m) == m.groups = Len(run.journal)
RolesJournaled(m) == m.closed = {f.role : f \in Journaled}
FilesJournaled ==
  \A role \in Roles(run.backend) : run.segments[role].files = Of(role, Journaled)
JournalBinds(m) == ~Errors /\ GroupsCounted(m) /\ RolesJournaled(m) /\ FilesJournaled

\* What the profile claims follows from the roles that were closed.
VerdictFollows(m) ==
  /\ m.verdict \in {"complete", "partial", "failed"}
  /\ m.verdict = "complete" => Range(Tables) \subseteq m.closed
  /\ m.verdict = "partial" => m.closed # {}
ProfileAgrees(m) == m.closed \subseteq Roles(run.backend) /\ VerdictFollows(m)

Validates(m) == SegmentsMatch(m) /\ JournalBinds(m) /\ ProfileAgrees(m)

\* A recovery validates its manifest before it writes it, and gives up on it.
RefuseManifest ==
  /\ proc.at = "manifest" /\ proc.job = "settle" /\ ~Validates(Candidate)
  /\ proc' = Idle
  /\ UNCHANGED run /\ Known
\* mark_finalized comes after the manifest.
WriteRunManifest ==
  /\ proc.at = "manifest" /\ (proc.job = "settle" => Validates(Candidate))
  /\ run' = [run EXCEPT !.manifest = Candidate]
  /\ proc' = [proc EXCEPT !.at = "finalize"]
  /\ Known
MarkFinalized ==
  /\ proc.at = "finalize"
  /\ run' = [run EXCEPT !.state = "finalized"]
  /\ proc' = Idle
  /\ Known

-----------------------------------------------------------------------------
(* A crash, and recover_stream_run(finalize=True) by another process. *)

\* The process dies.  A line that was being appended may be torn or whole.
Dies ==
  /\ proc.at # "none" /\ deaths < MaxDeaths
  /\ deaths' = deaths + 1 /\ proc' = Idle
  /\ \/ UNCHANGED run
     \/ LeavesTemp
     \/ /\ proc.at = "write" /\ proc.todo = <<>> /\ run.backend = "parquet"
        /\ run' = [run EXCEPT !.torn = TRUE]
  /\ UNCHANGED <<offered, told>>

\* promote_sqlite_capture: with a journal only the manifests are left to write,
\* and nothing at all when they are there too.
Recover ==
  /\ proc.at = "none" /\ run.state = "recording"
  /\ LET p == [Idle EXCEPT !.job = "recover"] IN
     proc' =
       CASE run.backend = "sqlite" /\ run.journal = <<>> -> [p EXCEPT !.at = "seal"]
         [] /\ run.backend = "sqlite" /\ run.journal # <<>>
            /\ ~(Range(Tables) \subseteq DOMAIN run.segments)
              -> [p EXCEPT !.at = "segments", !.todo = Tables]
         [] OTHER -> [p EXCEPT !.at = "examine"]
  /\ UNCHANGED run /\ Known

\* Evidence that does not check out is never finalized.
Refuse ==
  /\ proc.at = "examine" /\ Errors
  /\ proc' = Idle
  /\ UNCHANGED run /\ Known

\* _finalize_recovery: files of no record are moved away one by one.
MoveOrphan ==
  /\ proc.at = "examine" /\ ~Errors
  /\ \E part \in Unjournaled :
       run' = [run EXCEPT !.parts = @ \ {part}, !.orphans = @ \cup {part}]
  /\ UNCHANGED proc /\ Known
\* A fault: the run is settled while orphans are left.
OrphansLeft ==
  /\ proc.at = "examine" /\ ~Errors
  /\ proc' = [proc EXCEPT !.at = "segments", !.job = "settle",
                !.todo = IF run.backend = "sqlite" THEN Tables ELSE Append(Tables, Raw)]
  /\ UNCHANGED run /\ Known

OrphansMoved ==
  /\ proc.at = "examine" /\ ~Errors /\ Unjournaled = {}
  /\ proc' = [proc EXCEPT !.at = "segments", !.job = "settle",
                !.todo = IF run.backend = "sqlite" THEN Tables ELSE Append(Tables, Raw)]
  /\ UNCHANGED run /\ Known

LegacyNext ==
  \/ \E backend \in {"parquet", "sqlite"} : Open(backend)
  \/ \E role \in Range(Tables) : Add(role)
  \/ Commit \/ WriteSegment \/ Publish \/ Transaction \/ Returns
  \/ Raises \/ RaisesLate \/ Retry
  \/ Close \/ Seal \/ Promoted \/ WriteManifest \/ SegmentsDone
  \/ WriteRunManifest \/ RefuseManifest \/ MarkFinalized
  \/ Dies \/ Recover \/ Refuse \/ MoveOrphan \/ OrphansMoved

-----------------------------------------------------------------------------
(* Properties. *)

\* What recover_stream_run reports of a run at any moment holds every row whose
\* commit returned, and nothing but rows that were added, each once and in
\* order, for both backends, whatever died or failed in between.
CommittedIsRecovered ==
  \A role \in Range(Tables) :
    /\ IsPrefix(told[role], Authority(role))
    /\ IsPrefix(Authority(role), offered[role])

\* A run whose state says finalized passes the validator that its readers and its
\* archiver apply, also when its own process closed it after failed commits or
\* when it took a second or third recovery; and a recovery that found sound
\* evidence never refuses its own manifest, but for one reason: a segment file was
\* being written when the capture died, and its temporary file, which no recovery
\* moves away, is in the directory of the role.
FinalizedIsWhole ==
  /\ run.state = "finalized" => Validates(run.manifest)
  /\ proc.at = "manifest" =>
       Validates(Candidate) \/ (run.backend = "parquet" /\ run.temps # {})
=============================================================================
