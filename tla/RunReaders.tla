----------------------------- MODULE RunReaders -----------------------------
(***************************************************************************)
(* What is done with a finalized capture run: its book tape is             *)
(* reconstructed and published (book_reconstruction_streaming, cli         *)
(* reconstruction), or the run is packed into an archive and removed       *)
(* (capture_archive).  Both read the run file by file while nothing keeps  *)
(* another program from changing it, and both may die at any step.         *)
(*                                                                         *)
(* The content of a file is the number of times it was changed since the   *)
(* run was finalized; a change never brings back an earlier content, and   *)
(* always shows in the stat of the file.  The records of the journal carry *)
(* checksums, so a changed journal is refused; a changed manifest or run   *)
(* state may pass.  No file is added to the run.                           *)
(***************************************************************************)
EXTENDS Naturals, Sequences, SequencesExt, FiniteSets

CONSTANT MaxEdits     \* changes made to the run from outside
ASSUME ReaderBounds == MaxEdits \in Nat

Papers == <<"manifest", "state", "journal">>
Tape == <<"tape", "topbook">>      \* roles read group by group (here: one group)
Depth == <<"depth">>               \* read at the end, by the comparison alone
Selected == Tape \o Depth
Members == Papers \o Selected \o <<"raw">>
Gone == MaxEdits + 1               \* added to the content of a file that was removed

VARIABLES
  files,      \* what is in the run directory: a content per file
  edits,
  task,       \* the command at work: the steps it has left, what it noted
  product,    \* the published reconstruction: the contents it was made from
  mismatch,   \* there is a report of a reconstruction that does not match
  archive,    \* the archive, its staging file and its sidecar
  slipped     \* history: files changed where the archiver does not look
readerVars == <<files, edits, task, product, mismatch, archive, slipped>>

NoTask == [does |-> "none", plan |-> <<>>, noted |-> <<>>, saw |-> <<>>]
NoProduct == [made |-> FALSE, saw |-> <<>>, papers |-> <<>>]
NoArchive == [staged |-> FALSE, holds |-> <<>>, sidecar |-> "none", digest |-> <<>>]

ReaderInit ==
  /\ files = [f \in Range(Members) |-> 0] /\ edits = 0
  /\ task = NoTask /\ product = NoProduct /\ mismatch = FALSE
  /\ archive = NoArchive /\ slipped = {}

-----------------------------------------------------------------------------
(* The two commands as sequences of steps, each of them on one file. *)

Each(op, names) == [i \in DOMAIN names |-> <<op, names[i]>>]

\* _verify_streaming_authority: the papers, and then the selected files.
Verify == Each("keep", Papers) \o Each("same", Selected)

\* The rows of a role are read, and then its file is looked at again.
Compared(f) == <<<<"read", f>>, <<"same", f>>>>

\* A fault: what the comparison reads is not verified.
UncheckedPlan ==
  Each("load", Papers) \o Each("print", Selected) \o Each("keep", Papers)
  \o Compared("tape") \o Compared("topbook")
  \o Verify \o Each("read", Depth)
  \o <<<<"publish", "all">>>>

\* The loading of the authority, the groups, and _complete with the comparison.
ReconstructPlan ==
  Each("load", Papers) \o Each("print", Selected) \o Each("keep", Papers)
  \o Compared("tape") \o Compared("topbook")
  \o Verify \o Each("read", Depth) \o Verify
  \o <<<<"publish", "all">>>>
\* archive_finalized_capture: validation, copy, comparison, installation.
PackPlan ==
  Each("print", Selected \o <<"raw">>) \o Each("copy", Members)
  \o Each("compare", Members) \o <<<<"install", "all">>>>
  \o Each("digest", Members) \o <<<<"sidecar", "all">>>>
\* delete_source.
DeletePlan == Each("recheck", Members) \o Each("remove", Members) \o <<<<"deleted", "all">>>>

Op == Head(task.plan)[1]
File == Head(task.plan)[2]
Noted(value) == [f \in DOMAIN task.noted \cup {File} |-> IF f = File THEN value ELSE task.noted[f]]
Step(op) == task.does # "none" /\ task.plan # <<>> /\ Op = op
Onwards == [task EXCEPT !.plan = Tail(@)]
There == files[File] < Gone

-----------------------------------------------------------------------------
(* Reconstruction. *)

\* publish_streamed_book_tape_reconstruction: never over an earlier result.
StartReconstruction ==
  /\ task = NoTask /\ ~product.made /\ ~mismatch
  /\ task' = [NoTask EXCEPT !.does = "reconstruct", !.plan = ReconstructPlan]
  /\ UNCHANGED <<files, edits, product, mismatch, archive, slipped>>

\* _load_streaming_run_authority: a paper is read and kept.
LoadPaper ==
  /\ Step("load") /\ There
  /\ File = "journal" => files[File] = 0
  /\ task' = [Onwards EXCEPT !.noted = Noted(files[File])]
  /\ UNCHANGED <<files, edits, product, mismatch, archive, slipped>>

\* _validate_artifacts: the file has the hash the journal says; its stat is
\* noted, and taken again behind the hash.
Fingerprint ==
  /\ Step("print") /\ files[File] = 0
  /\ task' = [Onwards EXCEPT !.noted = Noted(0)]
  /\ UNCHANGED <<files, edits, product, mismatch, archive, slipped>>

\* _verify_streaming_authority: a paper has the bytes that were kept.
KeepPaper ==
  /\ Step("keep") /\ files[File] = task.noted[File]
  /\ task' = Onwards
  /\ UNCHANGED <<files, edits, product, mismatch, archive, slipped>>

\* _read_validated_artifact_rows, and the comparison of depth by DuckDB.
ReadRows ==
  /\ Step("read") /\ There
  /\ task' = [Onwards EXCEPT !.saw = [f \in DOMAIN @ \cup {File} |->
                                       IF f = File THEN files[File] ELSE @[f]]]
  /\ UNCHANGED <<files, edits, product, mismatch, archive, slipped>>

\* _require_validated_artifact_unchanged: the stat of the file is the noted one.
Unchanged ==
  /\ Step("same") /\ files[File] = task.noted[File]
  /\ task' = Onwards
  /\ UNCHANGED <<files, edits, product, mismatch, archive, slipped>>

\* The staging directory is renamed, or only a report is written.
PublishRows ==
  /\ Step("publish")
  /\ \/ /\ product' = [made |-> TRUE, saw |-> task.saw,
                       papers |-> [f \in Range(Papers) |-> task.noted[f]]]
        /\ UNCHANGED mismatch
     \/ mismatch' = TRUE /\ UNCHANGED product
  /\ task' = NoTask
  /\ UNCHANGED <<files, edits, archive, slipped>>

-----------------------------------------------------------------------------
(* The archive. *)

\* An archive, its sidecar or its staging file in the way is an error.
StartArchive(delete) ==
  /\ task = NoTask /\ archive = NoArchive
  /\ task' = [NoTask EXCEPT !.does = "archive",
               !.plan = PackPlan \o IF delete THEN DeletePlan ELSE <<>>]
  /\ UNCHANGED <<files, edits, product, mismatch, archive, slipped>>

\* A fault: the files go into the archive one by one, and not to stay in the run as well.
MoveMember ==
  /\ Step("copy") /\ There
  /\ files' = [files EXCEPT ![File] = Gone]
  /\ archive' = [archive EXCEPT !.staged = TRUE]
  /\ task' = [Onwards EXCEPT !.noted = Noted(files[File])]
  /\ UNCHANGED <<edits, product, mismatch, slipped>>
CopyMember ==
  /\ Step("copy") /\ There
  /\ archive' = [archive EXCEPT !.staged = TRUE]
  /\ task' = [Onwards EXCEPT !.noted = Noted(files[File])]
  /\ UNCHANGED <<files, edits, product, mismatch, slipped>>

\* _verify_archive: the copy is compared with the run, not with the manifest.
CompareMember ==
  /\ Step("compare") /\ files[File] = task.noted[File]
  /\ task' = Onwards
  /\ UNCHANGED <<files, edits, product, mismatch, archive, slipped>>

Install ==
  /\ Step("install")
  /\ archive' = [archive EXCEPT !.staged = FALSE, !.holds = task.noted]
  /\ task' = Onwards
  /\ UNCHANGED <<files, edits, product, mismatch, slipped>>

\* _members_digest, of the run as it is by now.
DigestMember ==
  /\ Step("digest") /\ There
  /\ task' = [Onwards EXCEPT !.saw = [f \in DOMAIN @ \cup {File} |->
                                       IF f = File THEN files[File] ELSE @[f]]]
  /\ UNCHANGED <<files, edits, product, mismatch, archive, slipped>>

WriteSidecar ==
  /\ Step("sidecar")
  /\ archive' = [archive EXCEPT !.sidecar = "kept", !.digest = task.saw]
  /\ task' = IF Len(task.plan) = 1 THEN NoTask ELSE Onwards
  /\ UNCHANGED <<files, edits, product, mismatch, slipped>>

\* The digest of the run is the one in the sidecar, or nothing is removed.
RecheckMember ==
  /\ Step("recheck") /\ files[File] = archive.digest[File]
  /\ task' = Onwards
  /\ UNCHANGED <<files, edits, product, mismatch, archive, slipped>>
\* shutil.rmtree.
RemoveMember ==
  /\ Step("remove")
  /\ files' = [files EXCEPT ![File] = @ + Gone]
  /\ task' = Onwards
  /\ UNCHANGED <<edits, product, mismatch, archive, slipped>>

MarkDeleted ==
  /\ Step("deleted")
  /\ archive' = [archive EXCEPT !.sidecar = "deleted"]
  /\ task' = NoTask
  /\ UNCHANGED <<files, edits, product, mismatch, slipped>>

-----------------------------------------------------------------------------
(* What goes wrong. *)

\* Any check that fails or error that is raised ends the command: the staging
\* directory or file is removed, what was installed stays.
GiveUp ==
  /\ task # NoTask
  /\ task' = NoTask /\ archive' = [archive EXCEPT !.staged = FALSE]
  /\ UNCHANGED <<files, edits, product, mismatch, slipped>>

\* The process dies; the staging file of an archive stays.
ReaderDies ==
  /\ task # NoTask
  /\ task' = NoTask
  /\ UNCHANGED <<files, edits, product, mismatch, archive, slipped>>

Ahead(op, f) == \E i \in DOMAIN task.plan : task.plan[i] = <<op, f>>

\* Another program changes a file.  Between its comparison and its digest, and
\* between the last look at it and its removal, nobody sees it.
ChangeFile(f) ==
  /\ edits < MaxEdits /\ files[f] < Gone
  /\ edits' = edits + 1
  /\ files' = [files EXCEPT ![f] = @ + 1]
  /\ slipped' = IF /\ task.does = "archive"
                   /\ \/ ~Ahead("compare", f) /\ Ahead("digest", f)
                      \/ ~Ahead("recheck", f) /\ Ahead("remove", f)
                THEN slipped \cup {f} ELSE slipped
  /\ UNCHANGED <<task, product, mismatch, archive>>

ReaderNext ==
  \/ StartReconstruction \/ LoadPaper \/ Fingerprint \/ KeepPaper \/ ReadRows
  \/ Unchanged \/ PublishRows
  \/ \E delete \in BOOLEAN : StartArchive(delete)
  \/ CopyMember \/ CompareMember \/ Install \/ DigestMember \/ WriteSidecar
  \/ RecheckMember \/ RemoveMember \/ MarkDeleted
  \/ GiveUp \/ ReaderDies
  \/ \E f \in Range(Members) : ChangeFile(f)

-----------------------------------------------------------------------------
(* Properties. *)

\* A published reconstruction was made from the committed content of every file
\* it read, also of the depth files that only the comparison opens, and of a
\* journal that was sound, whatever another program changed meanwhile.
PublishedIsCommitted ==
  product.made =>
    /\ \A f \in Range(Selected) : product.saw[f] = 0
    /\ product.papers["journal"] = 0

\* A file is missing from the run only when an archive that is complete has it,
\* with a sidecar beside it, in the content it had when it was removed or in one
\* that was replaced unseen; and an archive is installed only whole.
SourceIsArchived ==
  /\ archive.holds # <<>> => DOMAIN archive.holds = Range(Members)
  /\ \A f \in Range(Members) : files[f] >= Gone =>
       /\ archive.sidecar # "none" /\ f \in DOMAIN archive.holds
       /\ files[f] = Gone + archive.holds[f] \/ f \in slipped
=============================================================================
