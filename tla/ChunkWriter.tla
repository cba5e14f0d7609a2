---------------------------- MODULE ChunkWriter ----------------------------
(***************************************************************************)
(* The ChunkWriter of raw capture: it numbers the frames of a session,     *)
(* appends them to a gzip chunk, drops and counts them while the disk is   *)
(* full, and seals chunks into pairs of a file and its manifest.           *)
(*                                                                         *)
(* None of its methods awaits, so each is one step of the session; but     *)
(* each writes to a disk that may refuse it half way.  A method is the set *)
(* of its outcomes: the writer it leaves and what it raised.  A hash is    *)
(* modelled by the index of the chunk it is the hash of.                   *)
(***************************************************************************)
EXTENDS Naturals, Sequences

CONSTANTS
    Instruments,     \* what the session subscribed to
    MaxFaults        \* bound on the storage errors explored

ASSUME WriterAssumption == MaxFaults \in Nat

Kinds == {"received",    \* text, binary_base64, app_ping from the venue
          "jump",        \* a text that reveals a hole in Kalshi's sequence
          "sent",        \* subscription, app_ping, app_pong
          "control",     \* ws_ping, ws_pong, ws_close
          "seq_gap", "disk_pause_gap", "transport_error"}

\* Why an envelope that was to be written before this one is not there: it
\* was dropped in a pause, or its write failed.
Losses == {"dropped", "control", "other"}

Frame == [kind : Kinds, gen : Nat, books : SUBSET Instruments, lost : SUBSET Losses]

\* An envelope; `books' are the instruments it holds an initial book of.
Envelope(k, g, b) == [kind |-> k, gen |-> g, books |-> b, lost |-> {}]

\* chunk_NNNNNN on disk.  A manifest exists when `manifest'; it then holds
\* first, last and prev.  `torn': compressed bytes of the chunk were lost.
File == [name : {"absent", "part", "chunk"}, manifest : BOOLEAN,
         first : Nat, last : Nat, prev : Nat, torn : BOOLEAN]

NewFile(n, f) == [name |-> n, manifest |-> FALSE, first |-> f, last |-> 0,
                  prev |-> 0, torn |-> FALSE]

Writer == [
    chunk    : {"none",       \* file is None
                "open",       \* file and gz are usable
                "headless",   \* file is set, and gz still None
                "broken"},    \* file is set, and gz is closed
    previous : Nat,           \* the last sealed chunk, 0 for None
    sealed   : Nat,           \* sealed_count
    paused   : BOOLEAN,
    log      : Seq(Frame),    \* the envelopes stored; seq is its length
    lost     : SUBSET Losses, \* history: what was lost since the last of them
    files    : Seq(File),     \* the chunks of the session; index is its length
    faults   : Nat]           \* storage errors so far

NewWriter == [chunk |-> "none", previous |-> 0, sealed |-> 0, paused |-> FALSE,
              log |-> <<>>, lost |-> {}, files |-> <<>>, faults |-> 0]

Ok(w) == [w |-> w, raised |-> "no"]
OsError(w) == [w |-> w, raised |-> "OSError"]
OtherError(w) == [w |-> w, raised |-> "other"]    \* ValueError, AttributeError

\* What storage errors add to the outcomes, each of which makes one more.
Faulty(w, outcomes) ==
    IF w.faults < MaxFaults THEN {[r EXCEPT !.w.faults = w.faults + 1] : r \in outcomes} ELSE {}

\* index: the chunk last begun.
Now(w) == Len(w.files)

\* The pairs an uploader may take.
PairsOf(w) == {k \in DOMAIN w.files : w.files[k].manifest}

\* Some of the compressed bytes did not reach the file.
Tear(w) == [w EXCEPT !.files[Now(w)].torn = TRUE]

Lose(w, f) ==
    [w EXCEPT !.lost = @ \cup {IF f.kind = "control" THEN "control" ELSE "other"}]

Store(w, f) ==
    [w EXCEPT !.log = Append(@, [f EXCEPT !.lost = w.lost]), !.lost = {}]

\* The new chunk: its file may not open, and its gzip header may not be written.
OpenFails(w) == [w EXCEPT !.files = Append(@, NewFile("absent", 0))]
HeaderFails(w) ==
    [w EXCEPT !.files = Append(@, NewFile("part", Len(w.log) + 1)), !.chunk = "headless"]
Open(w) ==
    [w EXCEPT !.files = Append(@, NewFile("part", Len(w.log) + 1)), !.chunk = "open"]

\* gz.write: compressed bytes are lost when the file takes none of them, which
\* raises, and when it takes only some, which the unbuffered file reports and
\* gzip does not look at.
Compress(w, f) ==
    {Ok(Store(w, f))}
        \cup Faulty(w, {Ok(Store(Tear(w), f)), OsError(Lose(Tear(w), f))})

\* write
Write(w, f) ==
    IF w.paused THEN {Ok([w EXCEPT !.lost = @ \cup {"dropped"}])}
    ELSE CASE w.chunk = "none" ->
                Faulty(w, {OsError(Lose(OpenFails(w), f)), OsError(Lose(HeaderFails(w), f))})
                    \cup Compress(Open(w), f)
           [] w.chunk = "open" -> Compress(w, f)
           [] OTHER -> {OtherError(Lose(w, f))}

\* flush
Flush(w) ==
    CASE w.chunk = "open" -> {Ok(w)} \cup Faulty(w, {Ok(Tear(w)), OsError(Tear(w))})
      [] w.chunk = "broken" -> {OtherError(w)}
      [] OTHER -> {Ok(w)}

\* pause
Pause(w) == [w EXCEPT !.paused = TRUE]

\* A fault: writing goes on after a pause as if nothing had been dropped.
ResumeUnmarked(w, g) == {Ok([w EXCEPT !.paused = FALSE])}

\* resume: the hole is recorded by the first envelope after it.
Resume(w, g) ==
    Write([w EXCEPT !.paused = FALSE], Envelope("disk_pause_gap", g, {}))

-----------------------------------------------------------------------------
(* seal: close the chunk, hash it, rename it, publish its manifest.         *)

Renamed(w) == [w EXCEPT !.files[Now(w)].name = "chunk"]

Manifested(file, w) ==
    [file EXCEPT !.manifest = TRUE, !.last = Len(w.log), !.prev = w.previous]

Published(w) == [w EXCEPT !.files[Now(w)] = Manifested(@, w)]

Chained(w) ==
    [w EXCEPT !.previous = Now(w), !.sealed = @ + 1, !.chunk = "none"]

Broken(w) == [w EXCEPT !.chunk = "broken"]

\* A fault: the manifest is published before the chunk has its name.
CutShortManifestFirst(w) == {w, Tear(w), Published(w), Published(Renamed(w))}

\* What the files may be when the sealing of an open chunk is cut short.
CutShort(w) == {w, Tear(w), Renamed(w), Published(Renamed(w))}

\* The chunk was renamed before the manifest needs the time of the last envelope, which a
\* session that stored none does not have.
NothingStored(w) == w.log = <<>>

\* seal
Seal(w) ==
    CASE w.chunk = "none" -> {Ok(w)}
      [] w.chunk = "open" /\ NothingStored(w) ->
            {OtherError(Broken(Renamed(w)))}
                \cup Faulty(w, {OsError(Broken(w)), OsError(Broken(Tear(w)))})
      [] w.chunk = "open" /\ ~NothingStored(w) ->
            {Ok(Chained(Published(Renamed(w))))}
                \cup Faulty(w, {Ok(Chained(Published(Renamed(Tear(w)))))}
                                   \cup {OsError(Broken(c)) : c \in CutShort(w)})
      [] OTHER -> {OtherError(w)}

=============================================================================
