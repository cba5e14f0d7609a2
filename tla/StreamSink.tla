----------------------------- MODULE StreamSink -----------------------------
(***************************************************************************)
(* The datasets of a streaming run: a StreamSinkSet opens one              *)
(* StreamingParquetSink for each role, and closes them in the reverse      *)
(* order.  A sink gathers rows, writes them in chunks to a segment under a *)
(* temporary name, renames a full segment, and keeps a manifest beside the *)
(* segments.  A handler of a sink awaits nothing, so that only the death   *)
(* of the process falls between its steps; but every one of them may       *)
(* raise, and the caller may go on with the sink.                          *)
(***************************************************************************)
EXTENDS Naturals, Sequences, FiniteSets, SequencesExt, FiniteSetsExt

CONSTANTS
  SinkCount,    \* datasets of the set: 1 .. SinkCount, in the order they open
  FlushEvery,   \* flush_interval, not above SegmentRows
  SegmentRows,  \* segment_rows
  MaxGiven,     \* bound on the rows of the datasets together
  MaxStreams    \* bound on runs over the same directory

ASSUME StreamAssumption ==
  /\ SinkCount \in Nat \ {0} /\ SegmentRows \in Nat \ {0} /\ FlushEvery \in 1 .. SegmentRows
  /\ MaxGiven \in Nat /\ MaxStreams \in Nat

VARIABLES
  sinks,     \* the process: its sinks, and where it stands
  datasets   \* for each role, the directory, and what its run was given and refused

streamVars == <<sinks, datasets>>

\* A segment is "open" while it has a writer, and "left" when the sink names it without one: it
\* could not be opened, or not renamed.  It is whole until its writer refuses to write or close.
NoSegment == [index |-> 0, rows |-> <<>>, at |-> "none", whole |-> TRUE]
FreshSink == [rows |-> <<>>, pending |-> <<>>, item |-> <<>>, active |-> NoSegment, done |-> <<>>,
              step |-> "rest"]
Unlisted == [status |-> "none", completed |-> <<>>, incomplete |-> {}]
Empty == [finals |-> {}, temps |-> {}, manifest |-> Unlisted, stale |-> FALSE,
          clearing |-> FALSE, given |-> <<>>, lost |-> {}]
\* No set is open, after n runs.
Ended(n) == [phase |-> "idle", at |-> 0, runs |-> n, sink |-> [r \in 1 .. SinkCount |-> FreshSink]]

StreamInit ==
  /\ sinks = Ended(0)
  /\ datasets = [r \in 1 .. SinkCount |-> Empty]

Leave == sinks' = Ended(sinks.runs)

-----------------------------------------------------------------------------
\* Opening: an older run is overwritten, one file of its directory after the other.

OpenSinks ==
  /\ sinks.phase = "idle" /\ sinks.runs < MaxStreams
  /\ sinks' = [Ended(sinks.runs + 1) EXCEPT !.phase = "entering", !.at = 1]
  /\ UNCHANGED datasets

Entering(r) == sinks.phase = "entering" /\ sinks.at = r

\* iterdir gives the files in no order: the manifest may go first or last.
ClearFile(r) ==
  /\ Entering(r)
  /\ \/ \E f \in datasets[r].finals :
          datasets' = [datasets EXCEPT ![r].finals = @ \ {f}, ![r].clearing = TRUE]
     \/ \E t \in datasets[r].temps :
          datasets' = [datasets EXCEPT ![r].temps = @ \ {t}, ![r].clearing = TRUE]
     \/ /\ datasets[r].manifest # Unlisted
        /\ datasets' = [datasets EXCEPT ![r].manifest = Unlisted, ![r].clearing = TRUE]
  /\ UNCHANGED sinks

SegmentListing(s, status) ==
  [status |-> status, completed |-> s.done,
   incomplete |-> IF s.active.at # "none" THEN {Len(s.active.rows)} ELSE {}]

EnterSink(r) ==
  /\ Entering(r)
  /\ datasets[r].finals = {} /\ datasets[r].temps = {} /\ datasets[r].manifest = Unlisted
  /\ datasets' = [datasets EXCEPT ![r] = [Empty EXCEPT !.manifest = SegmentListing(FreshSink, "open")]]
  /\ sinks' = [sinks EXCEPT !.phase = IF r = SinkCount THEN "open" ELSE @, !.at = r + 1]

\* A directory that cannot be prepared: nothing closes the sinks that were entered.
EnterFails(r) ==
  /\ Entering(r)
  /\ Leave /\ UNCHANGED datasets

-----------------------------------------------------------------------------
\* SinkTurn.

Sink(r) == sinks.sink[r]
SinkTurn(r) ==
  \/ sinks.phase = "open" /\ \A q \in 1 .. SinkCount : q # r => Sink(q).step = "rest"
  \/ sinks.phase = "closing" /\ sinks.at = r

\* The rows are taken out of the buffer before any of them is written.
Flushing(s) ==
  IF s.rows = <<>> THEN s
  ELSE [s EXCEPT !.pending = s.rows, !.rows = <<>>, !.step = "flush"]
AfterWrite(s) == IF Len(s.rows) >= FlushEvery THEN Flushing(s) ELSE s

GivenRows == UNION {{<<q, i>> : i \in DOMAIN datasets[q].given} : q \in 1 .. SinkCount}
\* A row; when the segment is old it is closed before the row is in the buffer.
WriteRow(r) ==
  \E late \in BOOLEAN :
    /\ sinks.phase = "open" /\ \A q \in 1 .. SinkCount : Sink(q).step = "rest"
    /\ Cardinality(GivenRows) < MaxGiven /\ (late => Sink(r).active.at = "open")
    /\ LET row == Len(datasets[r].given) + 1
       IN /\ sinks' = [sinks EXCEPT !.sink[r] =
                         IF late THEN [Sink(r) EXCEPT !.item = <<row>>, !.step = "place"]
                         ELSE AfterWrite([Sink(r) EXCEPT !.rows = Append(@, row)])]
          /\ datasets' = [datasets EXCEPT ![r].given = Append(@, row)]

\* The manifest is written, or (stale) could not be.
WithManifest(o, s) == [o EXCEPT !.manifest = SegmentListing(s, "open"), !.stale = FALSE]
StaleManifest(o) == [o EXCEPT !.stale = TRUE]

\* A call that raises: what it held is gone, and the caller may go on.  In close() the sink is
\* left as it is, and the next one is closed.
NextSink(r, s) ==
  IF sinks.phase = "closing"
    THEN IF r = 1 THEN Leave ELSE sinks' = [sinks EXCEPT !.sink[r] = s, !.at = r - 1]
    ELSE sinks' = [sinks EXCEPT !.sink[r] = s]
CallRaises(r, s, o) ==
  /\ NextSink(r, [s EXCEPT !.pending = <<>>, !.item = <<>>, !.step = "rest"])
  /\ datasets' = [datasets EXCEPT ![r] =
                    [o EXCEPT !.lost = @ \cup Range(s.pending) \cup Range(s.item)]]

\* _ensure_active_segment: the first index at or after the number of segments that is not taken.
\* A temporary file of that index is removed, whatever it holds.
NewSegment(r) ==
  LET taken == {f.index : f \in datasets[r].finals}
      free == {i \in Len(Sink(r).done) .. Len(Sink(r).done) + Cardinality(taken) : i \notin taken}
  IN [NoSegment EXCEPT !.index = Min(free), !.at = "open"]
MayOpen(r) == SinkTurn(r) /\ Sink(r).step \in {"flush", "start"} /\ Sink(r).active.at # "open"
OpenSegment(r) ==
  /\ MayOpen(r)
  /\ LET a == NewSegment(r)
         t == [Sink(r) EXCEPT !.active = a, !.step = IF @ = "start" THEN "place" ELSE "flush"]
         o == [datasets[r] EXCEPT !.temps = @ \cup {a.index}]
     IN /\ sinks' = [sinks EXCEPT !.sink[r] = t]
        /\ datasets' = [datasets EXCEPT ![r] = WithManifest(o, t)]
\* The old file cannot be removed; the new one cannot be opened; or not be listed.
OpenFails(r) ==
  /\ MayOpen(r)
  /\ LET s == Sink(r)
         a == NewSegment(r)
         o == datasets[r]
     IN \/ a.index \in o.temps /\ CallRaises(r, s, o)
        \/ CallRaises(r, [s EXCEPT !.active = [a EXCEPT !.at = "left"]],
                      [o EXCEPT !.temps = @ \ {a.index}])
        \/ CallRaises(r, [s EXCEPT !.active = a],
                      StaleManifest([o EXCEPT !.temps = @ \cup {a.index}]))

\* One turn of _flush_segmented with a segment that is open.
Filling(r) == SinkTurn(r) /\ Sink(r).step = "flush" /\ Sink(r).active.at = "open"
HasRoom(a) == a.whole /\ Len(a.rows) < SegmentRows
Topped(s) ==
  LET budget == Min({Len(s.pending), SegmentRows - Len(s.active.rows)})
  IN [s EXCEPT !.active.rows = @ \o SubSeq(s.pending, 1, budget),
               !.pending = SubSeq(@, budget + 1, Len(@))]

\* What a segment has room for; a full one is placed.
FlushChunk(r) ==
  /\ Filling(r) /\ HasRoom(Sink(r).active)
  /\ LET s == Topped(Sink(r))
         t == [s EXCEPT !.step = IF Len(s.active.rows) = SegmentRows THEN "place" ELSE "rest"]
     IN /\ sinks' = [sinks EXCEPT !.sink[r] = t]
        /\ datasets' = [datasets EXCEPT ![r] = WithManifest(datasets[r], t)]
\* The rows are in the segment, and the manifest does not say so.
FlushUnlisted(r) ==
  /\ Filling(r) /\ HasRoom(Sink(r).active)
  /\ CallRaises(r, Topped(Sink(r)), StaleManifest(datasets[r]))
\* A segment that is old, or that a manifest not written has kept full, is closed first.
RotateSegment(r) ==
  /\ Filling(r) /\ Sink(r).active.rows # <<>>
  /\ sinks' = [sinks EXCEPT !.sink[r].step = "place"] /\ UNCHANGED datasets

\* Rows that do not fit the schema, or a disk that takes no more: then the segment is broken.
Broken(s) == [s EXCEPT !.active.whole = FALSE]
Without(o, a) == [o EXCEPT !.lost = @ \cup Range(a.rows)]
FlushBreaks(r) ==
  /\ Filling(r) /\ Len(Sink(r).active.rows) < SegmentRows
  /\ LET s == Sink(r) IN
       \/ CallRaises(r, s, datasets[r])
       \/ CallRaises(r, Broken(s), Without(datasets[r], s.active))

\* _finalize_active_segment: the writer is closed, the file renamed, and the manifest written.
Placing(r) == SinkTurn(r) /\ Sink(r).step = "place"
RenameSegment(r) ==
  /\ Placing(r)
  /\ LET a == Sink(r).active
         file == [index |-> a.index, rows |-> a.rows, whole |-> a.whole]
     IN datasets' = [datasets EXCEPT ![r].temps = @ \ {a.index}, ![r].finals = @ \cup {file}]
  /\ sinks' = [sinks EXCEPT !.sink[r].step = "list"]
\* A writer that does not close keeps the segment, which is placed as it is the next time (a
\* second close of the writer does nothing); without the rename it has no writer any more, and
\* the next segment takes its index.
PlaceFails(r) ==
  /\ Placing(r)
  /\ LET s == Sink(r)
         o == Without(datasets[r], s.active)
     IN CallRaises(r, Broken(s), o) \/ CallRaises(r, [s EXCEPT !.active.at = "left"], o)

Recorded(s) ==
  [s EXCEPT !.active = NoSegment,
            !.done = Append(@, [index |-> s.active.index, count |-> Len(s.active.rows)])]
RecordSegment(r) ==
  /\ SinkTurn(r) /\ Sink(r).step = "list"
  /\ LET s == Recorded(Sink(r)) IN
       /\ sinks' = [sinks EXCEPT !.sink[r] =
                      IF s.pending # <<>> THEN [s EXCEPT !.step = "flush"]
                      ELSE AfterWrite([s EXCEPT !.rows = @ \o s.item, !.item = <<>>, !.step = "rest"])]
       /\ datasets' = [datasets EXCEPT ![r] = WithManifest(datasets[r], s)]
RecordFails(r) ==
  /\ SinkTurn(r) /\ Sink(r).step = "list"
  /\ CallRaises(r, Recorded(Sink(r)), StaleManifest(datasets[r]))

-----------------------------------------------------------------------------
\* Closing, also after an exception in the body.

CloseSinks ==
  /\ sinks.phase = "open" /\ \A r \in 1 .. SinkCount : Sink(r).step = "rest"
  /\ sinks' = [sinks EXCEPT !.phase = "closing", !.at = SinkCount] /\ UNCHANGED datasets

\* A fault: the rows of the buffer are forgotten.
ClosingWithoutFlush(r) ==
  IF Sink(r).active.at = "open" THEN [Sink(r) EXCEPT !.step = "place"] ELSE Sink(r)

\* What close() does next: the buffer, a segment for a dataset without rows, the open segment.
Closing(r) ==
  LET s == Sink(r) IN
    IF s.rows # <<>> THEN Flushing(s)
    ELSE IF s.active.at = "open" THEN [s EXCEPT !.step = "place"]
    ELSE IF s.done = <<>> THEN [s EXCEPT !.step = "start"] ELSE s

CloseSink(r) ==
  /\ sinks.phase = "closing" /\ sinks.at = r /\ Sink(r).step = "rest"
  /\ IF Closing(r) # Sink(r)
       THEN sinks' = [sinks EXCEPT !.sink[r] = Closing(r)] /\ UNCHANGED datasets
       ELSE /\ datasets' = [datasets EXCEPT ![r].manifest = SegmentListing(Sink(r), "closed"),
                                           ![r].stale = FALSE]
            /\ NextSink(r, Sink(r))
CloseFails(r) ==
  /\ sinks.phase = "closing" /\ sinks.at = r /\ Sink(r).step = "rest"
  /\ Closing(r) = Sink(r) /\ CallRaises(r, Sink(r), StaleManifest(datasets[r]))

StreamDies == sinks.phase # "idle" /\ Leave /\ UNCHANGED datasets

StreamNext ==
  \/ OpenSinks \/ CloseSinks \/ StreamDies
  \/ \E r \in 1 .. SinkCount :
       \/ ClearFile(r) \/ EnterSink(r) \/ EnterFails(r) \/ WriteRow(r)
       \/ OpenSegment(r) \/ OpenFails(r) \/ RotateSegment(r)
       \/ FlushChunk(r) \/ FlushUnlisted(r) \/ FlushBreaks(r)
       \/ RenameSegment(r) \/ PlaceFails(r) \/ RecordSegment(r) \/ RecordFails(r)
       \/ CloseSink(r) \/ CloseFails(r)

-----------------------------------------------------------------------------
\* A file whose writer failed holds nothing that can be read.
WholeFiles(o) == {f \in o.finals : f.whole}
KeptRows(o) == UNION {Range(f.rows) : f \in WholeFiles(o)}
AcceptedRows(o) == Range(o.given) \ o.lost

\* A row is accepted unless a call that raised had it in its hands: in the buffer or the segment it
\* was to write.  Segments hold, in their order and once, the first of the accepted rows; the
\* manifest lists no segment that is not there with so many rows, and misses the newest at most
\* unless its last write failed; and a closed one stands beside all the accepted rows, lists every
\* segment, and names an unfinished one only where rows are lost.  (Rows are numbered as they are
\* given.  A directory a later run has begun to clear may keep its old manifest: see ClearFile.)
FilesInOrder(o) ==
  /\ \A f, g \in o.finals : f.index = g.index => f = g
  /\ \A f, g \in WholeFiles(o) : \A i \in DOMAIN f.rows, j \in DOMAIN g.rows :
       f.index < g.index \/ (f = g /\ i < j) => f.rows[i] < g.rows[j]
FirstAreKept(o) ==
  /\ KeptRows(o) \subseteq AcceptedRows(o)
  /\ \A row \in AcceptedRows(o), kept \in KeptRows(o) : row < kept => row \in KeptRows(o)
ListedAreThere(o) ==
  \A n \in DOMAIN o.manifest.completed : \E f \in o.finals :
    f.index = o.manifest.completed[n].index /\ Len(f.rows) = o.manifest.completed[n].count
ClosedIsWhole(o) ==
  /\ AcceptedRows(o) \subseteq KeptRows(o)
  /\ Cardinality(o.finals) = Len(o.manifest.completed)
  /\ o.manifest.incomplete # {} => o.lost # {}
SegmentsAreKept ==
  \A r \in 1 .. SinkCount : LET o == datasets[r] IN ~o.clearing =>
    /\ FilesInOrder(o) /\ FirstAreKept(o) /\ ListedAreThere(o)
    /\ ~o.stale => Cardinality(o.finals) <= Len(o.manifest.completed) + 1
    /\ o.manifest.status = "closed" => ClosedIsWhole(o)
=============================================================================
