------------------------------- MODULE Polling --------------------------------
(***************************************************************************)
(* The datasets a polling process leaves: record_topbooks appends a        *)
(* segment per dataset and cycle, collect_order_book_summaries_parquet     *)
(* appends batches to one file through a ParquetSink, and                  *)
(* backfill_venue_history walks the trades of its instruments and writes   *)
(* the result.  A process may die between any two steps, and another one   *)
(* goes on with what is there.                                             *)
(*                                                                         *)
(* A row of a book is [run, cycle, leg]; the rows of a batch are numbers.  *)
(***************************************************************************)
EXTENDS Naturals, Sequences, FiniteSets, FiniteSetsExt, SequencesExt

CONSTANTS
  Legs,         \* instruments of the relations, in the order they are asked
  MaxPolls,     \* processes, one after the other
  MaxCycles,    \* cycles, of all recorders together
  FlushRows,    \* flush_interval
  MaxBatchRows, \* rows a collector sees
  TradePages    \* pages of an instrument's trades

ASSUME PollingAssumption ==
  /\ Legs \in Seq(Range(Legs))
  /\ {MaxPolls, MaxCycles, FlushRows, MaxBatchRows, TradePages} \subseteq Nat

VARIABLES
  poll,         \* the process
  disk          \* what it and the ones before it left
pollVars == <<poll, disk>>

NoPoll == [kind |-> "none"]
Datasets == {"topbooks", "depth", "gaps"}
NoDataset == [files |-> <<>>, listed |-> {}]
\* The files of a backfill, with the run that wrote each of them (0: there is none, or it is broken).
ResultFiles == {"trades", "gaps", "summary"}
NoResult == [run |-> [f \in ResultFiles |-> 0], rows |-> {}, gaps |-> {}, partitions |-> {}]
NoTable == [run |-> 0, state |-> "absent", allow |-> FALSE, legs |-> {}]
PollInit ==
  /\ poll = NoPoll
  /\ disk = [polls |-> 0, kind |-> "any", begun |-> 0, cycles |-> {}, datasets |-> [d \in Datasets |-> NoDataset],
             file |-> "absent", rows |-> {}, kept |-> {}, result |-> NoResult, table |-> NoTable,
             manifest |-> [run |-> 0, legs |-> {}]]

\* Outputs of different kinds have paths of their own: the processes are of one kind.
Begins(kind) == poll = NoPoll /\ disk.polls < MaxPolls /\ disk.kind \in {"any", kind}
Started(kind) == [disk EXCEPT !.polls = @ + 1, !.kind = kind]

\* A process dies, or an exception that nothing catches ends it.
PollDies ==
  /\ poll.kind \in {"topbooks", "backfill", "table", "kalshi_table"}
  /\ poll' = NoPoll /\ UNCHANGED disk

-----------------------------------------------------------------------------
(* record_topbooks. *)

RecordTopbooks ==
  /\ Begins("topbooks") /\ disk.begun < MaxCycles
  /\ \E depth \in BOOLEAN :
       poll' = [kind |-> "topbooks", run |-> disk.polls + 1, cycle |-> 1, depth |-> depth,
                asked |-> 0, books |-> {}, gaps |-> {}, writes |-> <<>>, placed |-> 0]
  /\ disk' = [Started("topbooks") EXCEPT !.begun = @ + 1]

RowOf(leg) == [run |-> poll.run, cycle |-> poll.cycle, leg |-> leg]
GapOf(leg, type) == [run |-> poll.run, cycle |-> poll.cycle, leg |-> leg, type |-> type]
Fetching == poll.kind = "topbooks" /\ poll.asked < Len(Legs)

\* _fetch_polymarket_topbooks, _fetch_kalshi_topbooks: a request that fails leaves
\* a gap and the next instrument is asked.
BookArrives(stale) ==
  /\ Fetching
  /\ poll' = [poll EXCEPT !.asked = @ + 1,
                !.books = @ \cup {[row |-> RowOf(Legs[poll.asked + 1]), stale |-> stale]}]
  /\ UNCHANGED disk
BookFails ==
  /\ Fetching
  /\ poll' = [poll EXCEPT !.asked = @ + 1,
                !.gaps = @ \cup {GapOf(Legs[poll.asked + 1], "fetch_error")}]
  /\ UNCHANGED disk

\* A leg of a relation without a row in this cycle, and a row that is too old.
BookRows == {b.row : b \in poll.books}
CoverageGaps == {GapOf(leg, "missing_relation_book") : leg \in {l \in Range(Legs) : RowOf(l) \notin BookRows}}
StaleGaps == {GapOf(b.row.leg, "stale_book") : b \in {c \in poll.books : c.stale}}

\* The rows of a cycle go out dataset by dataset; an empty one writes nothing.
CycleFetched ==
  /\ poll.kind = "topbooks" /\ poll.asked = Len(Legs)
  /\ LET write(d, rows) == IF rows = {} THEN <<>> ELSE <<[set |-> d, rows |-> rows]>>
         gaps == poll.gaps \cup CoverageGaps \cup StaleGaps IN
     poll' = [poll EXCEPT !.asked = @ + 1,
                !.writes = write("topbooks", BookRows)
                           \o (IF poll.depth THEN write("depth", BookRows) ELSE <<>>)
                           \o write("gaps", gaps)]
  /\ UNCHANGED disk

\* append_parquet_segment: the index after the listed ones that no file has, the
\* segment, then the manifest that lists it.
NextSegmentIndex(s) ==
  LET after == Max(s.listed \cup {0}) + 1 IN
  Min({i \in after..(Len(s.files) + 1) : i \notin DOMAIN s.files})
Writing == poll.kind = "topbooks" /\ poll.writes # <<>>

PlaceSegment ==
  /\ Writing /\ poll.placed = 0
  /\ LET d == Head(poll.writes).set
         i == NextSegmentIndex(disk.datasets[d]) IN
     /\ disk' = [disk EXCEPT !.datasets[d].files =
                   [k \in DOMAIN @ \cup {i} |-> IF k = i THEN Head(poll.writes).rows ELSE @[k]]]
     /\ poll' = [poll EXCEPT !.placed = i]

ListedWith(listed, i) == listed \cup {i}

ListSegment ==
  /\ Writing /\ poll.placed # 0
  /\ disk' = [disk EXCEPT !.datasets[Head(poll.writes).set].listed = ListedWith(@, poll.placed)]
  /\ poll' = [poll EXCEPT !.placed = 0, !.writes = Tail(@)]

\* A cycle is counted when all its rows are written.
CycleEnds ==
  /\ poll.kind = "topbooks" /\ poll.asked > Len(Legs) /\ poll.writes = <<>>
  /\ disk' = [disk EXCEPT !.cycles = @ \cup {[run |-> poll.run, cycle |-> poll.cycle]},
                !.begun = IF @ < MaxCycles THEN @ + 1 ELSE @]
  /\ poll' = IF disk.begun = MaxCycles THEN NoPoll
             ELSE [poll EXCEPT !.cycle = @ + 1, !.asked = 0, !.books = {}, !.gaps = {}]

-----------------------------------------------------------------------------
(* collect_order_book_summaries_parquet over one output file. *)

CollectBooks ==
  /\ Begins("collector")
  /\ poll' = [kind |-> "collector", buffer |-> {}, seen |-> 0, writer |-> "none",
              written |-> {}, failed |-> FALSE]
  /\ disk' = Started("collector")

BatchRow(n) == disk.polls * 10 + n

\* A book that arrives is a row of the sink; one whose request fails, or that the
\* answer for its batch leaves out, is passed over.
Collecting ==
  /\ poll.kind = "collector" /\ poll.seen < MaxBatchRows
  /\ Cardinality(poll.buffer) < FlushRows /\ ~poll.failed
RowMissing ==
  /\ Collecting
  /\ poll' = [poll EXCEPT !.seen = @ + 1] /\ UNCHANGED disk
RowArrives ==
  /\ Collecting
  /\ poll' = [poll EXCEPT !.seen = @ + 1, !.buffer = @ \cup {BatchRow(poll.seen + 1)}]
  /\ UNCHANGED disk

\* The first flush opens the writer: into a temporary file when there is one to
\* extend, which gets the rows of that first.
OpenedAs(d) == IF d.file = "absent" THEN "direct" ELSE "temp"

AfterFlush ==
  LET writer == IF poll.writer = "none" THEN OpenedAs(disk) ELSE poll.writer
      first == IF poll.writer = "none" /\ writer = "temp" THEN disk.rows ELSE {}
  IN [poll EXCEPT !.writer = writer, !.buffer = {}, !.written = @ \cup first \cup poll.buffer]

\* The file while a writer is at work: one that is written in place has no footer yet.
FileOf(p) == IF p.writer = "direct" THEN [disk EXCEPT !.file = "broken", !.rows = {}] ELSE disk

\* A flush when the buffer is full; the one of close() is in SinkCloses.
FlushFull ==
  /\ poll.kind = "collector" /\ ~poll.failed /\ Cardinality(poll.buffer) = FlushRows
  /\ disk.file # "broken" \/ poll.writer # "none"
  /\ poll' = AfterFlush /\ disk' = FileOf(AfterFlush)

\* A flush fails: a file without a footer cannot be extended, and a write may
\* fail.  The writer is closed, so what it has written has its footer.
FlushFails ==
  /\ poll.kind = "collector" /\ ~poll.failed /\ poll.buffer # {}
  /\ poll' = [poll EXCEPT !.failed = TRUE]
  /\ disk' = IF poll.writer = "direct" THEN [disk EXCEPT !.file = "whole", !.rows = poll.written]
             ELSE disk

\* close(): the last rows are flushed and the temporary file takes the place of
\* the one it extends; a sink whose flush has failed leaves that alone.
SinkCloses ==
  /\ poll.kind = "collector" /\ (poll.failed \/ Cardinality(poll.buffer) < FlushRows)
  /\ poll' = NoPoll
  /\ IF poll.failed THEN UNCHANGED disk
     ELSE /\ poll.buffer # {} /\ poll.writer = "none" => disk.file # "broken"
          /\ LET last == IF poll.buffer = {} THEN poll ELSE AfterFlush IN
             disk' = CASE last.writer # "none" ->
                            [disk EXCEPT !.file = "whole", !.rows = last.written, !.kept = last.written]
                       [] last.writer = "none" /\ disk.file = "absent" ->
                            [disk EXCEPT !.file = "whole"]
                       [] OTHER -> disk
CollectorDies ==
  /\ poll.kind = "collector"
  /\ poll' = NoPoll /\ UNCHANGED disk

-----------------------------------------------------------------------------
(* collect-books and collect-kalshi-books with topbook output: all books in      *)
(* memory, then one table, written in place, then its manifest when one is asked *)
(* for.                                                                          *)

CollectTable ==
  /\ Begins("table")
  /\ \E allow, manifest \in BOOLEAN :
       poll' = [kind |-> "table", run |-> disk.polls + 1, allow |-> allow, manifest |-> manifest,
                seen |-> {}, at |-> "asking"]
  /\ disk' = Started("table")
CollectKalshiTable ==
  /\ Begins("table")
  /\ \E manifest \in BOOLEAN :
       poll' = [kind |-> "kalshi_table", run |-> disk.polls + 1, allow |-> FALSE,
                manifest |-> manifest, seen |-> {}, at |-> "asking"]
  /\ disk' = Started("table")

OfTable == poll.kind \in {"table", "kalshi_table"}
TableRow(leg) ==
  /\ poll.kind = "table" /\ poll.at = "asking" /\ leg \notin poll.seen
  /\ poll' = [poll EXCEPT !.seen = @ \cup {leg}] /\ UNCHANGED disk
\* All tickers are asked at once; one that fails ends the command.
KalshiTableRow(leg) ==
  /\ poll.kind = "kalshi_table" /\ poll.at = "asking" /\ leg \notin poll.seen
  /\ poll' = [poll EXCEPT !.seen = @ \cup {leg}] /\ UNCHANGED disk

\* Without a row nothing is written, and without allow_missing_tokens only a table
\* with a row of every token.
OpenTable ==
  /\ OfTable /\ poll.at = "asking" /\ poll.seen # {}
  /\ poll.allow \/ poll.seen = Range(Legs)
  /\ poll' = [poll EXCEPT !.at = "writing"]
  /\ disk' = [disk EXCEPT !.table = [NoTable EXCEPT !.run = poll.run, !.state = "broken"]]
WriteTable ==
  /\ OfTable /\ poll.at = "writing"
  /\ disk' = [disk EXCEPT !.table =
                [run |-> poll.run, state |-> "whole", allow |-> poll.allow, legs |-> poll.seen]]
  /\ poll' = IF poll.manifest THEN [poll EXCEPT !.at = "manifest"] ELSE NoPoll

\* The rows are counted in the file, which is read again.
WriteTableManifest ==
  /\ OfTable /\ poll.at = "manifest"
  /\ disk' = [disk EXCEPT !.manifest = [run |-> poll.run, legs |-> disk.table.legs]]
  /\ poll' = NoPoll

-----------------------------------------------------------------------------
(* backfill_venue_history: the trades of each instrument. *)

BackfillHistory ==
  /\ Begins("backfill")
  /\ \E cap \in 1..TradePages :
       poll' = [kind |-> "backfill", run |-> disk.polls + 1, cap |-> cap, done |-> 0, pages |-> 0,
                rows |-> {}, partitions |-> {}, gaps |-> {}, file |-> "trades", open |-> FALSE]
  /\ disk' = Started("backfill")

Ticker == Legs[poll.done + 1]
TradesOf(leg, pages) == {[leg |-> leg, page |-> n] : n \in 1..pages}

\* A fault: a walk that is cut by its page limit leaves no gap.
GapsOfErrors(leg, stop) == IF stop = "fetch_error" THEN {leg} ELSE {}

GapsOfPartition(leg, stop) == IF stop = "cursor_exhausted" THEN {} ELSE {leg}

\* The walk of an instrument ends: its partition, and a gap unless it is complete.
Partitioned(p, stop) ==
  [p EXCEPT !.done = @ + 1, !.pages = 0,
     !.partitions = @ \cup {[leg |-> Ticker, complete |-> stop = "cursor_exhausted", pages |-> p.pages]},
     !.gaps = @ \cup GapsOfPartition(Ticker, stop)]

Walking == poll.kind = "backfill" /\ poll.done < Len(Legs)

\* A page is kept before its cursor is looked at; the venue may repeat a cursor.
TradePage(repeated) ==
  /\ Walking /\ (repeated => poll.pages > 0)
  /\ LET page == [poll EXCEPT !.pages = @ + 1,
                    !.rows = @ \cup {[leg |-> Ticker, page |-> poll.pages + 1]}] IN
     poll' = CASE page.pages = TradePages /\ ~repeated -> Partitioned(page, "cursor_exhausted")
               [] repeated                             -> Partitioned(page, "repeated_cursor")
               [] page.pages = poll.cap /\ page.pages < TradePages /\ ~repeated
                                                       -> Partitioned(page, "page_limit")
               [] OTHER                                -> page
  /\ UNCHANGED disk

\* A request fails, or a page is refused: it is not an object, or a trade of it is
\* seen again.
TradesFail ==
  /\ Walking
  /\ poll' = Partitioned(poll, "fetch_error")
  /\ UNCHANGED disk

\* write_historical_backfill_result: each file is written in place, over the one of an older run;
\* the summary is the last.  Left out: prices and capabilities, which nothing is said of.
WritingResult(f) == poll.kind = "backfill" /\ poll.done = Len(Legs) /\ poll.file = f
OpenResult(f) ==
  /\ WritingResult(f) /\ ~poll.open
  /\ poll' = [poll EXCEPT !.open = TRUE]
  /\ disk' = [disk EXCEPT !.result.run[f] = 0]
FileAfter == [trades |-> "gaps", gaps |-> "summary"]
ResultWith(result, f) ==
  [run |-> [result.run EXCEPT ![f] = poll.run],
   rows |-> IF f = "trades" THEN poll.rows ELSE result.rows,
   gaps |-> IF f = "gaps" THEN poll.gaps ELSE result.gaps,
   partitions |-> IF f = "summary" THEN poll.partitions ELSE result.partitions]
WriteResult(f) ==
  /\ WritingResult(f) /\ poll.open
  /\ poll' = IF f = "summary" THEN NoPoll
             ELSE [poll EXCEPT !.file = FileAfter[f], !.open = FALSE]
  /\ disk' = [disk EXCEPT !.result = ResultWith(@, f)]

PollNext ==
  \/ PollDies \/ RecordTopbooks \/ (\E stale \in BOOLEAN : BookArrives(stale)) \/ BookFails
  \/ CycleFetched \/ PlaceSegment \/ ListSegment \/ CycleEnds
  \/ CollectBooks \/ RowArrives \/ RowMissing \/ FlushFull \/ FlushFails \/ SinkCloses \/ CollectorDies
  \/ CollectTable \/ CollectKalshiTable \/ OpenTable \/ WriteTable \/ WriteTableManifest
  \/ (\E leg \in Range(Legs) : TableRow(leg) \/ KalshiTableRow(leg))
  \/ BackfillHistory \/ (\E repeated \in BOOLEAN : TradePage(repeated)) \/ TradesFail
  \/ (\E f \in ResultFiles : OpenResult(f) \/ WriteResult(f))

-----------------------------------------------------------------------------
(* Properties. *)

ListedRows(d) == UNION {disk.datasets[d].files[i] : i \in disk.datasets[d].listed}

\* Nothing is missing without a mark: each leg of a relation has, in every cycle
\* that was counted, a row of its book or a gap row in the segments the manifests
\* list, also after a process died between a segment and its manifest; each
\* instrument of a backfill has, in the trades and gaps of one run, all its trades
\* or a gap, and where the summary is of the run of the trades, so are the gaps;
\* and each of a strict table has a row, which the manifest of its run counts, if
\* there is one
\* (recorder.py:87-157, io.py:271-320, historical_books.py:476-565).
EveryLegIsAccounted ==
  /\ \A c \in disk.cycles : \A leg \in Range(Legs) :
       \/ [run |-> c.run, cycle |-> c.cycle, leg |-> leg] \in ListedRows("topbooks")
       \/ \E gap \in ListedRows("gaps") : gap.run = c.run /\ gap.cycle = c.cycle /\ gap.leg = leg
  /\ disk.result.run["trades"] > 0 /\ disk.result.run["trades"] = disk.result.run["gaps"] =>
       \A leg \in Range(Legs) :
         TradesOf(leg, TradePages) \subseteq disk.result.rows \/ leg \in disk.result.gaps
  /\ disk.result.run["trades"] > 0 /\ disk.result.run["trades"] = disk.result.run["summary"] =>
       disk.result.run["gaps"] = disk.result.run["trades"]
  /\ disk.table.state = "whole" => disk.table.allow \/ Range(Legs) \subseteq disk.table.legs
  /\ disk.manifest.run > 0 /\ disk.manifest.run = disk.table.run =>
       disk.table.state = "whole" /\ disk.manifest.legs = disk.table.legs

\* The rows a collector closed its file with stay in it, and the file stays
\* readable, whatever fails while a later one extends it (io.py:151-248).
ClosedRowsStay == disk.kept # {} => disk.file = "whole" /\ disk.kept \subseteq disk.rows

\* Nothing that was polled is missing without a mark, and nothing that was written
\* is lost.
PolledIsKept == EveryLegIsAccounted /\ ClosedRowsStay
=============================================================================
