# A verification of pmkt-core

pmkt-core is a public, read-only data plane for prediction markets (Polymarket and
Kalshi): it keeps live order books, records streams, reconstructs and resolves. This
directory holds TLA+ models of its concurrent and failure-prone parts, the TLC runs that
check them on small instances, and TLAPS proofs of what matters most. Paths below are
relative to `src/pmkt/` in the repository.

## Inventory

| Component | State it keeps | Operations | What makes it hard | What makes it correct |
| --- | --- | --- | --- | --- |
| Managed book feed, `streaming/managed_feed.py`, with `VenueBooks` (`recording_feed.py`) and the book states of `exchanges/*/ws.py` | per shard: connection, generation, liveness evidence, recovery per instrument, market identity, ladder validity | start, close, health, book; session, recovery task, probe; one handler per frame | five coroutines on one loop, state read before an await and used after it, timeouts racing answers, two markets claiming one instrument | readers get current, intact, single-market depth or nothing; every bad book is being repaired; every lost connection is replaced |
| Raw capture, `streaming/raw_capture.py` | chunk files, hash chain, pause, generation, readiness, reason of the end | transport, tick, control-frame callback, main, seal | storage that fails half way, crash in a seal, disk pauses across reconnections | published pairs form one chain that marks its losses; FINAL.json is honest; every run ends |
| WebSocket client, `exchanges/ws_transport.py`, `exchanges/polymarket/ws.py` | socket, queue, signal, retry budget | receive, heartbeat, iterate, reconnect, close | three tasks share a queue and a reference to the socket; cancelled waits; silent reconnection | no frame lost, out of order or after a later connection; bounded retries; no task outlives its connection |
| Recorder, `streaming/recording*.py`, `exchanges/polymarket/recovery.py` | books, last recorded tops, SQLite batch, metadata, lease, exports | record_feed, append, commit, finish, export | reconnection inside an iterator, failed commit, crash between tables and manifest, cancellation in the teardown | a recorded top is that of the book; a manifest describes the tables beside it; no batch is half committed |
| Feed supervisor, `streaming/supervisor.py` | health clocks per instrument, deadline heap, counts; the plan of shards | record_*, invalidate_if_stale, projections, construction from a plan | incremental aggregates, deadlines apart from clocks | a check misses no stale book; counts equal a recount; every instrument has one shard |
| Legacy durability, `streaming/legacy/{durability,sqlite_durability,recovery}.py` | buffered rows, segments, journal or database, manifests | add, commit, promote, recover, finalize, verify | death or refusal between any two files, recovery of a recovery | recovery reports what was committed, once; finalized means verifiable |
| Readers of a run, `data/book_reconstruction_streaming.py`, `streaming/legacy/capture_archive.py` | fingerprints of artifacts, staged output, archive | reconstruct and publish; archive and remove | the run may be edited between a check and a use | published books come from committed files; nothing is removed that is not archived |
| Book tape, `streaming/legacy/tape_producers.py`, `data/book_reconstruction*.py` | producer's book and epoch, committed book, replayed book | message, control, checkpoint, group, validate, replay | damage, repair, reconnection in any order; causal order within a group | what is written validates and replays to the books there were |
| Capture evidence, `streaming/legacy/instrument_evidence.py` | attempts, first books, integrity | established, observed, damaged, finish; summary, manifest, reader | several attempts, late and damaged books, death before the rows | verdict, counts and rows agree |
| Emission and sinks, `streaming/legacy/topbook_emission.py`, `data/io.py` | last row, keys, receive times; buffered rows, segments, manifests | observe, checkpoint; add, flush, rotate, close | clocks that step back, failed writes, several sinks | a reader of the rows finds the state in force; manifests list what is there |
| Market catalog, `data/market_catalog/`, `catalog.py` | three pointers, immutable manifests; a reader's snapshot | discover, refresh, promote, compact; open, validate, query | publication in several files, jobs interleaved and killed, a pointer that moves under a reader | history holds what its watermarks stand for; a snapshot is of one release |
| Resolution, `resolution/` | one row per market, cache file; index and results of a batch | ask sources, merge, write; workers of a batch | weaker, later, conflicting evidence; torn file; cancellation | a label is true and never flips; a batch is whole and leaves no worker |
| Collections, `cli/ingest.py` | cursor, seen keys, staging, evidence | four collections of markets, their publication | a listing that changes between pages; failure between dataset, bundle and manifest | what claims to be complete is |
| Polling and backfill, `data/recorder.py`, `data/historical_books.py`, `data/io.py` | segments, manifest, gaps | cycle, append, backfill, one-shot table | failure of a part, death between segment and manifest | nothing polled is missing without a mark |
| HTTP, pagination, history, `_http.py`, `pagination.py`, `exchanges/*/client.py` ... | cursor, budget, partition | page, retry, walk | the venue moves on while pages are read | what is called complete is complete |
| Registry, validation, taxonomy, text, CLI | constants | row checks, parsing | none beyond breadth | not modelled |

The components meet in few places. A feed shard reads a WebSocket client and feeds
`VenueBooks`; callers poll `health()` and `book()` between its awaits. Raw capture owns a
connection of its own and shares only the disk with an uploader. The recorder drives
`VenueBooks` like the feed does and hands its rows to the store. The others are commands
over files and a venue: what one leaves, another reads later. `PROJECT.json` lists the
hazards of each with the line where they bite.

## Modules

Live feeds:

- `BookSlot`: what the feed keeps of one instrument, and what one frame, check or
  deadline does to it. Pure operators on one record: validity of the ladder
  (`snap`, `crossed`, `broken`), the recovery (`phase`, `due`, `answered`), the market
  identity (`known`, `listed`, `sources`, `conflict`), `resolved` and the metadata revision.
- `ManagedFeed` (EXTENDS BookSlot): a shard. One action per stretch of a coroutine between
  two awaits: the session (`OpenSession`, `Connected`, `LoopStops`, `TearDown`, ...), `_ingest`
  by kind of frame, the snapshot recovery (`RecoverPass`, `RecoverSent`, `RecoverFails`), the
  probe, the readers (`Observe`), `Close`, and the world (link, time).
- `BookContract`: what callers of the feed may rely on, without connections, timers or tasks.
  `ManagedFeed!Contract` is the refinement mapping.
- `ChunkWriter`: the writer of raw capture. Each method is the set of its outcomes, since the
  disk may refuse it half way; `files` is the session directory.
- `RawCapture` (EXTENDS ChunkWriter): the transport and tick tasks, the callback for control
  frames and the main coroutine, over one writer; a crash may cut a seal short.
- `RecordingStore`: the SQLite store, its lease, the export and its manifest.
- `RecordFeed` (EXTENDS RecordingStore): the coroutine that records a connection, the receive task
  of its pump, complementary recoveries, the retry budget and the teardown.
- `RecordingContract`: what a reader of a recording directory may rely on; `RecordFeed` implements it.

Commands, one module each, composed by `Commands` (Init is the conjunction, Next the
disjunction; they share no variable, because a process runs one command, so a behaviour
is one command with its venue and its files):

- `LegacyCapture`: both coordinators and recovery; `BookTape`: producers, validation of a group, replay;
  `RunReaders`: reconstruction and archive of a finalized run.
- `CaptureEvidence`, `TopBookEmission`, `StreamSink`: what a capture reports, which rows it
  stores, and the sinks that store them.
- `Catalog`: the four jobs over their pointers; `CatalogReader`: a snapshot over releases that move.
- `ResolutionCache`: sources, merge, labels; `ResolutionBatch`: the workers of a batch.
- `FeedSupervisor`: the health of one shard; `FeedPlan`: its construction.
- `Ingest`: collections; `Polling`: polled and backfilled datasets; `VenueReads`: bounded reads of the
  REST clients; `MarketSocket`: the tasks inside a WebSocket client.

`MCManagedFeed`, `MCRawCapture`, `MCRecordFeed`, `MCCommands` instantiate them for TLC: symmetry
sets, constants, and (in `MCCommands`) conjunctions of two properties of one concern.
The modules named `...Proofs` hold the theorems.

Definitions whose comment starts with "A fault:" are variants of the definition they
precede, with a plausible defect; no specification uses them. Each property has one that
breaks it (`mutants` in `PROJECT.json`): a check that could not fail would show nothing.

### What is abstracted

- A ladder is its validity: whether it is there, crossed, or broken, and which markets'
  frames went into it (in `BookTape`, a level or two, since a replay must find them again).
- Time is what the code compares it with: `stale`, `silent`, `late` and `due` say that the
  deadline in question has passed, and the actions that set them may come at any moment.
  The supervisor's clocks are ages that stop growing past every limit.
- A Kalshi sequence number is kept as a number, because contiguity is a property; a
  generation and a metadata revision too. `MaxGeneration`, `MaxSeq`, `MaxRev` bound them in
  guards, as `MaxX` bounds X everywhere.
- A hash is what it is the hash of. A file is its content, or that it is torn. Rows of a recording
  are the commits that made them durable.
- A storage error may hit every write, flush, seal and state file (`MaxFaults` bounds how many
  in one behaviour). A write that the disk takes only in part is one.
- The catalog: jobs of one kind never run at once (one cron entry each), a market created between the lanes of a
  discovery is created within the overlap. The lane of multivariate events is not modelled.
- `VenueReads`, `Ingest`: what closed does not reopen; the venue keeps its order; the archive cutoff
  moves at most once in a read. `BookTape`: receipt times do not step back within a group.
- `RunReaders`: an edit changes what `stat` shows and never restores old content; nothing is added to
  a run; an archive is not changed from outside. `CatalogReader`: a release is a new directory.
- `StreamSink`: a dataset is segmented, with a number of rows; a call that raises leaves the set open, or
  closing, and its caller may go on. A manifest is replaced as a whole or not at all.
- `TopBookEmission` has one instrument; a row comes with the receive time the capture formatted, so that
  the `ValueError` of an unparsable one, raised when its fingerprint is already kept
  (topbook_emission.py:108, 211), is left out; `MarketSocket` one message per frame, heartbeat times abstracted.

## Runs

| Run | Instance | Shows |
| --- | --- | --- |
| `feed_identity` | Polymarket, one instrument two markets claim, 2 connections, 1 tick change | what is served, how conflicts end, what an answer holds; the feed implements `BookContract` |
| `feed_batch` | Polymarket, two instruments of one market, 2 connections | requests in batches, resolution during a send, tasks of two connections |
| `feed_kalshi` | Kalshi, two instruments, sequence up to 3, 2 connections | contiguity across markets, probe against deadline |
| `feed_live` | Polymarket, one instrument, fair, a venue that answers | reconnection, close, request and repair |
| `capture_faults` | Kalshi, 2 connections, 1 storage error, 2 outside frames | chain, marked losses, FINAL.json, under crashes and faults |
| `capture_live` | Polymarket, fair, sound disk, 2 connections | every run ends, every pause is healed, readiness is on disk |
| `recording` | two instruments, two tables, 3 messages, 1 reconnection, 1 export, crash and storage errors anywhere | recorded tops, verdict, manifest and tables (`RecordingContract`), the grace of a book |
| `recording_ends` | one instrument, 2 reconnections, fair | a recording ends, so does a series of reconnections |
| `commands` | each command with the bounds of `Commands.cfg` | the properties of the commands, one per concern |
| `capture_readable` | one storage error | refutes that a published pair is readable (finding) |
| `capture_control` | one storage error | refutes that a lost control frame is reported (finding) |
| `recording_teardown` | a cancellation in the teardown | refutes that a cancelled recording says so (finding) |

Why the bounds are enough. Two instruments are what a batch, a multi-book frame and a
sequence shared by markets need; two markets what a conflict needs; two connections what an
effect of an old one on a new one needs. In raw capture `MaxFrames` bounds only frames from
outside: markers, subscriptions and errors come on top, so that a run of `capture_faults`
stores up to seven frames in several chunks. One storage error at a time is enough for the
chain, because after a failed seal no write and no seal succeeds. In `commands` each module
has room for what its property is about: two jobs of a kind and two releases in the catalog,
so that a job reads one pointer and finds another (a promotion that overwrites a compaction needs three
releases: with `MaxReleases = 3` the catalog alone has 7.6 million states, has them all right, and the theorem covers
every bound); the rows of all datasets together (`MaxGiven`), so that one may fill a segment and one be left over; two markets, a full page and one page more;
two deaths of a capture, so that a recovery is recovered; two changes of a file, so that one is
compared and one is not. Where a theorem exists, bounds only matter to TLC.

The instruments of the commands are not declared symmetric: one variable serves every
command there, and plans name them in order. `CHECK_DEADLOCK` is off in `recording`, `recording_ends`,
`recording_teardown` and `commands`, where the program ends. A closed feed and an ended capture stutter in a disjunct of their
own, so that any other stop of theirs is reported.

## Fairness

Feed: the event loop runs a coroutine whose await is over, and every await of the feed
ends, by a sleep, a deadline or a timeout: weak fairness on each step of the session,
recovery and timers (`FairSpec`). Frames, pongs and disconnections owe nothing. Only
`RequestedBookRecovers` assumes a venue that answers (`AnsweringSpec`): strong fairness of a valid
snapshot for an instrument that waits for one, since a request goes out again and again, so
that the answer is enabled infinitely often but not for ever.

Capture: weak fairness on each task step: sleeps, connects, closing handshakes and backoffs are
bounded by timeouts. The venue, the disk, signals and crashes owe nothing.

Recorder: weak fairness of the recording coroutine and of the receive task while it is not
waiting for the venue. Messages, the deadline of the run and storage errors are never forced.

## Proofs

Everything here is proved for all values of the constants: every safety invariant and every action
property a passing run checks is a theorem. An invariant a run checks is
seldom inductive: each proof names a stronger one, which TLC checked on the instances above
before it was proved, shows that the initial states have it and every action keeps it, and
that it implies the property. One lemma per action, and under it one step per conjunct the
action can disturb.

**The feed.** `ManagedFeedProofs` begins with `BookSlot`: every operator of it keeps `SlotInv`: an answer is
intact, a conflict has something to show for it, a ladder without conflict is of the known
market, a bad ladder has a recovery. `IInv` adds which task
exists in which phase of the session, and that a connection that is not live has no evidence
and no usable slot. It carries the four invariants of the runs, the ownership of sends and the
action properties `ConflictNeedsProof`, `StallIsLatched`, `RevisionsGrow` and `DepthIsContiguous`; for the
last, every operator but the one for depth is shown to add neither snapshot nor evidence
while the cursor stands still. It ends with the refinement: every step of the feed is a step of
`BookContract` or a stutter.

**Raw capture.** `ChunkWriterProofs`: `WInv`: pairs are linked, and unless a seal failed half way the
writer remembers their end and number, they cover every frame up to it, and the open chunk
begins behind it. `RawCaptureProofs`: `IInv` says that a living session has `WInv` and that a
writer whose seal failed belongs to a tick that raised; from it follow the chain and
`FinalIsHonest`, neither of which is inductive alone, because a pair names its predecessor from
the writer's memory and never from the disk. On top of it `MarkInv` (a gap in the stream has its marker stored, or
is still owed one, or the run ends as partial) gives `LossIsMarked`, and `ReadyInv` (what the readiness rests on is in the
chunks or will be sealed into them before it is believed) gives `ReadyIsBacked`.

**Recorder.** `RecordFeedProofs`: `IInv` is the conjunction of `StoreInv` (batch, lease, tables and manifest), `LoopInv`
(what the coroutine holds at each of its awaits), `VerdictInv` (each reason to doubt a recording has
left its trace) and `BookInv` (a top that was recorded is that of the book, or the book is not
trusted). From it follow `RecordedTopIsTrue` and `VerdictIsHonest`; `ContractStep` shows that every step of
`RecordFeed` is one of `RecordingContract`.

**Catalog.** `CatalogProofs`: `CatalogInv` follows what each job under way has read. Its core is
coverage: a market that a promoted discovery stands for is in the history *and* in what a
compaction under way will publish, or announced by a discovery that no promotion passed yet.
Without the second half the invariant fails when a promotion runs inside a compaction. A promotion looks at its
parent and replaces the pointer in two steps, and a compaction may publish in between: what only that compaction had
brought is then gone from the history, but not from the corrections it read, which stay what the next one reads
(`Lasting`, and `overtaken` where it happened). It gives `HistoryIsWhole`. `ReaderInv` says which artifacts of which release the reader has validated so far, gives `SnapshotIsOneRelease`.
`IngestInv` is about the collections of markets: a cursor leaves behind it only what was read (the page lemma: a market
that stays in a listing keeps its side of every place), a market seen in one lane all along is in what that lane
gathered, and each settled segment holds what lies between its cursor and the next. The chain of segments is the least
closed set of segment names, so no recursion is needed; with it `CollectionsAreWhole`. `ReadInv` says, for each kind of bounded
read, what is still to ask, and how what was read and what is still to come add up; `SocketInv` that the frames of a
connection are, in order, those handed out, the one in hand, those in the queue and those on the wire: their
numbers are consecutive, so none is lost or out of place. Together `ReadsAreWhole`.

**Commands.** `CommandProofs` and, for files that are read again, `FileProofs`. `ResolutionInv` relates each row to the evidence seen (a final row has
canonical evidence; none of another outcome was merged without leaving a conflict), gives
`LabelIsTrue` and the action property `LabelNeverFlips`. `BatchInv`: each index was taken once, and its result is at its
place or its worker is at work. `SupervisorInv`: the deadlines kept are what is left until the limits, so that a
check that follows them misses no stale book; the limits and the level of service are independent
numbers. `RunInv` follows the steps a command on a finalized run has left. For the archiver they
come stage by stage (`PackPlanned`), and at each stage it says what the earlier ones established: what was
compared, and not changed behind the comparison, is what the archive holds; what the sidecar
digested is what is removed. For the reconstruction, every table that was read awaits another
look at its file, and a table keeps its content once that look succeeds: `saw <= files`, since content only
moves on. It gives `RunFilesAreTrusted`. Facts about the plans themselves come from lemmas on
concatenation (`JoinedInOrder`, `JoinedReading`).
A backfill result is three files of one run, each open and then whole, in an order that ends with
the summary; `ResultHolds` says which of them are of the run at hand. `PollInv` says what each kind of polling process has in hand at each step, that the rows of a cycle
are listed or still to be written, and that a manifest only lists segments that are there, so that a
successor of a dead process numbers its segments behind them; it gives `PolledIsKept`. `EvidenceInv` says
that the last attempt of a tracker knows what was seen since it began; `SummaryIs` proves, by a bijection
of attempts and instruments with rows, that the tracker's counts are those of its rows, and finiteness
that a reader which counts as many rows as the report has all of them; together `EvidenceIsHonest`. `EmissionInv`
follows receive times and the last row of the main role, and gives `EmissionReplays`. `LiveSink` puts the rows a sink
accepted in their order: those of its segments, of the open segment, taken from the buffer, in the buffer, less the ones that a
raising call had in its hands. A segment whose writer failed is broken and its rows are lost, one that was not renamed is left, and its
index taken again: neither may be among the readable ones. `SoundDirectory` says that a manifest lists what is there
and, unless its last write failed, misses the newest segment at most. The two halves are `StreamRowsAreKept`.
`CountsStep` shows that the counts of a shard, which each report adjusts by what left and what came, stay those a
recount gives; the recount is a recursive function, and what it computes is shown by the least set of books for which
it would not. `PlanInv` is what a plan is built into. It rests on what `Filtered` keeps, by induction over the positions of a
sequence, and on there being an order of the selection to put a shard in (`OrderIs`): a shard of a selection never holds an
instrument twice, because what is left over is planned nowhere (`JoinsIs`), so that a plan is turned down only for
what is wrong with it. Together `ShardsAreTrue`.
`LegacyInv` is about a stream run between the steps of the processes that write, fail, close, die and recover it. The
journal is a sequence of records, each at its place with files of its own that are all there (`JournalInv`), so it
validates whenever its last line is whole. What is there besides, segments and temporary files alike, is of the group
at hand and of roles its next attempt writes (`Owing`, `WritingGroup`), so nothing but the journal's files is left
when a group is published; that is why a run that closes never refuses its own manifest. A recovery moves the
segments away but not the temporary files, which is the one exception `FinalizedIsWhole` makes. While manifests are
written, the ones that are there list what the journal lists (`Written`). The invariant was checked by TLC with up to
three rows and three deaths before it was proved. `RowsInv` adds the rows: those offered are, in order, those of the groups
on disk, of the group being written, and of the buffer; and what was promised is on disk. `FlattenSeq` and the buffer of
each role are followed by the group that is appended or filled, which gives `CommittedIsRecovered`.

**The book tape.** `TapeProofs`. The property speaks of the end of a group: what the commit refuses, what the engine gave
out. `TapeHolds` speaks of every row: folding the rows of the group written so far through the coordinator's check,
through the engine, and through the account of what a reader is owed (`Reads`) agrees with the books and epochs the
producers have now. Where a producer has an epoch open, the engine has the same epoch and the same levels; where the book has had
its snapshot, so has the coordinator; what the engine gave out or holds back is what is owed. It agrees unless the engine stopped
at a checkpoint the code's own order refuses. Both sorts, the one of the check and the causal one of
the replay, give the rows back as they were written (`RowsAreOrdered`), because a row is written behind all the others, and
a rank in a finite set that is already in order is a position. So a commit does at once what was followed row by row.
One lemma says what each kind of row does to the engine (`...Taken`), one that both sides still agree behind it (`...IsTold`),
one that the group is still read with it (`...Reads`), and one per message of the producers that all its rows are
(`Staging`, for the books of a message one after another). The invariant needs the engine inside a group, which the model
runs at commits only; so the folds of `BookTape` are recursive functions over positions, and one more row is one more step.

**Induction over data.** The library's induction theorems take an operator and cannot be instantiated here. Where a fact
needs induction it is proved by contradiction from the least number at which it would fail (`Least`, from the
well-foundedness of the naturals), or from a set of numbers that holds 0 and is closed under successor (`Upward`); a
recursive function is first shown to exist that way, and then used by its defining equation.

Because the commands share no variable, a theorem about one of them follows from lemmas on its own steps:
`XBegins` and `XGoes` say that the specification's initial states and steps are those of command X.

Assumptions, all stated with the constants and evaluated by TLC: `FeedAssumption`, `WriterAssumption`,
`CaptureAssumption`, `StoreAssumption`, `RecordAssumption`, `ReaderBounds`, `SupervisorBounds`, `BatchAssumption` and the other bounds say that
bounds are numbers, and sets of instruments and tables finite or not empty. `CatalogBounds` also says that streams with two lanes are
streams, that lanes overlap (the code's look-back is positive) and that a stream is not named like
a job. `IngestBounds` and `ReadBounds` say that page sizes and bounds are
numbers of the right sign, `SupervisorBounds` that instruments are finitely many, `PlanAssumption` that no instrument
is called like the absence of one. `PollingAssumption` says that the legs of a poll form a sequence, `EmissionAssumption` that "unseen" is not
the fingerprint of a state (it is `None` in the code). `ShardIsNoBook` says that the name of the shard's own clock is no instrument.

Only model-checked:

- every liveness property (`Reopens`, `CloseCompletes`, `DarkBookIsRequested`, `RequestedBookRecovers`, `RunEnds`,
  `PauseIsHealed`, `ReconnectsEnd`, `RecordingEnds`): fairness and ENABLED are beyond this prover;
- the properties of the runs that end in a violation, which are refuted and not proved.

## Findings

- `capture_readable`: compressed bytes that a write or flush loses (an error the transport survives, or a short
  write of the unbuffered file) stay lost, and the chunk is published with a `frame_count` it
  does not hold.
- `capture_control`: the close frame of the normal end of a run is recorded after the reason was decided.
  If it cannot be stored, FINAL.json still says `deadline`, not partial.
- `recording_teardown`: a cancellation that arrives while `record_feed` closes its pump is lost: the run
  reports how it would have ended without it.

Met while modelling, and modelled as the code has it:

- Legacy recovery: a temporary file that a crash leaves in `pq.write_table` (durability.py:902-912) makes
  `recover-stream-run --finalize` refuse the run. A crashed archive leaves a staging file, or an archive
  without a sidecar, that blocks later ones; a file edited between comparison and digest is
  removed with its new content in no archive (`slipped`).
- Book tape: a delta after a reconnection and before its snapshot is refused, against the comment at
  tape_producers.py:313; a Kalshi delta whose side or price is unreadable, followed by a checkpoint,
  makes the reconstruction raise.
- Collections: `keyset` replaces its output before the manifest that describes it; a Kalshi page that is
  empty but has a cursor counts as a complete end; a crash leaves an output or bundle in the way of the next run.
- Polling: a crash in an in-place write leaves a file without a footer, one between segment and manifest
  an unlisted segment, one between the files of a backfill files of different runs, which only their run
  ids tell apart; a one-shot table is rewritten while the older manifest stays.
- `StreamSink`: `overwrite` clears files in any order; a failed flush loses rows, yet `close()` writes "closed". A segment
  that cannot be renamed (io.py:550) goes with its rows: the next flush or `close()` takes its index and removes its
  temporary file (io.py:529). A `writer.close()` that failed is "repeated" without effect, and the broken file renamed
  and listed. A "closed" manifest may then name an unfinished segment. When a
  sink fails in `__aenter__` those entered before stay open.
- `FeedPlan`: an empty selection with entries and no legacy list builds no shard although preflight is
  content; an instrument in two shards passes preflight and raises in the constructor.
- `MarketSocket`: `_heartbeat_loop` awaits `ws.close()` unshielded and `close()` cancels that task, against the
  comment in `close`; a `subscribe()` during `connect()` opens a second socket and leaks the first.
- Catalog: a promotion checks its parent (history.py:343) and then replaces the pointer (363); a compaction
  published in between (690) is overwritten, and its corrections wait for the next compaction. A market that leaves the census unresolved is in no later one (service.py:1517); the cache file
  is written in place (parquet.py:31). On Python 3.10 and 3.11 a cancellation that `asyncio.wait_for` loses
  lets a worker of a batch go on.

## Plan

Done: all modules above, their runs, and the proofs listed. Left, in this order:

1. A refinement of the recorder's and the feed's contracts by one specification of what a consumer of both may rely on.
2. The parts named below as not modelled, of which the balance of the planner and the lane of multivariate events come first.

## Not modelled

The registry, row validation, text and taxonomy tables and most of the CLI have no state or
order to check. Book depth beyond a level, quotes and lag statistics are data that no property here
depends on. The wallet scripts under `scripts/` and the notebooks are one-off tools.
