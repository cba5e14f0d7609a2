------------------------------ MODULE BookTape ------------------------------
(***************************************************************************)
(* The book tape of a stream run: the producers of                           *)
(* streaming/legacy/tape_producers.py write what happens to the books of a   *)
(* shard, the coordinator checks a group against the books it has            *)
(* committed (durability.py, _validate_tape_identities), and the engine of   *)
(* data/book_reconstruction_streaming.py replays the groups afterwards.      *)
(*                                                                           *)
(* The engine reads groups in the order of the journal and keeps nothing     *)
(* else, so it is run here on each group as it is committed.  A book is      *)
(* the set of its levels; "bid" and "ask" cross each other.  The hash of a   *)
(* book is the book, an epoch the number _EpochTracker gave it, the id of    *)
(* an event its coordinate.  Receipt times do not step back inside a         *)
(* group.  Kalshi numbers the frames of a shard without holes: a tape        *)
(* whose manifest counts a gap is refused before it is read.                 *)
(***************************************************************************)
EXTENDS Naturals, Sequences, FiniteSets, SequencesExt

CONSTANTS
  MaxMessages,   \* messages, reconnections and checkpoints of a run
  MaxGroup       \* of them between two commits

ASSUME TapeBounds == MaxMessages \in Nat /\ MaxGroup \in Nat \ {0}

TapeBooks == 1..2
Levels == {"bid", "ask"}
None == 0

VARIABLES
  feed,      \* the venue, the count of messages, the venue's sequence
  states,     \* the book states of the shard
  epochs,    \* _EpochTracker: the last epoch of each book, the one open
  tape,      \* the coordinator: rows of the group, the committed books
  replay     \* the engine on the committed groups
tapeVars == <<feed, states, epochs, tape, replay>>

\* MarketBookState, KalshiOrderBookState before a snapshot.  Two fields are
\* not of the code: `baseline', the book has had its snapshot on this
\* connection; `counted', its last frame left a row.
BlankBook == [levels |-> {}, snapshot |-> FALSE, flaw |-> TRUE, seq |-> None,
              baseline |-> FALSE, counted |-> TRUE]

TapeInit ==
  /\ feed \in [venue : {"polymarket", "kalshi"}, local : {0}, seq : {0}, ended : {FALSE}]
  /\ states = [b \in TapeBooks |-> BlankBook]
  /\ epochs = [last |-> [b \in TapeBooks |-> None], open |-> [b \in TapeBooks |-> None]]
  /\ tape = [rows |-> <<>>, size |-> 0, committed |-> [b \in TapeBooks |-> {"none"}],
             refused |-> {}]
  /\ replay = [open |-> [b \in TapeBooks |-> None], native |-> [b \in TapeBooks |-> {}],
               recovering |-> [b \in TapeBooks |-> <<>>], ended |-> {}, heard |-> {},
               progress |-> [b \in TapeBooks |-> <<0, 0, 0>>],
               shardSeq |-> None, bookSeq |-> [b \in TapeBooks |-> None],
               pending |-> <<>>, out |-> <<>>, error |-> <<>>, owed |-> <<>>,
               wrong |-> FALSE]

-----------------------------------------------------------------------------
(* The producers. *)

\* book_integrity_valid.
Whole(book) == book.snapshot /\ ~book.flaw /\ book.levels # Levels

OnKalshi == feed.venue = "kalshi"
Local == feed.local + 1
Frame == feed.seq + 1

\* build_tape_batch: `mutations' gives the levels set and removed.
Event(kind, b, sub, state, tracker, mutations, good, reason) ==
  [kind |-> kind, venue |-> feed.venue, book |-> b, at |-> <<Local, sub>>, reason |-> reason,
   epoch |-> IF kind = "delta" THEN tracker.open[b] ELSE tracker.last[b],
   good |-> good, mutations |-> mutations, after |-> state[b].levels,
   seq |-> state[b].seq, baseline |-> state[b].baseline, counted |-> state[b].counted]
\* build_control_row.
Control(kind, b, sub, epoch, evidence, reason) ==
  [kind |-> kind, venue |-> feed.venue, book |-> b, at |-> <<Local, sub>>, reason |-> reason,
   epoch |-> epoch, evidence |-> evidence]

\* _EpochTracker.issue, open and close.
Issued(tracker, b) == [tracker EXCEPT !.last[b] = tracker.last[b] + 1]
Opened(tracker, b) ==
  [last |-> Issued(tracker, b).last,
   open |-> [tracker.open EXCEPT ![b] = tracker.last[b] + 1]]
Closed(tracker, b) == [tracker EXCEPT !.open[b] = None]

Full(book) == [l \in book.levels |-> TRUE]

\* A checkpoint of book b at the cursor: snapshot, periodic, or the delta that
\* makes a book whole again.
CheckpointRows(state, tracker, b, cursor, reason) ==
  LET whole == Whole(state[b])
      was == tracker.open[b]
      now == IF whole THEN Opened(tracker, b) ELSE Issued(Closed(tracker, b), b)
      event == Event("checkpoint", b, cursor + 1, state, now, Full(state[b]), whole, reason) IN
  [tracker |-> now, cursor |-> cursor + 3,
   rows |->
     (IF ~whole /\ was # None
      THEN <<Control("invalidated", b, cursor, was, <<>>, "invalid")>> ELSE <<>>)
     \o <<event>>
     \o (IF whole
         THEN <<Control("recovered", b, cursor + 2, now.open[b], event.at, reason)>> ELSE <<>>)]

\* The delta of a book: the epoch ends with the book's integrity; a book whole
\* again starts one with a checkpoint; else the mutation is recorded.  Before
\* the first epoch there is nothing to record against.
DeltaRows(state, tracker, b, cursor, mutations) ==
  LET closes == ~Whole(state[b]) /\ tracker.open[b] # None
      invalidated ==
        IF closes THEN <<Control("invalidated", b, cursor, tracker.open[b], <<>>, "invalid")>> ELSE <<>>
      now == IF closes THEN Closed(tracker, b) ELSE tracker
      \* Kalshi rows keep subsequence 1 for the event.
      place == IF OnKalshi THEN 1 ELSE IF closes THEN cursor + 1 ELSE cursor IN
  IF ~state[b].snapshot /\ tracker.last[b] = None
  THEN [tracker |-> tracker, cursor |-> cursor, rows |-> <<>>]
  ELSE IF DOMAIN mutations = {}
  THEN [tracker |-> now, cursor |-> IF closes THEN cursor + 1 ELSE cursor, rows |-> invalidated]
  ELSE IF Whole(state[b]) /\ now.open[b] = None
  THEN CheckpointRows(state, now, b, cursor, "resync")
  ELSE [tracker |-> now, cursor |-> place + 1,
        rows |-> Append(invalidated,
          Event("delta", b, place, state, now, mutations,
                now.open[b] # None /\ Whole(state[b]), "delta"))]

-----------------------------------------------------------------------------
(* The coordinator. *)

Applied(levels, mutations) ==
  (levels \ DOMAIN mutations) \cup {l \in DOMAIN mutations : mutations[l]}

IsEvent(row) == row.kind \in {"checkpoint", "delta"}
Before(a, b) ==
  \/ a[1] < b[1]
  \/ a[1] = b[1] /\ a[2] < b[2]
\* Each row at the place of its rank: `before' holds the pairs of positions in order.
Ranked(rows, before) ==
  [n \in DOMAIN rows |-> rows[CHOOSE m \in DOMAIN rows :
                                Cardinality({k \in DOMAIN rows : <<k, m>> \in before}) = n - 1]]
InOrder(rows) ==
  Ranked(rows, {p \in (DOMAIN rows) \X (DOMAIN rows) :
                  \/ Before(rows[p[1]].at, rows[p[2]].at)
                  \/ rows[p[1]].at = rows[p[2]].at /\ p[1] < p[2]})

\* _validate_tape_identities, one event; `refused' collects what does not hold.
Base(check, row) == IF row.kind = "checkpoint" THEN {} ELSE check.books[row.book]
Checked(check, row) ==
  LET after == Applied(Base(check, row), row.mutations) IN
  IF ~IsEvent(row) THEN check
  ELSE [books |-> [check.books EXCEPT ![row.book] = after],
        refused |-> check.refused \cup
          (IF Base(check, row) = {"none"} \/ after # row.after THEN {row} ELSE {})]
Checks(check, rows) ==
  LET upTo[n \in 0 .. Len(rows)] == IF n = 0 THEN check ELSE Checked(upTo[n - 1], rows[n])
  IN upTo[Len(rows)]
\* _book_control_evidence_errors.
Evidenced(row, rows) ==
  row.kind = "recovered" =>
    \E e \in Range(rows) : /\ e.kind = "checkpoint" /\ e.good /\ e.book = row.book
                           /\ e.at = row.evidence /\ e.epoch = row.epoch
                           /\ row.at = <<e.at[1], e.at[2] + 1>>
Validated ==
  LET check == Checks([books |-> tape.committed, refused |-> {}], InOrder(tape.rows)) IN
  [check EXCEPT !.refused = check.refused \cup {r \in Range(tape.rows) : ~Evidenced(r, tape.rows)}]

-----------------------------------------------------------------------------
(* The engine. *)

\* _causal_items.
Priority(row) ==
  IF row.kind \in {"invalidated", "ended"} THEN 0 ELSE IF IsEvent(row) THEN 1 ELSE 2
Progress(row) == <<row.at[1], row.at[2], Priority(row)>>
Behind(p, q) == \/ p[1] < q[1]
                \/ p[1] = q[1] /\ p[2] < q[2]
                \/ p[1] = q[1] /\ p[2] = q[2] /\ p[3] < q[3]
Causal(rows) ==
  Ranked(rows, {p \in (DOMAIN rows) \X (DOMAIN rows) :
                  \/ Behind(Progress(rows[p[1]]), Progress(rows[p[2]]))
                  \/ Progress(rows[p[1]]) = Progress(rows[p[2]]) /\ p[1] < p[2]})

\* A fault: the source message is no part of what an emission belongs to.
OwnerOfEpoch(row) == <<row.book, row.epoch>>
\* _source_message_ownership.
Owner(row) == <<row.book, row.epoch, row.at[1]>>

\* _emit_pending.
EmitPending(engine) ==
  IF engine.pending = <<>> THEN engine
  ELSE [engine EXCEPT !.out = Append(@, engine.pending[2]), !.pending = <<>>]
Flushed(engine, row) ==
  IF engine.pending # <<>> /\ ~(IsEvent(row) /\ Owner(row) = engine.pending[1])
  THEN EmitPending(engine) ELSE engine

Raise(engine, row) == [engine EXCEPT !.error = <<row>>]

\* A fault: the order of the venue outlives its connection.
OrderKept(engine, row) == engine
\* _reset_venue_order_for_reconnect.
OrderReset(engine, row) ==
  IF row.venue = "kalshi" /\ row.kind = "invalidated" /\ row.reason = "reconnect"
  THEN [engine EXCEPT !.shardSeq = None, !.bookSeq[row.book] = None] ELSE engine

\* _apply_control.
AppliedControl(engine, row) ==
  LET b == row.book IN
  IF row.kind = "recovered"
  THEN IF engine.recovering[b] = <<>> \/ engine.recovering[b] # row.evidence
            \/ engine.open[b] # row.epoch
       THEN Raise(engine, row)
       ELSE [engine EXCEPT !.recovering[b] = <<>>]
  ELSE IF \/ engine.recovering[b] # <<>>
          \/ engine.open[b] # None /\ row.epoch \notin {None, engine.open[b]}
       THEN Raise(engine, row)
       ELSE [engine EXCEPT !.open[b] = None, !.native[b] = {},
                           !.ended = IF row.kind = "ended" THEN @ \cup {b} ELSE @]

\* _validate_venue_order.
Restates(row) == row.kind = "checkpoint" /\ row.reason = "periodic"
Ordered(engine, row) ==
  \/ row.venue # "kalshi"
  \/ /\ row.seq # None
     /\ IF Restates(row) THEN row.seq = engine.bookSeq[row.book]
        ELSE row.seq > engine.shardSeq
Sequenced(engine, row) ==
  IF row.venue # "kalshi" \/ Restates(row) THEN engine
  ELSE [engine EXCEPT !.shardSeq = row.seq, !.bookSeq[row.book] = row.seq]

\* The book after an event of an epoch, and what is emitted of it later.
Emits(engine, row, native) ==
  IF native # row.after THEN Raise(engine, row)
  ELSE [engine EXCEPT !.native[row.book] = native,
                      !.pending = <<Owner(row), <<row.at, row.book, native>>>>]

AppliedEvent(engine, row) ==
  LET b == row.book
      outside == engine.open[b] = None /\ engine.recovering[b] = <<>> IN
  IF ~row.good
  THEN IF outside /\ (row.kind = "delta" => row.epoch = None) THEN engine
       ELSE Raise(engine, row)
  ELSE IF row.kind = "checkpoint"
  THEN IF engine.recovering[b] # <<>> \/ engine.open[b] = row.epoch
       THEN Raise(engine, row)
       ELSE Emits([engine EXCEPT !.open[b] = row.epoch, !.recovering[b] = row.at],
                  row, Applied({}, row.mutations))
  ELSE IF engine.recovering[b] # <<>> \/ engine.open[b] # row.epoch
       THEN Raise(engine, row)
       ELSE Emits(engine, row, Applied(engine.native[b], row.mutations))

\* process_batches, one row.
Replayed(engine, row) ==
  LET flushed == Flushed(engine, row)
      moved == [flushed EXCEPT !.progress[row.book] = Progress(row)] IN
  IF engine.error # <<>> THEN engine
  ELSE IF ~Behind(engine.progress[row.book], Progress(row)) \/ row.book \in engine.ended
  THEN Raise(engine, row)
  ELSE IF ~IsEvent(row) THEN AppliedControl(OrderReset(moved, row), row)
  ELSE IF ~Ordered(moved, row) THEN Raise(moved, row)
  ELSE AppliedEvent([Sequenced(moved, row) EXCEPT !.heard = @ \cup {row.book}], row)

Replays(engine, rows) ==
  LET upTo[n \in 0 .. Len(rows)] == IF n = 0 THEN engine ELSE Replayed(upTo[n - 1], rows[n])
  IN upTo[Len(rows)]

\* finish.
Finished(engine) ==
  LET last == EmitPending(engine) IN
  IF last.error = <<>> /\ ( \/ \E b \in TapeBooks : last.recovering[b] # <<>> \/ last.open[b] # None
                            \/ ~(last.heard \subseteq last.ended))
  THEN [last EXCEPT !.error = <<[kind |-> "finish"]>>] ELSE last

\* History: what the whole books of the group were, in order, has to come out.
OwedMore(owed, row) ==
  IF IsEvent(row) /\ row.good THEN Append(owed, <<row.at, row.book, row.after>>) ELSE owed
Due(owed, rows) ==
  LET upTo[n \in 0 .. Len(rows)] == IF n = 0 THEN owed ELSE OwedMore(upTo[n - 1], rows[n])
  IN upTo[Len(rows)]
Accounted(engine, rows) ==
  LET owed == Due(replay.owed, InOrder(rows)) IN
  [engine EXCEPT !.out = <<>>,
     !.wrong = engine.error = <<>> /\ ~IsPrefix(engine.out, owed),
     !.owed = IF engine.error = <<>> /\ IsPrefix(engine.out, owed)
              THEN SubSeq(owed, Len(engine.out) + 1, Len(owed)) ELSE <<>>]

-----------------------------------------------------------------------------
(* A run. *)

Recording == ~feed.ended /\ tape.refused = {} /\ replay.error = <<>>
Listens ==
  /\ Recording /\ feed.local < MaxMessages /\ tape.size < MaxGroup
  /\ UNCHANGED replay

Staged(emission) ==
  /\ epochs' = emission.tracker
  /\ tape' = [tape EXCEPT !.rows = @ \o emission.rows, !.size = @ + 1]
Numbered(seq) == feed' = [feed EXCEPT !.local = Local, !.seq = IF OnKalshi THEN seq ELSE None]

\* apply_book, apply_snapshot; observe.  One malformed snapshot stands for all.
HearsSnapshot(b) ==
  \E levels \in SUBSET Levels, flaw \in BOOLEAN :
    /\ Listens
    /\ flaw => levels = {"bid"}
    /\ states' = [states EXCEPT ![b] =
         [levels |-> levels, snapshot |-> TRUE, flaw |-> flaw, baseline |-> TRUE, counted |-> TRUE,
          seq |-> IF OnKalshi THEN Frame ELSE None]]
    /\ Staged(CheckpointRows(states', epochs, b, 0, IF epochs.last[b] = None THEN "startup" ELSE "resync"))
    /\ Numbered(Frame)

\* apply_price_change, apply_delta: a level is set or removed; malformed input
\* leaves it, and when its side or price cannot be read there is no mutation.
Change == [level : Levels, on : BOOLEAN, how : {"well"}]
            \cup [level : {"bid"}, on : {FALSE}, how : {"malformed", "unreadable"}]
Touched(book, change) ==
  LET levels == IF change.how # "well" THEN book.levels
                ELSE IF change.on THEN book.levels \cup {change.level}
                ELSE book.levels \ {change.level} IN
  [book EXCEPT !.levels = levels,
               !.flaw = @ \/ change.how # "well" \/ ~book.snapshot,
               !.counted = change.how # "unreadable",
               !.seq = IF OnKalshi THEN Frame ELSE None]
Mutations(book, change) ==
  [l \in IF change.how = "unreadable" THEN {} ELSE {change.level} |-> l \in book.levels]

\* The rows of one message, book by book.
NothingYet == [tracker |-> epochs, cursor |-> 0, rows |-> <<>>]
Prolonged(emission, more) == [more EXCEPT !.rows = emission.rows \o @]
DeltasOf(state, touched, change) ==
  LET upTo[b \in 0 .. 2] ==
        IF b = 0 THEN NothingYet
        ELSE IF b \in touched
        THEN Prolonged(upTo[b - 1], DeltaRows(state, upTo[b - 1].tracker, b, upTo[b - 1].cursor,
                                           Mutations(state[b], change)))
        ELSE upTo[b - 1]
  IN upTo[2]

\* A message is of one book on Kalshi; on Polymarket it may be of both.
HearsDelta(change) ==
  \E touched \in (SUBSET TapeBooks) \ {{}} :
    /\ Listens
    /\ OnKalshi => Cardinality(touched) = 1
    /\ states' = [b \in TapeBooks |-> IF b \in touched THEN Touched(states[b], change) ELSE states[b]]
    /\ Staged(DeltasOf(states', touched, change))
    /\ Numbered(Frame)

\* checkpoint_states.
PeriodicRows ==
  LET upTo[b \in 0 .. 2] ==
        IF b = 0 THEN NothingYet
        ELSE IF states[b].snapshot
        THEN Prolonged(upTo[b - 1],
                    CheckpointRows(states, upTo[b - 1].tracker, b, upTo[b - 1].cursor, "periodic"))
        ELSE upTo[b - 1]
  IN upTo[2]
WritesCheckpoint ==
  /\ Listens
  /\ \E b \in TapeBooks : states[b].snapshot
  /\ Staged(PeriodicRows)
  /\ Numbered(feed.seq)
  /\ UNCHANGED states

\* A control for every book of the shard, at 0, 1...; their epochs are closed.
AllClosed == [epochs EXCEPT !.open = [b \in TapeBooks |-> None]]
ControlOfEach(kind, reason) ==
  [b \in TapeBooks |-> Control(kind, b, b - 1, epochs.open[b], <<>>, reason)]

\* mark_reconnect; reconnect.  The venue counts from one again.
HearsReconnect ==
  /\ Listens
  /\ states' = [b \in TapeBooks |-> BlankBook]
  /\ Staged([tracker |-> AllClosed, rows |-> ControlOfEach("invalidated", "reconnect")])
  /\ Numbered(0)

\* commit of the group.
CommitsTape ==
  /\ Recording /\ tape.rows # <<>>
  /\ IF Validated.refused # {}
     THEN /\ tape' = [tape EXCEPT !.refused = Validated.refused]
          /\ UNCHANGED replay
     ELSE /\ tape' = [tape EXCEPT !.rows = <<>>, !.size = 0, !.committed = Validated.books]
          /\ replay' = Accounted(Replays(replay, Causal(tape.rows)), tape.rows)
  /\ UNCHANGED <<feed, states, epochs>>

\* ended, with its commit; the reconstruction comes to its end.
EndsTape ==
  /\ Recording /\ tape.rows = <<>>
  /\ feed' = [feed EXCEPT !.local = Local, !.ended = TRUE]
  /\ epochs' = AllClosed
  /\ replay' = Accounted(Finished(Replays(replay, Causal(ControlOfEach("ended", "ended")))), <<>>)
  /\ UNCHANGED <<states, tape>>

TapeNext ==
  \/ \E b \in TapeBooks : HearsSnapshot(b)
  \/ \E change \in Change : HearsDelta(change)
  \/ WritesCheckpoint \/ HearsReconnect \/ CommitsTape \/ EndsTape

-----------------------------------------------------------------------------
(* Properties. *)

\* What the producers write is accepted, the mutations of each event leading
\* from the committed book to the one it was taken from, and what is committed
\* can be replayed to its end.  Two cases of the code are left out: a delta
\* after a reconnection and before the snapshot has no committed book to start
\* from (the comment on the baseline, tape_producers.py:313, thinks of the
\* first connection only), and a periodic checkpoint restates a sequence no
\* event has after a Kalshi frame whose side or price cannot be read.
TapeIsReplayable ==
  /\ \A row \in tape.refused : row.kind = "delta" /\ ~row.baseline
  /\ replay.error # <<>> =>
       LET row == replay.error[1] IN
       OnKalshi /\ row.kind = "checkpoint" /\ row.reason = "periodic" /\ ~row.counted

\* Every moment at which a book was whole comes out of the replay once, in
\* order, with the levels it had.
ReplayIsFaithful ==
  /\ ~replay.wrong
  /\ feed.ended /\ replay.error = <<>> => replay.owed = <<>>
=============================================================================
