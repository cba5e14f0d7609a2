---------------------------- MODULE FeedSupervisor ----------------------------
(***************************************************************************)
(* LiveFeedSupervisor over one shard (streaming/supervisor.py): the health *)
(* of every book, the counts kept beside them, and the deadlines by which  *)
(* a check for staleness finds its books without looking at each of them.  *)
(*                                                                         *)
(* Clocks are read as ages, which stop growing once they are past all      *)
(* limits; a deadline is the time left until it.  An entry of the heap     *)
(* that a later one replaced is skipped by its generation and is left out. *)
(***************************************************************************)
EXTENDS Integers, FiniteSets, Functions

CONSTANTS
  Instruments,  \* the books of the shard
  MaxAge,       \* max_message_age_ms and max_valid_book_age_ms
  Sla,          \* initialization_sla_ms
  MaxReports    \* reports of the feed in a run

ASSUME SupervisorBounds == 
  IsFiniteSet(Instruments) /\ MaxAge \in Nat /\ Sla \in Nat /\ MaxReports \in Nat

Old == IF Sla < MaxAge THEN MaxAge + 1 ELSE Sla + 1
Never == Old + 1        \* of a clock: not set; of a deadline: none
Ages == 0..Never
Elapsed(age) == IF age < Old THEN age + 1 ELSE age
Stale(age) == age > MaxAge
Overdue(age) == age # Never /\ age > Sla

VARIABLES
  shard,     \* clocks, connection, flags and cached counts
  books,     \* InstrumentFeedHealth of the instruments
  due,       \* _stale_deadline_values
  checked    \* history: nothing has happened since the last invalidate_stale
supervisorVars == <<shard, books, due, checked>>

Kinds == {"message", "book", "initial"}
Shard == "shard"
ASSUME ShardIsNoBook == Shard \notin Instruments
NoBook ==
  [tracked |-> FALSE, message |-> Never, book |-> Never, valid |-> FALSE,
   integrity |-> FALSE, initial |-> FALSE, flags |-> {}]

\* _instrument_projection, and the counts as _adjust_projection keeps them.
Projection(b) ==
  [valid |-> b.valid /\ b.flags \cap {"stale_messages", "stale_books"} = {},
   invalid |-> ~b.valid,
   stale |-> b.flags \cap {"stale_messages", "stale_books"} # {},
   gap |-> "sequence_gap" \in b.flags,
   blocking |-> ~(b.integrity /\ "reconnect" \notin b.flags)]
Aspects == {"valid", "invalid", "stale", "gap", "blocking"}
One(condition) == IF condition THEN 1 ELSE 0
Adjusted(counts, before, after) ==
  [a \in Aspects |-> counts[a]
     + (IF after.tracked THEN One(Projection(after)[a]) ELSE 0)
     - (IF before.tracked THEN One(Projection(before)[a]) ELSE 0)]
Recount(all) ==
  [a \in Aspects |-> Cardinality({i \in Instruments : all[i].tracked /\ Projection(all[i])[a]})]

SupervisorInit ==
  /\ shard = [connection |-> "initialized", connected |-> Never, message |-> Never,
              book |-> Never, flags |-> {}, counts |-> Recount([i \in Instruments |-> NoBook]),
              overdue |-> {}, reports |-> 0]
  /\ books = [i \in Instruments |-> NoBook]
  /\ due = [k \in {Shard} \cup Instruments |->
              [kind \in Kinds |-> IF k = Shard /\ kind # "initial" THEN 0 ELSE Never]]
  /\ checked = FALSE

-----------------------------------------------------------------------------
(* Deadlines. *)

\* _schedule_stale_deadline: without a clock the deadline has passed.
Left(age, limit) == IF age > limit THEN 0 ELSE limit + 1 - age
Latest(age, other) == IF age < other THEN age ELSE other

\* _schedule_shard_deadlines.
ShardDue(s) ==
  [message |-> Left(s.message, MaxAge), initial |-> Never,
   book |-> Left(IF s.book = Never THEN s.connected ELSE s.book, MaxAge)]

\* _schedule_instrument_deadlines: a book without a snapshot is held to the time
\* to get one; a new connection begins a new time for what was not seen since.
SinceConnection(s, b, age) ==
  IF s.connected # Never /\ (age = Never \/ "reconnect" \in b.flags)
  THEN Latest(age, s.connected) ELSE age

\* A fault: a deadline that is set stays as it is.
BookDueOnce(s, b, old) ==
  IF old.message # Never THEN old
  ELSE [initial |-> IF b.initial \/ s.connected = Never THEN Never ELSE Left(s.connected, Sla),
        message |-> IF b.initial THEN Left(b.message, MaxAge) ELSE Never,
        book |-> IF b.initial THEN Left(b.book, MaxAge) ELSE Never]

BookDue(s, b, old) ==
  IF ~b.initial
  THEN [old EXCEPT !.initial =
          IF s.connected = Never THEN Never ELSE Left(s.connected, Sla)]
  ELSE [initial |-> Never,
        message |-> Left(SinceConnection(s, b, b.message), MaxAge),
        book |-> Left(SinceConnection(s, b, b.book), MaxAge)]

\* _on_shard_deadline_change, for some of the instruments.
Rescheduled(s, all, which) ==
  [k \in DOMAIN due |->
     CASE k = Shard -> ShardDue(s)
       [] k \in which -> BookDue(s, all[k], due[k])
       [] OTHER -> due[k]]
Settled(s, all, which) ==
  {i \in which : all[i].initial \/ s.connected = Never}

\* A change of the shard and of the books of `touched', whose deadlines move with
\* those of `which'.
Changed(s, all, which) ==
  /\ shard.reports < MaxReports
  /\ shard' = [s EXCEPT !.overdue = @ \ Settled(s, all, which), !.reports = @ + 1]
  /\ books' = all
  /\ due' = Rescheduled(s, all, which)
  /\ checked' = FALSE

-----------------------------------------------------------------------------
(* What the feed reports. *)

MarkConnected ==
  Changed([shard EXCEPT !.connection = "connected", !.connected = 0, !.message = 0,
             !.flags = @ \ {"stale_messages", "stale_books"}],
          books, Instruments)
MarkDisconnected ==
  /\ shard' = [shard EXCEPT !.connection = "disconnected"]
  /\ checked' = FALSE /\ UNCHANGED <<books, due>>
MarkTransportAlive ==
  /\ shard.connection = "stale"
  /\ shard' = [shard EXCEPT !.connection = "connected"]
  /\ checked' = FALSE /\ UNCHANGED <<books, due>>

\* Every book starts over; the counts are taken anew.
MarkReconnect ==
  LET all == [i \in Instruments |->
        IF ~books[i].tracked THEN books[i]
        ELSE [NoBook EXCEPT !.tracked = TRUE, !.flags = {"reconnect"}]] IN
  Changed([shard EXCEPT !.connection = "reconnecting", !.connected = Never,
             !.message = 0, !.book = Never, !.flags = {"reconnect"},
             !.counts = Recount(all)],
          all, Instruments)

\* _record_message: a book is tracked from its first message on.
Heard(s) ==
  [s EXCEPT !.message = 0, !.flags = @ \ {"stale_messages"},
     !.connection = IF @ \in {"initialized", "stale", "reconnecting"} THEN "connected" ELSE @]
HeardBook(b) ==
  [b EXCEPT !.tracked = TRUE, !.message = 0, !.flags = @ \ {"stale_messages"}]
With(i, b) == [books EXCEPT ![i] = b]
Counted(s, i, b) == [s EXCEPT !.counts = Adjusted(@, books[i], b)]

RecordMessage(i) ==
  Changed(Counted(Heard(shard), i, HeardBook(books[i])), With(i, HeardBook(books[i])), {i})

\* InstrumentFeedHealth.record_book, of a valid book, one that is whole but not
\* usable, a broken one, and one without a snapshot.
Reports == {"valid", "unusable", "broken", "absent"}
Reported(b, report) ==
  LET heard == HeardBook(b)
      whole == report \in {"valid", "unusable"}
  IN [heard EXCEPT
        !.valid = report = "valid", !.integrity = whole, !.initial = report # "absent",
        !.book = IF report = "valid" THEN 0 ELSE @,
        !.flags = @ \ ((IF report = "valid" THEN {"stale_books"} ELSE {})
                   \cup IF whole THEN {"sequence_gap", "reconnect"} ELSE {})]
RecordBook(i, report) ==
  LET b == Reported(books[i], report)
      s == Counted(Heard(shard), i, b)
      valid == report = "valid"
  IN Changed([s EXCEPT
        !.book = IF valid THEN 0 ELSE @,
        !.flags = @ \ ((IF valid THEN {"stale_books"} ELSE {})
                   \cup (IF valid /\ s.counts["gap"] = 0 THEN {"sequence_gap"} ELSE {})
                   \cup (IF s.counts["blocking"] = 0 THEN {"reconnect"} ELSE {}))],
        With(i, b), {i})

\* A fault: the counts are not told of the gap.
RecordSequenceGapUncounted(i) ==
  LET b == [books[i] EXCEPT !.tracked = TRUE, !.valid = FALSE, !.integrity = FALSE,
              !.flags = @ \cup {"sequence_gap"}] IN
  Changed([shard EXCEPT !.flags = @ \cup {"sequence_gap"}], With(i, b), Instruments)

RecordSequenceGap(i) ==
  LET b == [books[i] EXCEPT !.tracked = TRUE, !.valid = FALSE, !.integrity = FALSE,
              !.flags = @ \cup {"sequence_gap"}] IN
  Changed([Counted(shard, i, b) EXCEPT !.flags = @ \cup {"sequence_gap"}],
          With(i, b), Instruments)

RecordResync(i) ==
  LET b == [books[i] EXCEPT !.tracked = TRUE, !.message = 0, !.flags = @ \ {"sequence_gap"}]
      s == Counted([shard EXCEPT !.message = 0], i, b) IN
  Changed([s EXCEPT !.flags = IF s.counts["gap"] = 0 THEN @ \ {"sequence_gap"} ELSE @],
          With(i, b), {i})

-----------------------------------------------------------------------------
(* invalidate_stale *)

Fired(k) == {kind \in Kinds : due[k][kind] = 0}

\* InstrumentFeedHealth.invalidate_if_stale.
Invalidated(b) ==
  LET flags == (IF Stale(b.message) THEN {"stale_messages"} ELSE {})
                \cup (IF Stale(b.book) THEN {"stale_books"} ELSE {}) IN
  [b EXCEPT !.valid = @ /\ flags = {}, !.flags = @ \cup flags]

\* _invalidate_shard_clocks_if_stale.
InvalidatedShard(s) ==
  LET age == IF s.book = Never THEN s.connected ELSE s.book IN
  [s EXCEPT
     !.connection = IF Stale(s.message) THEN "stale" ELSE @,
     !.flags = @ \cup (IF Stale(s.message) THEN {"stale_messages"} ELSE {})
                 \cup (IF Stale(age) THEN {"stale_books"} ELSE {})]

\* Only what a deadline that has passed points to is looked at.
InvalidateStale ==
  LET hit == {i \in Instruments : Fired(i) \cap {"message", "book"} # {}}
      all == [i \in Instruments |->
                IF i \in hit /\ books[i].tracked THEN Invalidated(books[i]) ELSE books[i]]
      late == {i \in Instruments : "initial" \in Fired(i) /\ ~books[i].initial
                                     /\ shard.connected # Never}
      s == IF Fired(Shard) # {} THEN InvalidatedShard(shard) ELSE shard
      counts[rest \in SUBSET hit] ==
        IF rest = {} THEN shard.counts
        ELSE LET i == CHOOSE i \in rest : TRUE IN Adjusted(counts[rest \ {i}], books[i], all[i])
  IN
  /\ shard' = [s EXCEPT !.counts = counts[hit], !.overdue = @ \cup late]
  /\ books' = all
  /\ due' = [k \in DOMAIN due |-> [kind \in Kinds |->
               IF kind \in Fired(k) THEN Never ELSE due[k][kind]]]
  /\ checked' = TRUE

Tick ==
  /\ shard' = [shard EXCEPT !.connected = Elapsed(@), !.message = Elapsed(@), !.book = Elapsed(@)]
  /\ books' = [i \in Instruments |->
       [books[i] EXCEPT !.message = Elapsed(@), !.book = Elapsed(@)]]
  /\ due' = [k \in DOMAIN due |-> [kind \in Kinds |->
       IF due[k][kind] \in {0, Never} THEN due[k][kind] ELSE due[k][kind] - 1]]
  /\ checked' = FALSE

SupervisorNext ==
  \/ MarkConnected \/ MarkDisconnected \/ MarkTransportAlive \/ MarkReconnect
  \/ \E i \in Instruments :
       \/ RecordMessage(i) \/ RecordSequenceGap(i) \/ RecordResync(i)
       \/ \E report \in Reports : RecordBook(i, report)
  \/ InvalidateStale \/ Tick

-----------------------------------------------------------------------------
(* Properties. *)

\* A check that follows the deadlines leaves no valid book that a look at every
\* book would have found too old, and every book of a connected shard that has
\* been without a snapshot for too long is reported overdue; whatever was
\* connected, rescheduled or cancelled before it.
NoStaleBookSurvives ==
  checked =>
    \A i \in Instruments :
      /\ books[i].valid => ~Stale(books[i].message) /\ ~Stale(books[i].book)
      /\ ~books[i].initial /\ Overdue(shard.connected) => i \in shard.overdue

\* The counts kept change by change are those of the books: the totals reported,
\* and the flags of the shard that are cleared when a count comes to zero.
CountsAreTrue == shard.counts = Recount(books)
=============================================================================
