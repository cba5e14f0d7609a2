------------------------------ MODULE RecordFeed ------------------------------
(***************************************************************************)
(* record_feed: the coroutine that records one venue connection, the       *)
(* receive task of its message pump, and the books they keep.  An action   *)
(* is what runs between two awaits: a message is applied, recorded, its    *)
(* batch committed when due and its recovery decided in one step, so the   *)
(* receive task never sees the middle of it.                               *)
(*                                                                         *)
(* A ladder is "intact", "locked" (crossed at one price by a delta its     *)
(* complement may correct) or "broken" (any other integrity flag).         *)
(***************************************************************************)
EXTENDS RecordingStore

CONSTANTS
    Instruments,
    Markets,         \* Polymarket condition ids
    None,            \* no market named
    MaxMessages,     \* max_messages
    MaxReconnects,   \* max_reconnects
    MaxFollowup,     \* ComplementaryDeltaRecovery.max_followup_messages
    MaxCommits       \* bound on the batches explored

ASSUME RecordAssumption ==
    /\ Instruments # {} /\ IsFiniteSet(Instruments) /\ None \notin Markets
    /\ MaxMessages \in Nat \ {0} /\ MaxReconnects \in Nat
    /\ MaxFollowup \in Nat \ {0} /\ MaxCommits \in Nat

VARIABLES
    venue,
    main,      \* record_feed: wait, recover (awaiting pump.close), replace (budget.run
               \* before an attempt), reconnect (awaiting it), ending (pump.close again),
               \* closing (client.close), export, over, crashed
    feed,      \* the receive task: fresh (connecting unless connected), retry, connect,
               \* read, then message, ended, error or deadline until it is popped
    link,      \* client.is_connected
    used,      \* WebSocketRetryBudget.used
    count,     \* BookRecorder.source_sequence
    expired,   \* the capture deadline has passed
    cancelled, \* the caller has cancelled the recording
    normal,    \* record_feed's flag of the same name
    rawFailed, \* BookRecorder.raw_failed
    ever,      \* ever_intact_instruments is not empty
    book,      \* VenueBooks per instrument
    late,      \* instruments whose correction deadline has passed
    seen,      \* BookRecorder.last_top: bad, intact or quoted
    stale      \* history: a connection opened over ladders of an earlier one

books == <<book, late, seen, ever>>
tasks == <<main, feed, link, used, stale>>
ends == <<count, expired, cancelled, normal, rawFailed>>
vars == <<storage, venue, tasks, ends, books>>

Polymarket == venue = "polymarket"
NoGrace == -1

EmptyBook == [ladder |-> "none", conflict |-> FALSE, market |-> None,
              resolved |-> FALSE, since |-> NoGrace]

Init ==
    /\ StoreInit
    /\ venue \in {"polymarket", "kalshi"}
    /\ main = "wait" /\ feed = "fresh" /\ link = FALSE /\ used = 0 /\ stale = FALSE
    /\ count = 0 /\ expired = FALSE /\ cancelled = FALSE
    /\ normal = FALSE /\ rawFailed = FALSE
    /\ book = [i \in Instruments |-> EmptyBook]
    /\ late = {} /\ ever = FALSE
    /\ seen = [i \in Instruments |-> "bad"]

TypeOK ==
    /\ StoreType
    /\ venue \in {"polymarket", "kalshi"}
    /\ main \in {"wait", "recover", "replace", "reconnect", "ending", "closing", "export",
                "over", "crashed"}
    /\ feed \in {"fresh", "retry", "connect", "read", "message", "ended", "error", "deadline"}
    /\ used \in 0 .. MaxReconnects /\ count \in 0 .. MaxMessages
    /\ {link, stale, expired, cancelled, normal, rawFailed, ever} \subseteq BOOLEAN
    /\ book \in [Instruments -> [ladder : {"none", "intact", "locked", "broken"},
                                 conflict : BOOLEAN, market : Markets \cup {None},
                                 resolved : BOOLEAN, since : NoGrace .. MaxFollowup]]
    /\ late \subseteq Instruments
    /\ seen \in [Instruments -> {"bad", "intact", "quoted"}]

-----------------------------------------------------------------------------
(* VenueBooks and ComplementaryDeltaRecovery                                *)

Intact(b) == b.ladder = "intact" /\ ~b.conflict

\* A fault: only a top that is new to the recorder is looked at, not its resolution.
TopIgnoringResolution(b) == IF Intact(b) THEN "quoted" ELSE "bad"

\* The top row of a book: valid_state needs more than integrity.
Top(b) == IF ~Intact(b) THEN "bad" ELSE IF b.resolved THEN "intact" ELSE "quoted"

\* apply: whether a message that names market m contradicts what i is known by.
Rejected(i, m, kind) ==
    /\ Polymarket /\ book[i].market # None
    /\ \/ m # None /\ book[i].market # m
       \/ kind = "book" /\ book[i].conflict /\ m # book[i].market

Conflicting(b) == [b EXCEPT !.ladder = "none", !.conflict = TRUE, !.since = NoGrace]

Named(b, m) == IF m = None THEN b ELSE [b EXCEPT !.market = m]

\* A whole book: it ends a conflict when it is intact and names the known market.
WithBook(b, m, ladder) ==
    [Named(b, m) EXCEPT !.ladder = ladder, !.since = NoGrace,
                        !.conflict = b.conflict /\ ladder # "intact"]

\* A delta: what is locked stays locked with the grace it has, or is revoked.
WithDelta(b, m, ladder) ==
    [Named(b, m) EXCEPT !.ladder = ladder,
        !.since = IF ladder # "locked" THEN NoGrace
                  ELSE IF b.ladder = "intact" THEN 0 ELSE b.since]

\* What a delta may make of a ladder: flags of a broken book persist, and only a
\* delta to an intact book opens a grace.
AfterDelta(b) ==
    CASE b.ladder = "none"   -> {"none"}
      [] b.ladder = "broken" -> {"broken"}
      [] OTHER               -> IF Polymarket THEN {"intact", "locked", "broken"}
                                ELSE {"intact", "broken"}

\* VenueBooks.reset: conflicts and resolutions outlive the ladders.
ResetBook(b) == [b EXCEPT !.ladder = "none", !.since = NoGrace]

Waiting(b) == b.since # NoGrace

\* A fault: the bounds of the grace are looked at only after the message.
NeverOverdue(received) == FALSE

\* recovery_due of the grace, asked before a message can erase the evidence.
Overdue(received) ==
    \E i \in Instruments :
        Waiting(book[i]) /\ (i \in late \/ book[i].since + received >= MaxFollowup)

\* VenueBooks.recovery_due, after the message (defer arms what is locked).
Due(bs) ==
    \E i \in Instruments :
        \/ Polymarket /\ bs[i].conflict
        \/ bs[i].ladder = "broken"
        \/ bs[i].ladder = "locked" /\ (i \in late \/ bs[i].since >= MaxFollowup)

-----------------------------------------------------------------------------
(* What the recorder writes                                                 *)

\* tick: the batch is committed when it is due.
Written(e) == Stored \/ (db.commits < MaxCommits /\ Committed(e))

\* observe_books after a whole message.
Observed(bs) ==
    /\ book' = bs
    /\ seen' = [i \in Instruments |-> Top(bs[i])]
    /\ ever' = (ever \/ \E i \in Instruments : Intact(bs[i]))
    /\ late' = {i \in late : Waiting(bs[i])}

\* The except branch: the books are marked unless the store itself has failed.
Interrupted ==
    /\ main' = "ending" /\ normal' = FALSE
    /\ seen' = IF failed' THEN seen ELSE [i \in Instruments |-> "bad"]
    /\ UNCHANGED <<book, late, ever>>

\* An error that is not the recorder's own: its event is written, or refused.
Raises == (Stored \/ StoreFails) /\ Interrupted /\ UNCHANGED rawFailed

\* A row, the commit or the raw file is refused; what the message did to the books is
\* not looked at again.
WriteFails ==
    /\ \/ StoreFails /\ UNCHANGED rawFailed
       \/ rawFailed' = TRUE /\ (Stored \/ StoreFails)
    /\ Interrupted

\* invalidate and disconnected: rows first, then the ladders go.
Disconnected ==
    /\ book' = [i \in Instruments |-> ResetBook(book[i])]
    /\ late' = {}
    /\ seen' = [i \in Instruments |-> "bad"]
    /\ UNCHANGED ever

\* Back to the top of the loop, where the deadline is looked at.
Continue ==
    /\ main' = IF expired THEN "ending" ELSE "wait"
    /\ normal' = expired

-----------------------------------------------------------------------------
(* WebSocketRetryBudget.run and the clients' connect, for whoever calls it  *)

CanRetry == used < MaxReconnects

\* A fault: the ladders of the connection that was lost are kept.
RetriedKeepingBooks ==
    /\ used' = used + 1
    /\ UNCHANGED books

\* A fault: a replacement is not counted.
RetriedUncounted ==
    /\ UNCHANGED used
    /\ Disconnected

\* One replacement: counted, reported, and the books told.
Retried ==
    /\ used' = used + 1
    /\ Disconnected

\* The connection and its subscription_start row.
Opens ==
    /\ link' = TRUE
    /\ stale' = (stale \/ \E i \in Instruments : book[i].ladder # "none")

-----------------------------------------------------------------------------
(* The receive task: iter_messages of either client.  It runs only while the *)
(* loop waits, and a result it has is kept until it is popped.               *)

receiver == <<venue, main, count, expired, cancelled, normal, rawFailed>>

FeedGoes(state) == feed' = state /\ UNCHANGED <<link, used, stale, books>>

\* connect: nothing to do, or a connection that is not counted.  A Kalshi client that
\* finds itself disconnected afterwards ends the stream.
FeedOpens ==
    /\ feed \in {"fresh", "connect"} /\ ~expired
    /\ \/ feed = "fresh" /\ link /\ UNCHANGED <<link, stale, storage>>
       \/ ~(feed = "fresh" /\ link) /\ Opens /\ Stored
    /\ feed' \in IF Polymarket THEN {"read"} ELSE {"read", "ended"}
    /\ UNCHANGED <<used, books>>

FeedCannotOpen ==
    /\ feed = "connect" \/ (feed = "fresh" /\ ~link)
    /\ \/ ~expired /\ feed' = (IF CanRetry THEN "retry" ELSE "error") /\ UNCHANGED storage
       \/ ~expired /\ feed' = "error" /\ StoreFails
    /\ link' = FALSE
    /\ UNCHANGED <<used, stale, books>>

\* A clean close or a transport error; the budget decides.
FeedBreaks ==
    /\ feed = "read" /\ ~link
    /\ FeedGoes(IF CanRetry THEN "retry" ELSE "error") /\ UNCHANGED storage

FeedRetries ==
    /\ feed = "retry" /\ ~expired /\ CanRetry
    /\ \/ Retried /\ Stored /\ feed' = "connect"
       \/ used' = used + 1 /\ StoreFails /\ feed' = "error" /\ UNCHANGED books
    /\ link' = FALSE /\ UNCHANGED stale

FeedRunsOutOfTime ==
    /\ feed \in {"fresh", "connect", "retry"} /\ expired
    /\ FeedGoes("deadline") /\ UNCHANGED storage

FeedReads ==
    /\ feed = "read"
    /\ \E result \in {"message", "error"} : FeedGoes(result)
    /\ UNCHANGED storage

Receiver ==
    /\ main = "wait"
    /\ FeedOpens \/ FeedCannotOpen \/ FeedBreaks \/ FeedRetries \/ FeedRunsOutOfTime \/ FeedReads
    /\ UNCHANGED receiver

\* The venue or the heartbeat ends the connection.
Drops ==
    /\ link /\ main \notin {"closing", "export", "over", "crashed"}
    /\ link' = FALSE
    /\ UNCHANGED <<storage, venue, main, feed, used, stale, ends, books>>

-----------------------------------------------------------------------------
(* Messages: what VenueBooks.apply makes of the books                       *)

Aged(b) == IF Waiting(b) THEN [b EXCEPT !.since = @ + 1] ELSE b
AgedBooks == [i \in Instruments |-> Aged(book[i])]

MaybeMarket == Markets \cup {None}

AfterBook(i, m, ladder) ==
    [AgedBooks EXCEPT ![i] = IF Rejected(i, m, "book") THEN Conflicting(@)
                             ELSE WithBook(@, m, ladder)]

AfterDeltas(S, m, ladders) ==
    [i \in Instruments |->
        IF i \notin S THEN Aged(book[i])
        ELSE IF Rejected(i, m, "price_change") THEN Conflicting(book[i])
        ELSE WithDelta(Aged(book[i]), m, ladders[i])]

AfterTickSize(i, m) ==
    [AgedBooks EXCEPT ![i] = IF Rejected(i, m, "tick_size_change") THEN Conflicting(@)
                             ELSE Named(@, m)]

\* new_market and market_resolved reach the instruments they name and those of their
\* market; a market once known stays.
AfterLifecycle(S, m, resolved) ==
    [i \in Instruments |->
        IF i \in S \/ (m # None /\ book[i].market = m)
        THEN [Aged(book[i]) EXCEPT !.market = IF @ = None THEN m ELSE @,
                                   !.resolved = @ \/ resolved]
        ELSE Aged(book[i])]

\* A Kalshi snapshot or delta; a gap in the sequence breaks the siblings of its sid.
AfterKalshi(i, ladder, siblings) ==
    [j \in Instruments |->
        IF j \in siblings /\ (j = i \/ book[j].ladder # "none") /\ ladder # "none"
        THEN [book[j] EXCEPT !.ladder = "broken"]
        ELSE IF j = i THEN [book[j] EXCEPT !.ladder = ladder] ELSE book[j]]

\* Trades, lifecycle of Kalshi markets, acknowledgements.
Messages ==
    {AgedBooks} \cup
    IF Polymarket
    THEN {AfterBook(i, m, l) : i \in Instruments, m \in MaybeMarket, l \in {"intact", "broken"}}
         \cup (UNION {{AfterDeltas(S, m, l) : m \in MaybeMarket,
                        l \in {f \in [S -> {"none", "intact", "locked", "broken"}] :
                                 \A i \in S : f[i] \in AfterDelta(book[i])}} :
                     S \in (SUBSET Instruments) \ {{}}})
         \cup {AfterTickSize(i, m) : i \in Instruments, m \in MaybeMarket}
         \cup {AfterLifecycle(S, m, r) : S \in SUBSET Instruments, m \in MaybeMarket, r \in BOOLEAN}
    ELSE {AfterKalshi(i, l, S) : i \in Instruments, l \in {"intact", "broken"}, S \in SUBSET Instruments}
         \cup (UNION {{AfterKalshi(i, l, S) : l \in AfterDelta(book[i]), S \in SUBSET Instruments} :
                     i \in Instruments})

-----------------------------------------------------------------------------
(* The loop of record_feed                                                  *)

Done == feed \in {"message", "ended", "error", "deadline"}
Received == IF Done THEN 1 ELSE 0

\* The grace of a locked book is over: what was received is dropped with the connection.
GraceEnds ==
    /\ main = "wait" /\ Overdue(Received)
    /\ main' = "recover"
    /\ UNCHANGED <<storage, venue, feed, link, used, stale, ends, books>>

\* A message is applied, recorded and committed, and the recovery it calls for decided.
Records ==
    /\ main = "wait" /\ feed = "message" /\ ~Overdue(1)
    /\ count' = count + 1
    /\ \/ \E bs \in Messages :
             /\ Observed(bs)
             /\ \/ /\ count' = MaxMessages
                   /\ Stored /\ main' = "ending" /\ normal' = TRUE
                \/ /\ count' < MaxMessages
                   /\ Written(ever')
                   /\ IF Due(bs) THEN main' = "recover" /\ UNCHANGED normal ELSE Continue
          /\ feed' = "read" /\ UNCHANGED rawFailed
       \/ (WriteFails \/ Raises) /\ feed' = "read"
    /\ UNCHANGED <<venue, link, used, stale, expired, cancelled>>

\* The stream ended or failed, or the deadline cut its recovery.
FeedStops ==
    /\ main = "wait" /\ feed \in {"ended", "error", "deadline"} /\ ~Overdue(1)
    /\ \/ feed = "error" /\ Raises
       \/ /\ feed # "error"
          /\ main' = "ending" /\ normal' = (feed = "deadline")
          /\ UNCHANGED <<storage, rawFailed, books>>
    /\ UNCHANGED <<venue, feed, link, used, stale, count, expired, cancelled>>

\* A fault: the deadline is looked at only when a message arrives.
TimerNeverStops ==
    /\ main = "wait" /\ ~Done /\ ~Overdue(0)
    /\ \/ /\ Written(ever) /\ UNCHANGED <<rawFailed, books>>
          /\ main' = (IF Due(book) THEN "recover" ELSE "wait") /\ UNCHANGED normal
       \/ WriteFails
    /\ UNCHANGED <<venue, feed, link, used, stale, count, expired, cancelled>>

\* Nothing came before the next wake.
Timer ==
    /\ main = "wait" /\ ~Done /\ ~Overdue(0)
    /\ \/ /\ Written(ever) /\ UNCHANGED <<rawFailed, books>>
          /\ IF Due(book) THEN main' = "recover" /\ UNCHANGED normal ELSE Continue
       \/ WriteFails
    /\ UNCHANGED <<venue, feed, link, used, stale, count, expired, cancelled>>

\* pump.close: the receive task and what it had are gone.
PumpCloses ==
    /\ main = "recover"
    /\ main' = "replace" /\ feed' = "fresh"
    /\ UNCHANGED <<storage, venue, link, used, stale, ends, books>>

\* budget.run(client.reconnect): deadline, budget, the rows of the attempt.
Replaces ==
    /\ main = "replace"
    /\ \/ /\ expired
          /\ main' = "ending" /\ normal' = TRUE
          /\ UNCHANGED <<storage, used, link, rawFailed, books>>
       \/ ~expired /\ ~CanRetry /\ Raises /\ UNCHANGED <<used, link>>
       \/ /\ ~expired /\ CanRetry
          /\ \/ Retried /\ Stored /\ main' = "reconnect" /\ UNCHANGED <<normal, rawFailed>>
             \/ StoreFails /\ Interrupted /\ used' = used + 1 /\ UNCHANGED rawFailed
          /\ link' = FALSE
    /\ UNCHANGED <<venue, feed, stale, count, expired, cancelled>>

Reconnects ==
    /\ main = "reconnect"
    /\ \/ /\ Opens /\ Stored /\ Continue
          /\ UNCHANGED <<rawFailed, books>>
       \/ link' = FALSE /\ StoreFails /\ Interrupted /\ UNCHANGED <<stale, rawFailed>>
       \/ /\ link' = FALSE /\ CanRetry
          /\ main' = "replace" /\ UNCHANGED <<storage, stale, normal, rawFailed, books>>
       \/ link' = FALSE /\ ~CanRetry /\ Raises /\ UNCHANGED stale
       \/ /\ link' = FALSE /\ expired
          /\ main' = "ending" /\ normal' = TRUE /\ UNCHANGED <<storage, stale, rawFailed, books>>
    /\ UNCHANGED <<venue, feed, used, count, expired, cancelled>>

\* The caller cancels while the loop awaits.
Cancelled ==
    /\ main \in {"wait", "recover", "replace", "reconnect"} /\ ~cancelled
    /\ cancelled' = TRUE
    /\ Raises
    /\ UNCHANGED <<venue, feed, link, used, stale, count, expired>>

-----------------------------------------------------------------------------
(* The finally block, finish, and the export that follows                   *)

\* pump.close, then the terminal samples of a normal end.
Ending ==
    /\ main = "ending"
    /\ main' = "closing" /\ feed' = "fresh"
    /\ \/ normal /\ Stored /\ UNCHANGED normal
       \/ normal /\ StoreFails /\ normal' = FALSE
       \/ ~normal /\ UNCHANGED <<storage, normal>>
    /\ UNCHANGED <<venue, link, used, stale, count, expired, cancelled, rawFailed, books>>

\* A cancellation while pump.close is awaited leaves the finally block.
CancelledWhileEnding ==
    /\ main = "ending" /\ ~cancelled
    /\ cancelled' = TRUE /\ main' = "over"
    /\ UNCHANGED <<storage, venue, feed, link, used, stale, count, expired, normal, rawFailed, books>>

\* finish's verdict on a run that ended with n for normal.
Outcome(n) ==
    CASE ~ever \/ failed \/ rawFailed                     -> "failed"
      [] ~(~ever \/ failed \/ rawFailed)
         /\ n /\ \A i \in Instruments : seen[i] # "bad"   -> "complete"
      [] OTHER                                            -> "partial"

\* client.close, well or not; finish runs at once.
Finishes ==
    /\ main = "closing"
    /\ \E closed \in {"well", "failed", "cancelled"} :
          /\ cancelled' = (cancelled \/ closed = "cancelled")
          /\ closed = "cancelled" => ~cancelled
          /\ normal' = (normal /\ closed = "well")
    /\ \/ FinishCommits(Outcome(normal'), ever) /\ main' = "export"
       \/ FinishFails /\ main' = "over"
    /\ link' = FALSE
    /\ UNCHANGED <<venue, feed, used, stale, count, expired, rawFailed, books>>

Exporting ==
    /\ main = "export"
    /\ \/ /\ export.by # "recorder"
          /\ ExportStarts("recorder") /\ UNCHANGED <<exports, main>>
       \/ ExportTable("recorder") /\ UNCHANGED main
       \/ (ExportManifest("recorder") \/ ExportFails("recorder")) /\ main' = "over"
       \/ export.by # "recorder" /\ lease # "none" /\ UNCHANGED storage /\ main' = "over"
    /\ UNCHANGED <<venue, feed, link, used, stale, ends, books>>

\* The process dies; after a cancelled teardown it merely ends.
Crashes ==
    /\ main # "crashed" /\ (main = "over" => lease = "recorder")
    /\ main' = (IF main = "over" THEN "over" ELSE "crashed")
    /\ StoreDies
    /\ UNCHANGED <<venue, feed, link, used, stale, ends, books>>

-----------------------------------------------------------------------------
TimePasses ==
    /\ main \notin {"over", "crashed"}
    /\ \/ ~expired /\ expired' = TRUE /\ UNCHANGED late
       \/ /\ \E i \in Instruments \ late : Waiting(book[i]) /\ late' = late \cup {i}
          /\ UNCHANGED expired
    /\ UNCHANGED <<storage, venue, tasks, count, cancelled, normal, rawFailed, book, seen, ever>>

Main ==
    \/ GraceEnds \/ Records \/ FeedStops \/ Timer
    \/ PumpCloses \/ Replaces \/ Reconnects
    \/ Ending \/ Finishes \/ Exporting

Next ==
    \/ Main \/ Receiver \/ Drops \/ TimePasses
    \/ Cancelled \/ CancelledWhileEnding \/ Crashes
    \/ Operator /\ UNCHANGED <<venue, tasks, ends, books>>

Spec == Init /\ [][Next]_vars

\* Every await of the loop, of a connection attempt and of the teardown is answered.  A
\* deadline need not come, a recording may be bounded by max_messages alone; nor a message,
\* nor a storage error.
FairSpec == Spec /\ WF_vars(Main /\ UNCHANGED <<failed, rawFailed>>)
                 /\ WF_vars(Receiver /\ feed # "read")

-----------------------------------------------------------------------------
\* The top a recording shows last is true: a book shown intact has its ladder from the
\* present connection and of the market it was established with, and the books of a
\* resolved market are not shown as quotes (VenueBooks.apply, invalidate).
RecordedTopIsTrue ==
    /\ ~stale
    /\ main \in {"wait", "recover"} =>
          \A i \in Instruments :
              /\ seen[i] # "bad" => book[i].ladder = "intact" /\ ~book[i].conflict
              /\ seen[i] = "quoted" => ~book[i].resolved

\* A manifest that says "complete" describes a run that lost no row, saw its raw file
\* through and ended with every book intact; one written after a persistence failure
\* says "failed" (finish, export_recording).
VerdictIsHonest ==
    /\ manifest.status = "complete" =>
          ~lost /\ ~rawFailed /\ \A i \in Instruments : seen[i] # "bad"
    /\ failure = "persistence" => manifest.status \in {"none", "failed"}

\* A locked book is not corrected after its deadline or its last follow-up message: it
\* becomes intact again only from a new connection (record_feed's check before pop).
GraceIsBounded ==
    [][\A i \in Instruments :
          book[i].ladder = "locked" /\ (i \in late \/ book[i].since + 1 >= MaxFollowup)
              => book'[i].ladder # "intact"]_vars

\* What a reader of the directory may rely on.
Contract == INSTANCE RecordingContract WITH
    kept <- db.commits, live <- open, shown <- Shown,
    Hidden <- [rows |-> 0, verdict |-> "none"]

\* Every commit, export and crash keeps the contract of a recording directory.
KeepsRecording == Contract!Spec

\* Whatever the venue does, replacements come to an end (the budget of the capture).
ReconnectsEnd ==
    <>[](main \notin {"replace", "reconnect"} /\ (main = "wait" => feed \notin {"retry", "connect"}))

\* A recording whose deadline has passed ends, whatever the venue does.
RecordingEnds == expired ~> main \in {"over", "crashed"}

\* A cancellation during teardown is still recorded (recording_feed.py, the comment on
\* the terminal sample).
CancellationIsRecorded ==
    main = "over" => db.status # "recording" \/ failed

=============================================================================
