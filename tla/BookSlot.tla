------------------------------ MODULE BookSlot ------------------------------
(***************************************************************************)
(* What one shard of ManagedBookFeed keeps for ONE instrument, and what    *)
(* each handler does to it, as operators on a record (a "slot").           *)
(*                                                                         *)
(* A slot joins the ladder (MarketBookState or KalshiOrderBookState), the  *)
(* _Recovery of the instrument, and the entries the shard's maps and sets  *)
(* hold for it:                                                            *)
(*   snap     initial_snapshot_received                                    *)
(*   flags    quality_flags, see Flags                                     *)
(*   market   the state's own market / market_id                           *)
(*   updated  the instrument has an entry in shard.updates                 *)
(*   phase    the phase of its _Recovery, or "none"                        *)
(*   due      the deadline of its _Recovery has passed                     *)
(*   answered _Recovery.answered                                           *)
(*   listed   VenueBooks.market_ids: the market last named by a frame      *)
(*   known    shard.market_ids: the market first established               *)
(*   conflict the instrument is in shard.identity_conflicts                *)
(*   resolved the instrument is in shard.resolved                          *)
(*   rev      shard.metadata_revisions                                     *)
(*   sources  history: the markets named by the frames merged into the     *)
(*            ladder since it was last empty or replaced by a snapshot     *)
(* Prices and sizes are abstracted to the flags they raise, and a deadline *)
(* to the fact that it has passed.                                         *)
(***************************************************************************)
EXTENDS Naturals

CONSTANTS
    Venue,      \* the venue of the feed
    Markets,    \* native market identities a frame can name
    NoMarket    \* a frame, or a book, that names no market

ASSUME SlotAssumption ==
    /\ Venue \in {"polymarket", "kalshi"}
    /\ NoMarket \notin Markets

MaybeMarket == Markets \cup {NoMarket}

(***************************************************************************)
(* "crossed": crossed_book and negative_spread, recomputed by every book   *)
(* update.  "broken": malformed_book, delta_before_snapshot, hash_mismatch,*)
(* seq_gap and the other flags that only a new snapshot removes.           *)
(* no_initial_snapshot is ~snap; empty_bid and empty_ask never matter.     *)
(***************************************************************************)
Flags == {"crossed", "broken", "new_market", "market_resolved"}
Phases == {"none", "grace", "pending", "sending", "waiting", "cooldown"}
FrameKinds == {"snapshot", "delta", "tick_size_change", "new_market", "market_resolved"}
BookKinds == {"snapshot", "delta"}

Slot == [snap : BOOLEAN, flags : SUBSET Flags, market : MaybeMarket,
         updated : BOOLEAN, phase : Phases, due : BOOLEAN, answered : BOOLEAN,
         listed : MaybeMarket, known : MaybeMarket, conflict : BOOLEAN,
         resolved : BOOLEAN, rev : Nat, sources : SUBSET Markets]

EmptySlot ==
    [snap |-> FALSE, flags |-> {}, market |-> NoMarket, updated |-> FALSE,
     phase |-> "none", due |-> FALSE, answered |-> FALSE, listed |-> NoMarket,
     known |-> NoMarket, conflict |-> FALSE, resolved |-> FALSE, rev |-> 0,
     sources |-> {}]

-----------------------------------------------------------------------------
\* book_integrity_valid
Intact(x) == x.snap /\ x.flags \subseteq {"new_market", "market_resolved"}

\* A fault: resolution is read from the ladder, which a snapshot replaces.
SettledByFlag(x) == "market_resolved" \in x.flags

\* resolved, as health() and _check_books read it
Settled(x) == x.resolved \/ "market_resolved" \in x.flags

\* the part of health().usable that depends on the instrument
SlotUsable(x) == Intact(x) /\ ~Settled(x) /\ x.phase = "none"

Named(m) == {m} \ {NoMarket}

-----------------------------------------------------------------------------
\* _reset_book: a new state object.  The recovery, the identity and the
\* resolution of the instrument are kept elsewhere and survive.
Reset(x) ==
    [x EXCEPT !.snap = FALSE, !.flags = {}, !.market = NoMarket,
              !.updated = FALSE, !.sources = {}]

\* shard.recovery[instrument] = _Recovery(...)
WithRecovery(x, phase) ==
    [x EXCEPT !.phase = phase, !.due = (phase # "grace"), !.answered = FALSE]

\* shard.recovery.pop(instrument, None)
WithoutRecovery(x) ==
    [x EXCEPT !.phase = "none", !.due = FALSE, !.answered = FALSE]

\* _invalidate, for one instrument: a new VenueBooks and no recovery.
Cleared(x) == [WithoutRecovery(Reset(x)) EXCEPT !.listed = NoMarket]

\* A fault: the cooldown after an unanswered request never ends.
ExpiredForGood(x) ==
    CASE x.phase = "grace"   -> [Reset(x) EXCEPT !.phase = "pending"]
      [] x.phase = "waiting" -> [Reset(x) EXCEPT !.phase = "cooldown", !.due = FALSE]
      [] OTHER               -> x

\* The deadline of a recovery has passed.  An expired grace is latched before a
\* late corrective delta can restore the crossed ladder.
Expired(x) ==
    CASE x.phase = "grace"    -> [Reset(x) EXCEPT !.phase = "pending"]
      [] x.phase = "waiting"  -> [Reset(x) EXCEPT !.phase = "cooldown", !.due = FALSE]
      [] x.phase = "cooldown" -> [x EXCEPT !.phase = "pending"]
      [] OTHER                -> x

(***************************************************************************)
(* _check_books, for one instrument.  late: the connection is at least     *)
(* snapshot_timeout old.                                                   *)
(***************************************************************************)
Checked(x, late) ==
    CASE Settled(x)                          -> x
      [] ~Settled(x) /\ x.phase = "none"     ->
            IF ~x.snap /\ late THEN WithRecovery(x, "pending") ELSE x
      [] ~Settled(x) /\ x.phase # "none"     -> IF x.due THEN Expired(x) ELSE x

\* _recover, before the request: the instrument joins the batch that is sent.
Requested(x) == IF x.phase = "pending" THEN [Reset(x) EXCEPT !.phase = "sending"] ELSE x

\* A fault: the end of the send retires the recovery whatever came meanwhile.
ConfirmedUnanswered(x) == IF x.phase = "sending" THEN WithoutRecovery(x) ELSE x

(***************************************************************************)
(* _recover, after the request.  The objects of the batch are the ones in  *)
(* phase "sending": an object enters that phase only in the batch, and one *)
(* that replaced it meanwhile is in another phase.                         *)
(***************************************************************************)
Confirmed(x) ==
    CASE x.phase = "sending" /\ x.answered  -> WithoutRecovery(x)
      [] x.phase = "sending" /\ ~x.answered ->
            [Reset(x) EXCEPT !.phase = "waiting", !.due = FALSE]
      [] OTHER -> x

-----------------------------------------------------------------------------
(***************************************************************************)
(* A frame of kind k that names market m reaches the ladder; raised are    *)
(* the flags its levels raise.  A delta keeps the flags only a snapshot    *)
(* removes, and one before any snapshot is delta_before_snapshot.          *)
(***************************************************************************)
Applied(x, k, m, raised) ==
    LET y == [x EXCEPT !.market = IF m = NoMarket THEN @ ELSE m] IN
    CASE k = "snapshot" ->
            [y EXCEPT !.snap = TRUE, !.flags = raised, !.sources = Named(m)]
      [] k = "delta" ->
            [y EXCEPT !.flags = (@ \ {"crossed"}) \cup raised
                                  \cup (IF x.snap THEN {} ELSE {"broken"}),
                      !.sources = @ \cup Named(m)]
      [] k = "tick_size_change" ->
            y
      [] k \in {"new_market", "market_resolved"} ->
            [y EXCEPT !.flags = @ \cup {k}]

\* VenueBooks.market_ids: the latest market, which lifecycle events only default.
Listed(x, k, m) ==
    IF m = NoMarket \/ (k \in {"new_market", "market_resolved"} /\ x.listed # NoMarket)
    THEN x
    ELSE [x EXCEPT !.listed = m]

\* A fault: the market of a book is compared only after a conflict.
MismatchLate(x) == x.conflict /\ x.market # x.known

\* The book now carries a market other than the one first established.
Mismatch(x) == x.market # NoMarket /\ x.known # NoMarket /\ x.market # x.known

\* A fault: the answer to a request outlives a change of identity.
ConflictedAnswered(x) ==
    LET y == [Reset(x) EXCEPT !.conflict = TRUE] IN
    IF x.resolved \/ x.phase = "sending" THEN y ELSE WithRecovery(y, "pending")

\* The mixed ladder is dropped; a send that is out keeps its barrier.
Conflicted(x) ==
    LET y == [Reset(x) EXCEPT !.conflict = TRUE] IN
    CASE x.resolved                          -> y
      [] ~x.resolved /\ x.phase = "sending"  -> [y EXCEPT !.answered = FALSE]
      [] ~x.resolved /\ x.phase # "sending"  -> WithRecovery(y, "pending")

Established(x) == [x EXCEPT !.known = IF @ = NoMarket THEN x.market ELSE @]

\* A fault: any snapshot ends a conflict, even one that names no market.
UnverifiedDelta(x, k, m) == x.conflict /\ k # "snapshot"

\* Under a conflict only a snapshot that itself names the established market counts.
Unverified(x, k, m) == x.conflict /\ (k # "snapshot" \/ m # x.known)

Verified(x, k) == [x EXCEPT !.conflict = @ /\ ~(Intact(x) /\ k = "snapshot")]

\* tick_size_change: the consumer has to reconsider the metadata it cached.
Bumped(x) == [x EXCEPT !.rev = @ + 1]

\* A single crossing price_change may be corrected by the next one.
GraceEligible(x, k) ==
    Venue = "polymarket" /\ k = "delta" /\ x.snap /\ x.flags \subseteq {"crossed"}

\* A fault: only a correction within the grace ends a recovery.
RepairsCrossing(x, k) == Intact(x) /\ x.phase = "grace" /\ k = "delta"

\* The frame ends a recovery whose request is not being sent.
Repairs(x, k) == Intact(x) /\ (k = "snapshot" \/ (x.phase = "grace" /\ k = "delta"))

\* What the state of the book after a frame means for its recovery.
Reviewed(x, k) ==
    CASE Settled(x) ->
            [WithoutRecovery(x) EXCEPT !.resolved = TRUE]
      [] ~Settled(x) /\ x.phase = "sending" ->
            [x EXCEPT !.answered = Intact(x) /\ (@ \/ k = "snapshot")]
      [] ~Settled(x) /\ x.phase = "none" /\ ~Intact(x) ->
            WithRecovery(x, IF GraceEligible(x, k) THEN "grace" ELSE "pending")
      [] ~Settled(x) /\ x.phase \notin {"none", "sending"} /\ Repairs(x, k) ->
            WithoutRecovery(x)
      [] ~Settled(x) /\ x.phase = "grace" /\ ~Repairs(x, k)
         /\ ~(x.snap /\ x.flags \subseteq {"crossed"}) ->
            [Reset(x) EXCEPT !.phase = "pending", !.due = TRUE]
      [] OTHER ->
            x

\* shard.updates and shard.source_timestamps
Stamped(x, k) == [x EXCEPT !.updated = @ \/ k \in BookKinds]

\* The body of _ingest's loop over the views of a frame.
Judged(x, k, m) ==
    IF Mismatch(x) THEN Conflicted(x)
    ELSE LET y == Established(x) IN
         IF Unverified(y, k, m) THEN Reset(y)
         ELSE Stamped(Reviewed(Verified(y, k), k), k)

=============================================================================
