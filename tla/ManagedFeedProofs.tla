-------------------------- MODULE ManagedFeedProofs --------------------------
(***************************************************************************)
(* The safety of ManagedBookFeed, for any venue, any set of instruments    *)
(* and markets, any number of connections and any order of frames, timers, *)
(* reads and task steps.  SlotInv is what the handlers of an instrument    *)
(* preserve; ShardInv is what the tasks keep between them.                 *)
(***************************************************************************)
EXTENDS ManagedFeed, TLAPS

\* The ladder has a timestamp, and only frames of the market it carries,
\* which is the established one.
LadderInv(x) ==
    /\ x.snap => x.updated
    /\ x.market # NoMarket => x.market = x.known
    /\ x.sources \subseteq Named(x.market)

\* A conflict presumes an established market, and the book is not intact.
ConflictInv(x) == x.conflict => x.known # NoMarket /\ ~Intact(x)

\* An answered recovery has intact depth to retire on.
AnswerInv(x) == x.answered => x.phase = "sending" /\ Intact(x)

\* Resolution is recorded, and ends recovery; a bad book is under recovery.
RecoveryInv(x) ==
    /\ Settled(x) => x.resolved /\ x.phase = "none"
    /\ x.snap /\ ~Intact(x) /\ ~x.resolved => x.phase # "none"

SlotInv(x) ==
    /\ x \in Slot
    /\ LadderInv(x) /\ ConflictInv(x) /\ AnswerInv(x) /\ RecoveryInv(x)

-----------------------------------------------------------------------------
\* A subscribed instrument starts with an empty slot, which is sound.
LEMMA EmptyInv == SlotInv(EmptySlot)
BY SlotAssumption DEF SlotInv, LadderInv, ConflictInv, AnswerInv, RecoveryInv, Slot,
      EmptySlot, MaybeMarket, Phases, Flags, Intact, Settled, Named

\* Dropping a ladder without an answer keeps the slot sound.
LEMMA ResetInv ==
    ASSUME NEW x, SlotInv(x), ~x.answered
    PROVE  SlotInv(Reset(x))
BY SlotAssumption DEF SlotInv, LadderInv, ConflictInv, AnswerInv, RecoveryInv, Slot,
      Reset, MaybeMarket, Phases, Flags, Intact, Settled, Named

\* _invalidate leaves a sound slot, with no ladder and no recovery.
LEMMA ClearedInv ==
    ASSUME NEW x, SlotInv(x)
    PROVE  /\ SlotInv(Cleared(x))
           /\ ~Cleared(x).snap /\ Cleared(x).phase = "none" /\ ~Cleared(x).updated
           /\ Cleared(x).resolved = x.resolved /\ Cleared(x).known = x.known
BY SlotAssumption DEF SlotInv, LadderInv, ConflictInv, AnswerInv, RecoveryInv, Slot,
      Cleared, WithoutRecovery, Reset, MaybeMarket, Phases, Flags, Intact, Settled, Named

\* _check_books leaves a book alone, starts a recovery, or moves one on.
LEMMA CheckedCases ==
    ASSUME NEW x, NEW overdue
    PROVE  \/ Checked(x, overdue) = x
           \/ /\ ~Settled(x) /\ x.phase = "none" /\ ~x.snap
              /\ Checked(x, overdue) = WithRecovery(x, "pending")
           \/ /\ ~Settled(x) /\ x.phase = "grace"
              /\ Checked(x, overdue) = [Reset(x) EXCEPT !.phase = "pending"]
           \/ /\ ~Settled(x) /\ x.phase = "waiting"
              /\ Checked(x, overdue) = [Reset(x) EXCEPT !.phase = "cooldown", !.due = FALSE]
           \/ /\ ~Settled(x) /\ x.phase = "cooldown"
              /\ Checked(x, overdue) = [x EXCEPT !.phase = "pending"]
BY DEF Checked, Expired

\* _check_books keeps the slot sound, and neither starts nor ends a send.
LEMMA CheckedInv ==
    ASSUME NEW x, SlotInv(x), NEW overdue
    PROVE  /\ SlotInv(Checked(x, overdue))
           /\ Checked(x, overdue).phase = "sending" <=> x.phase = "sending"
           /\ Checked(x, overdue).resolved = x.resolved
           /\ Checked(x, overdue).known = x.known
           /\ SlotUsable(Checked(x, overdue)) => Checked(x, overdue) = x
<1> USE SlotAssumption DEF SlotInv, LadderInv, ConflictInv, AnswerInv, RecoveryInv, Slot,
          MaybeMarket, Phases, Flags, Intact, Settled, Named, SlotUsable
<1>1. CASE Checked(x, overdue) = x
  BY <1>1
<1>2. CASE ~Settled(x) /\ x.phase = "none" /\ ~x.snap
           /\ Checked(x, overdue) = WithRecovery(x, "pending")
  BY <1>2 DEF WithRecovery
<1>3. CASE ~Settled(x) /\ x.phase = "grace"
           /\ Checked(x, overdue) = [Reset(x) EXCEPT !.phase = "pending"]
  BY <1>3 DEF Reset
<1>4. CASE ~Settled(x) /\ x.phase = "waiting"
           /\ Checked(x, overdue) = [Reset(x) EXCEPT !.phase = "cooldown", !.due = FALSE]
  BY <1>4, ZenonT(60) DEF Reset
<1>5. CASE ~Settled(x) /\ x.phase = "cooldown"
           /\ Checked(x, overdue) = [x EXCEPT !.phase = "pending"]
  BY <1>5
<1>6. QED
  BY <1>1, <1>2, <1>3, <1>4, <1>5, CheckedCases, ZenonT(60)

-----------------------------------------------------------------------------
\* Joining a batch keeps the slot sound; only what was pending is sent.
LEMMA RequestedInv ==
    ASSUME NEW x, SlotInv(x)
    PROVE  /\ SlotInv(Requested(x))
           /\ Requested(x).resolved = x.resolved
           /\ Requested(x).known = x.known
           /\ ~SlotUsable(Requested(x)) \/ Requested(x) = x
<1> USE SlotAssumption DEF SlotInv, LadderInv, ConflictInv, AnswerInv, RecoveryInv, Slot,
          MaybeMarket, Phases, Flags, Intact, Settled, Named, SlotUsable
<1>1. CASE x.phase = "pending"
  BY <1>1 DEF Requested, Reset
<1>2. CASE x.phase # "pending"
  BY <1>2 DEF Requested
<1>3. QED
  BY <1>1, <1>2

\* The end of a send keeps the slot sound and leaves nothing being sent; what it
\* makes usable is the intact book that answered.
LEMMA ConfirmedInv ==
    ASSUME NEW x, SlotInv(x)
    PROVE  /\ SlotInv(Confirmed(x))
           /\ Confirmed(x).phase # "sending"
           /\ Confirmed(x).resolved = x.resolved
           /\ Confirmed(x).known = x.known
           /\ SlotUsable(Confirmed(x)) => Confirmed(x).sources = x.sources
<1> USE SlotAssumption DEF SlotInv, LadderInv, ConflictInv, AnswerInv, RecoveryInv, Slot,
          MaybeMarket, Phases, Flags, Intact, Settled, Named, SlotUsable
<1>1. CASE x.phase = "sending" /\ x.answered
  BY <1>1 DEF Confirmed, WithoutRecovery
<1>2. CASE x.phase = "sending" /\ ~x.answered
  BY <1>2 DEF Confirmed, Reset
<1>3. CASE x.phase # "sending"
  BY <1>3 DEF Confirmed
<1>4. QED
  BY <1>1, <1>2, <1>3

-----------------------------------------------------------------------------
(***************************************************************************)
(* A slot whose ladder a frame of kind k has just changed, and which has   *)
(* not been judged yet: it may be mixed, crossed or broken, but what it    *)
(* says of identity, answers and resolution is still sound.                *)
(***************************************************************************)
Judgeable(x, k) ==
    /\ x \in Slot
    /\ x.snap => x.updated \/ k = "snapshot"
    /\ ~Mismatch(x) => x.sources \subseteq Named(x.market)
    /\ x.conflict => x.known # NoMarket
    /\ x.answered => x.phase = "sending" /\ ~x.conflict
    /\ x.resolved => x.phase = "none"

\* The market a frame lists for later lifecycle events is no part of what is sound.
LEMMA ListedInv ==
    ASSUME NEW x, SlotInv(x), NEW k, NEW m \in MaybeMarket
    PROVE  /\ SlotInv(Listed(x, k, m))
           /\ Listed(x, k, m).known = x.known /\ Listed(x, k, m).resolved = x.resolved
           /\ Listed(x, k, m).phase = x.phase
<1> USE SlotAssumption DEF SlotInv, LadderInv, ConflictInv, AnswerInv, RecoveryInv,
          Slot, MaybeMarket, Flags, Intact, Settled, Named
<1>1. CASE Listed(x, k, m) = x
  BY <1>1
<1>2. CASE Listed(x, k, m) = [x EXCEPT !.listed = m]
  BY <1>2
<1>3. QED
  BY <1>1, <1>2 DEF Listed

\* Any frame leaves a sound slot judgeable, and identity and resolution as they were.
LEMMA AppliedJudgeable ==
    ASSUME NEW x, SlotInv(x), NEW k \in FrameKinds, NEW m \in MaybeMarket,
           NEW raised \in SUBSET {"crossed", "broken"}
    PROVE  /\ Judgeable(Applied(x, k, m, raised), k)
           /\ Applied(x, k, m, raised).known = x.known
           /\ Applied(x, k, m, raised).resolved = x.resolved
           /\ Applied(x, k, m, raised).phase = x.phase
<1> USE SlotAssumption DEF SlotInv, LadderInv, ConflictInv, AnswerInv, RecoveryInv,
          Slot, MaybeMarket, Flags, Intact, Settled, Named, Judgeable, Mismatch
<1>2. CASE k = "snapshot"
  BY <1>2 DEF Applied
<1>3. CASE k = "delta"
  BY <1>3, ZenonT(60) DEF Applied
<1>4. CASE k = "tick_size_change"
  BY <1>4 DEF Applied
<1>5. CASE k = "new_market"
  BY <1>5, ZenonT(60) DEF Applied
<1>6. CASE k = "market_resolved"
  BY <1>6, ZenonT(60) DEF Applied
<1>7. QED
  BY <1>2, <1>3, <1>4, <1>5, <1>6 DEF FrameKinds

\* Dropping a mixed ladder makes the slot sound.
LEMMA ConflictedInv ==
    ASSUME NEW x, NEW k, Judgeable(x, k), Mismatch(x)
    PROVE  /\ SlotInv(Conflicted(x))
           /\ Conflicted(x).phase = "sending" => x.phase = "sending"
           /\ Conflicted(x).resolved = x.resolved /\ Conflicted(x).known = x.known
           /\ ~SlotUsable(Conflicted(x))
<1> USE SlotAssumption DEF SlotInv, LadderInv, ConflictInv, AnswerInv, RecoveryInv, Slot,
          MaybeMarket, Phases, Flags, Intact, Settled, Named, SlotUsable, Judgeable, Mismatch
<1>1. CASE x.resolved
  BY <1>1 DEF Conflicted, Reset
<1>2. CASE ~x.resolved /\ x.phase = "sending"
  BY <1>2 DEF Conflicted, Reset
<1>3. CASE ~x.resolved /\ x.phase # "sending"
  BY <1>3 DEF Conflicted, Reset, WithRecovery
<1>4. QED
  BY <1>1, <1>2, <1>3

\* A sound slot whose ladder a frame of kind k has yet to stamp.
Stampable(x, k) ==
    /\ x \in Slot
    /\ x.snap => x.updated \/ k = "snapshot"
    /\ x.market # NoMarket => x.market = x.known
    /\ x.sources \subseteq Named(x.market)
    /\ ConflictInv(x) /\ AnswerInv(x) /\ RecoveryInv(x)

\* The time stamp completes the slot.
LEMMA StampedInv ==
    ASSUME NEW x, NEW k, Stampable(x, k)
    PROVE  /\ SlotInv(Stamped(x, k))
           /\ Stamped(x, k).phase = x.phase /\ Stamped(x, k).resolved = x.resolved
           /\ Stamped(x, k).known = x.known /\ Stamped(x, k).conflict = x.conflict
           /\ Stamped(x, k).sources = x.sources /\ Intact(Stamped(x, k)) = Intact(x)
BY DEF Stampable, SlotInv, Slot, LadderInv, ConflictInv, AnswerInv, RecoveryInv, Stamped,
      BookKinds, Intact, Settled

\* Reviewing a ladder of the right market, with its identity verified, makes it sound.
LEMMA ReviewedInv ==
    ASSUME NEW x, NEW k, Judgeable(x, k), ~Mismatch(x),
           x.market # NoMarket => x.known = x.market,
           x.conflict => ~Intact(x)
    PROVE  /\ Stampable(Reviewed(x, k), k)
           /\ Reviewed(x, k).phase = "sending" => x.phase = "sending"
           /\ x.resolved => Reviewed(x, k).resolved
           /\ Reviewed(x, k).known = x.known
           /\ Reviewed(x, k).conflict = x.conflict
           /\ Intact(x) /\ k = "snapshot" =>
                Intact(Reviewed(x, k)) /\ Reviewed(x, k).sources = x.sources
<1> USE SlotAssumption DEF Stampable, ConflictInv, AnswerInv, RecoveryInv, Slot,
          MaybeMarket, Phases, Flags, Intact, Settled, Named, Judgeable, Mismatch
<1>1. CASE Settled(x)
  <2>1. Reviewed(x, k) = [WithoutRecovery(x) EXCEPT !.resolved = TRUE]
    BY ONLY <1>1 DEF Reviewed
  <2>2. QED
    BY <1>1, <2>1, ZenonT(60) DEF WithoutRecovery
<1>2. CASE ~Settled(x) /\ x.phase = "sending"
  <2> DEFINE a == Intact(x) /\ (x.answered \/ k = "snapshot")
  <2>1. a \in BOOLEAN /\ (a => Intact(x))
    OBVIOUS
  <2>2. Reviewed(x, k) = [x EXCEPT !.answered = a]
    BY ONLY <1>2 DEF Reviewed
  <2> HIDE DEF a
  <2>3. QED
    BY <1>2, <2>1, <2>2
<1>3. CASE ~Settled(x) /\ x.phase = "none" /\ ~Intact(x)
  BY <1>3, ZenonT(60) DEF Reviewed, WithRecovery
<1>4. CASE ~Settled(x) /\ x.phase \notin {"none", "sending"} /\ Repairs(x, k)
  BY <1>4, ZenonT(60) DEF Reviewed, WithoutRecovery, Repairs
<1>5. CASE ~Settled(x) /\ x.phase = "grace" /\ ~Repairs(x, k)
           /\ ~(x.snap /\ x.flags \subseteq {"crossed"})
  BY <1>5, ZenonT(60) DEF Reviewed, Reset, Repairs
<1>6. CASE /\ ~Settled(x) /\ x.phase # "sending"
           /\ ~(x.phase = "none" /\ ~Intact(x))
           /\ ~(x.phase \notin {"none", "sending"} /\ Repairs(x, k))
           /\ ~(x.phase = "grace" /\ ~Repairs(x, k) /\ ~(x.snap /\ x.flags \subseteq {"crossed"}))
  <2>1. Reviewed(x, k) = x
    BY <1>6 DEF Reviewed
  <2>2. QED
    BY <1>6, <2>1
<1>7. QED
  BY <1>1, <1>2, <1>3, <1>4, <1>5, <1>6

(***************************************************************************)
(* The verdict of _ingest on an instrument, from any judgeable slot.  A    *)
(* conflict ends only with an intact snapshot that names the market.       *)
(***************************************************************************)
LEMMA JudgedInv ==
    ASSUME NEW x, NEW k, NEW m \in MaybeMarket, Judgeable(x, k)
    PROVE  /\ SlotInv(Judged(x, k, m))
           /\ Judged(x, k, m).phase = "sending" => x.phase = "sending"
           /\ x.resolved => Judged(x, k, m).resolved
           /\ x.known # NoMarket => Judged(x, k, m).known = x.known
           /\ x.conflict /\ ~Judged(x, k, m).conflict =>
                /\ k = "snapshot" /\ m = x.known
                /\ Intact(Judged(x, k, m)) /\ Judged(x, k, m).sources = x.sources
<1>1. CASE Mismatch(x)
  BY <1>1, ConflictedInv DEF Judged, Conflicted, WithRecovery, Reset, Judgeable, Slot, Mismatch
<1>2. CASE ~Mismatch(x)
  <2> DEFINE y == Established(x)
             z == Verified(y, k)
  <2>1. /\ Judgeable(y, k) /\ ~Mismatch(y)
        /\ y.market # NoMarket => y.known = y.market
        /\ y.known = x.known \/ x.known = NoMarket
        /\ y.phase = x.phase /\ y.resolved = x.resolved /\ y.conflict = x.conflict
        /\ Intact(y) <=> Intact(x)
        /\ y.sources = x.sources
    BY <1>2, SlotAssumption DEF Judgeable, Slot, MaybeMarket, Mismatch, Established, Intact
  <2> HIDE DEF y
  <2>2. CASE Unverified(y, k, m)
    <3>1. Judged(x, k, m) = Reset(y)
      BY <1>2, <2>2 DEF Judged, y
    <3>2. y.conflict
      BY <2>2 DEF Unverified
    <3>3. SlotInv(Reset(y))
      BY <2>1, <3>2, SlotAssumption DEF Judgeable, Slot, SlotInv, LadderInv, ConflictInv,
         AnswerInv, RecoveryInv, Reset, Intact, Settled, Named, MaybeMarket, Flags
    <3>4. QED
      BY <2>1, <3>1, <3>2, <3>3 DEF Reset, Judgeable, Slot
  <2>3. CASE ~Unverified(y, k, m)
    <3>1. Judged(x, k, m) = Stamped(Reviewed(z, k), k)
      BY <1>2, <2>3 DEF Judged, y
    <3>2. /\ Judgeable(z, k) /\ ~Mismatch(z)
          /\ z.market = y.market /\ z.known = y.known
          /\ z.phase = y.phase /\ z.resolved = y.resolved
          /\ z.conflict <=> y.conflict /\ ~(Intact(y) /\ k = "snapshot")
          /\ Intact(z) <=> Intact(y)
          /\ z.sources = y.sources
      BY <2>1 DEF Verified, Judgeable, Slot, Mismatch, Intact
    <3>3. y.conflict => k = "snapshot" /\ m = y.known
      BY <2>3 DEF Unverified
    <3> HIDE DEF z
    <3> DEFINE r == Stamped(Reviewed(z, k), k)
    <3>4. /\ SlotInv(r)
          /\ r.phase = "sending" => z.phase = "sending"
          /\ z.resolved => r.resolved
          /\ r.known = z.known /\ r.conflict = z.conflict
          /\ Intact(z) /\ k = "snapshot" => Intact(r) /\ r.sources = z.sources
      <4>1. z.market # NoMarket => z.known = z.market
        BY <2>1, <3>2
      <4>2. z.conflict => ~Intact(z)
        BY <3>2, <3>3
      <4>3. QED
        BY <3>2, <4>1, <4>2, ReviewedInv, StampedInv
    <3> DEFINE j == Judged(x, k, m)
    <3>5. j = r
      BY <3>1
    <3> HIDE DEF r, j
    <3>6. /\ SlotInv(j)
          /\ j.phase = "sending" => x.phase = "sending"
          /\ x.resolved => j.resolved
          /\ x.known # NoMarket => j.known = x.known
      BY <2>1, <3>2, <3>4, <3>5
    <3>7. x.conflict /\ ~j.conflict =>
            k = "snapshot" /\ m = x.known /\ Intact(j) /\ j.sources = x.sources
      <4>1. x \in Slot /\ z \in Slot /\ (x.conflict => x.known # NoMarket)
        BY <3>2 DEF Judgeable
      <4>2. x.conflict \in BOOLEAN /\ z.conflict \in BOOLEAN
        BY <4>1 DEF Slot
      <4>3. QED
        BY <2>1, <3>2, <3>3, <3>4, <3>5, <4>1, <4>2
    <3>8. QED
      BY <3>6, <3>7 DEF j
  <2>4. QED
    BY <2>2, <2>3
<1>3. QED
  BY <1>1, <1>2

-----------------------------------------------------------------------------
\* Nothing of a connection is held for the instrument.
Empty(x) == ~x.snap /\ ~x.updated /\ x.phase = "none"

ShardInv ==
    /\ conn = "connected" => session = "loop" /\ ~restart /\ ~closed
    /\ session = "loop" /\ ~closed /\ ~restart => conn = "connected"
    /\ recoverer # "none" \/ prober # "none" => session \in {"loop", "teardown"}
    /\ session \in {"new", "ready", "teardown", "ended"} => restart
    /\ session \in {"connect", "subscribe"} /\ ~closed => ~restart
    /\ closed => restart
    /\ session \in {"connect", "subscribe", "loop", "teardown"} => generation > 0
    /\ conn # "connected" => stale
    /\ \A i \in Instruments :
         /\ conn # "connected" => Empty(slot[i])
         /\ slot[i].phase = "sending" => recoverer = "sending"

\* The inductive invariant.
IInv == TypeOK /\ ShardInv /\ \A i \in Instruments : SlotInv(slot[i])

-----------------------------------------------------------------------------
\* What a frame does to a sound slot, whatever the frame says.
LEMMA IngestedInv ==
    ASSUME NEW x, SlotInv(x), NEW k \in FrameKinds, NEW m \in MaybeMarket,
           NEW raised \in SUBSET {"crossed", "broken"},
           NEW y, y = Ingested(x, k, m, raised)
    PROVE  /\ SlotInv(y)
           /\ y.phase = "sending" => x.phase = "sending"
           /\ x.resolved => y.resolved
           /\ x.known # NoMarket => y.known = x.known
           /\ x.conflict /\ ~y.conflict => Intact(y) /\ y.sources = {x.known}
<1> DEFINE l == Listed(x, k, m)
           a == Applied(l, k, m, raised)
<1>1. /\ SlotInv(l)
      /\ l.known = x.known /\ l.resolved = x.resolved /\ l.phase = x.phase
      /\ l.conflict = x.conflict
  BY ListedInv DEF Listed, SlotInv, Slot
<1> HIDE DEF l
<1>2. /\ Judgeable(a, k)
      /\ a.known = x.known /\ a.resolved = x.resolved /\ a.phase = x.phase
  BY <1>1, AppliedJudgeable
<1>3. a.conflict = x.conflict /\ (k = "snapshot" => a.sources = Named(m))
  BY <1>1 DEF Applied, SlotInv, Slot, FrameKinds
<1> HIDE DEF a
<1>4. y = Judged(a, k, m)
  BY DEF Ingested, a, l
<1>5. /\ SlotInv(y)
      /\ y.phase = "sending" => a.phase = "sending"
      /\ a.resolved => y.resolved
      /\ a.known # NoMarket => y.known = a.known
      /\ a.conflict /\ ~y.conflict =>
           k = "snapshot" /\ m = a.known /\ Intact(y) /\ y.sources = a.sources
  BY <1>2, <1>4, JudgedInv
<1>6. x.conflict /\ ~y.conflict => Intact(y) /\ y.sources = {x.known}
  <2>1. x.conflict => x.known # NoMarket
    BY DEF SlotInv, ConflictInv
  <2>2. x.conflict => a.conflict
    BY <1>3
  <2>3. QED
    BY <1>2, <1>3, <1>5, <2>1, <2>2 DEF Named
<1>7. QED
  BY <1>2, <1>5, <1>6

\* A recorded resolution keeps the slot sound.
LEMMA ResolvedByInv ==
    ASSUME NEW x, SlotInv(x), NEW i, NEW on, NEW m,
           NEW y, y = ResolvedBy(x, i, on, m)
    PROVE  /\ SlotInv(y)
           /\ y.phase = "sending" => x.phase = "sending"
           /\ x.resolved => y.resolved
           /\ y.known = x.known /\ y.conflict = x.conflict
<1>1. CASE y = x
  BY <1>1
<1>2. CASE y = [WithoutRecovery(x) EXCEPT !.resolved = TRUE]
  BY <1>2, SlotAssumption, ZenonT(60) DEF WithoutRecovery, SlotInv, LadderInv, ConflictInv, AnswerInv,
     RecoveryInv, Slot, MaybeMarket, Phases, Flags, Intact, Settled, Named
<1>3. QED
  BY <1>1, <1>2 DEF ResolvedBy

-----------------------------------------------------------------------------
\* Before start() the shard is sound.
LEMMA InitInv == Init => IInv
<1> SUFFICES ASSUME Init PROVE IInv
  OBVIOUS
<1>1. \A i \in Instruments : slot[i] = EmptySlot
  BY DEF Init
<1>2. EmptySlot \in Slot /\ Empty(EmptySlot)
  BY EmptyInv DEF SlotInv, EmptySlot, Empty
<1>3. TypeOK
  BY <1>2 DEF Init, TypeOK
<1>4. ShardInv
  BY <1>1, <1>2 DEF Init, ShardInv, EmptySlot
<1>5. QED
  BY <1>1, <1>3, <1>4, EmptyInv DEF IInv

\* _invalidate empties every slot, and keeps them sound.
LEMMA InvalidateInv ==
    ASSUME IInv, Invalidate
    PROVE  /\ slot' \in [Instruments -> Slot]
           /\ \A i \in Instruments : SlotInv(slot'[i]) /\ Empty(slot'[i])
<1>1. \A i \in Instruments : slot'[i] = Cleared(slot[i])
  BY DEF Invalidate
<1>2. \A i \in Instruments : SlotInv(Cleared(slot[i])) /\ Empty(Cleared(slot[i]))
  BY ClearedInv DEF IInv, Empty
<1>3. \A i \in Instruments : Cleared(slot[i]) \in Slot
  BY <1>2 DEF SlotInv
<1>4. QED
  BY <1>1, <1>2, <1>3 DEF Invalidate

\* Whatever invalidates the shard, and leaves the tasks consistent, keeps it sound.
LEMMA DropInv ==
    ASSUME IInv, Invalidate,
           session' \in {"new", "ready", "connect", "subscribe", "loop", "teardown", "ended"},
           recoverer' \in {"none", "idle", "sending"}, prober' \in {"none", "sleep", "await"},
           closed' \in BOOLEAN, generation' = generation,
           recoverer' # "none" \/ prober' # "none" => session' \in {"loop", "teardown"},
           session' \in {"connect", "subscribe"} => closed',
           session' \in {"connect", "subscribe", "loop", "teardown"} => generation > 0
    PROVE  IInv'
<1>1. /\ slot' \in [Instruments -> Slot]
      /\ \A i \in Instruments : SlotInv(slot'[i]) /\ Empty(slot'[i])
  BY InvalidateInv
<1>2. TypeOK'
  BY <1>1 DEF IInv, TypeOK, Invalidate
<1>3. ShardInv'
  BY <1>1 DEF IInv, ShardInv, Invalidate, Empty
<1>4. QED
  BY <1>1, <1>2, <1>3 DEF IInv

\* The checks of a live connection keep every slot sound.
LEMMA CheckedSlotsInv ==
    ASSUME IInv
    PROVE  \A i \in Instruments :
              /\ SlotInv(CheckedSlots[i])
              /\ CheckedSlots[i].phase = "sending" => recoverer = "sending"
<1>1. \A i \in Instruments : CheckedSlots[i] = Checked(slot[i], late)
  BY DEF CheckedSlots
<1>2. QED
  BY <1>1, CheckedInv DEF IInv, ShardInv

(***************************************************************************)
(* A frame is only received on a live connection; when every slot stays    *)
(* sound and starts no send, so does the shard.                            *)
(***************************************************************************)
LEMMA ReceiveInv ==
    ASSUME IInv, Receive, acked' \in BOOLEAN, cursor' \in Nat,
           NEW f, slot' = [i \in Instruments |-> f[i]],
           \A i \in Instruments :
              SlotInv(f[i]) /\ (f[i].phase = "sending" => recoverer = "sending")
    PROVE  IInv'
<1>1. conn = "connected" /\ stale' \in BOOLEAN
  BY DEF IInv, ShardInv, Receive, LivenessKept
<1>2. \A i \in Instruments : f[i] \in Slot
  BY DEF SlotInv
<1>3. TypeOK'
  BY <1>1, <1>2 DEF IInv, TypeOK, Receive, tasks
<1>4. ShardInv'
  BY <1>1 DEF IInv, ShardInv, Receive, tasks
<1>5. QED
  BY <1>3, <1>4 DEF IInv

\* The frames of an instrument, named by the set of instruments they are about.
LEMMA FrameInv ==
    ASSUME IInv, NEW i \in Instruments, NEW k \in FrameKinds, NEW m \in MaybeMarket,
           NEW raised \in SUBSET {"crossed", "broken"}
    PROVE  /\ SlotInv(Ingested(CheckedSlots[i], k, m, raised))
           /\ Ingested(CheckedSlots[i], k, m, raised).phase = "sending" => recoverer = "sending"
BY CheckedSlotsInv, IngestedInv

LEMMA SequenceType ==
    ASSUME IInv, InSequence
    PROVE  cursor' \in Nat
BY FeedAssumption DEF IInv, TypeOK, InSequence

\* Every frame keeps the invariant.
LEMMA IngestInv == IInv /\ Ingest => IInv'
<1> SUFFICES ASSUME IInv, Ingest PROVE IInv'
  OBVIOUS
<1> USE FeedAssumption
<1>1. ASSUME Ack PROVE IInv'
  <2>1. slot' = [i \in Instruments |-> CheckedSlots[i]]
    BY <1>1 DEF Ack, CheckedSlots
  <2>2. QED
    BY <1>1, <2>1, CheckedSlotsInv, ReceiveInv DEF Ack, IInv, TypeOK
<1>2. ASSUME NEW j \in Instruments, NEW m \in FrameMarkets,
             NEW raised \in SUBSET {"crossed", "broken"}, SnapshotFrame(j, m, raised)
      PROVE  IInv'
  <2> DEFINE f == [i \in Instruments |->
                     IF i = j THEN Ingested(CheckedSlots[i], "snapshot", m, raised)
                              ELSE CheckedSlots[i]]
  <2>1. slot' = [i \in Instruments |-> f[i]]
    BY <1>2 DEF SnapshotFrame, CheckedSlots
  <2>2. \A i \in Instruments :
           SlotInv(f[i]) /\ (f[i].phase = "sending" => recoverer = "sending")
    BY CheckedSlotsInv, FrameInv DEF FrameKinds
  <2> HIDE DEF f
  <2>3. QED
    BY <1>2, <2>1, <2>2, ReceiveInv, SequenceType DEF SnapshotFrame, IInv, TypeOK
<1>3. ASSUME NEW on \in SUBSET Instruments, NEW m \in FrameMarkets,
             NEW raised \in [on -> SUBSET {"crossed", "broken"}], DeltaFrame(on, m, raised)
      PROVE  IInv'
  <2> DEFINE f == [i \in Instruments |->
                     IF i \in on THEN Ingested(CheckedSlots[i], "delta", m, raised[i])
                                 ELSE CheckedSlots[i]]
  <2>1. slot' = [i \in Instruments |-> f[i]]
    BY <1>3 DEF DeltaFrame
  <2>2. \A i \in Instruments :
           SlotInv(f[i]) /\ (f[i].phase = "sending" => recoverer = "sending")
    BY CheckedSlotsInv, FrameInv DEF FrameKinds
  <2> HIDE DEF f
  <2>3. QED
    BY <1>3, <2>1, <2>2, ReceiveInv, SequenceType DEF DeltaFrame, IInv, TypeOK
<1>4. ASSUME NEW j \in Instruments, NEW m \in FrameMarkets, TickSizeFrame(j, m)
      PROVE  IInv'
  <2> DEFINE bumped == Bumped(CheckedSlots[j])
             f == [i \in Instruments |->
                     IF i = j THEN Ingested(bumped, "tick_size_change", m, {})
                              ELSE CheckedSlots[i]]
  <2>1. slot' = [i \in Instruments |-> f[i]]
    BY <1>4 DEF TickSizeFrame, CheckedSlots
  <2>2. SlotInv(bumped) /\ (bumped.phase = "sending" => recoverer = "sending")
    BY CheckedSlotsInv DEF Bumped, SlotInv, Slot, LadderInv, ConflictInv, AnswerInv,
       RecoveryInv, Intact, Settled
  <2> HIDE DEF bumped
  <2>3. \A i \in Instruments :
           SlotInv(f[i]) /\ (f[i].phase = "sending" => recoverer = "sending")
    BY <2>2, CheckedSlotsInv, IngestedInv DEF FrameKinds
  <2> HIDE DEF f
  <2>4. QED
    BY <1>4, <2>1, <2>3, ReceiveInv DEF TickSizeFrame, IInv, TypeOK
<1>5. ASSUME NEW k \in {"new_market", "market_resolved"}, NEW on \in SUBSET Instruments,
             NEW m \in FrameMarkets, LifecycleFrame(k, on, m)
      PROVE  IInv'
  <2> DEFINE x(i) == IF k = "market_resolved"
                     THEN ResolvedBy(CheckedSlots[i], i, on, m)
                     ELSE CheckedSlots[i]
             f == [i \in Instruments |->
                     IF i \in on \/ (m # NoMarket /\ x(i).listed = m)
                     THEN Ingested(x(i), k, m, {}) ELSE x(i)]
  <2>1. slot' = [i \in Instruments |-> f[i]]
    BY <1>5 DEF LifecycleFrame
  <2>2. \A i \in Instruments :
           SlotInv(x(i)) /\ (x(i).phase = "sending" => recoverer = "sending")
    BY CheckedSlotsInv, ResolvedByInv
  <2> HIDE DEF x
  <2>3. \A i \in Instruments :
           SlotInv(f[i]) /\ (f[i].phase = "sending" => recoverer = "sending")
    BY <2>2, IngestedInv DEF FrameKinds
  <2> HIDE DEF f
  <2>4. QED
    BY <1>5, <2>1, <2>3, ReceiveInv DEF LifecycleFrame, IInv, TypeOK
<1>6. QED
  BY <1>1, <1>2, <1>3, <1>4, <1>5 DEF Ingest

-----------------------------------------------------------------------------
\* Every step of the session and of close keeps the invariant.
LEMMA SessionInv == IInv /\ Session => IInv'
<1> SUFFICES ASSUME IInv, Session PROVE IInv'
  OBVIOUS
<1>1. CASE Start \/ StayClosed
  BY <1>1 DEF Start, StayClosed, wire, IInv, TypeOK, ShardInv
<1>2. CASE OpenSession
  <2> DEFINE f == [i \in Instruments |-> [slot[i] EXCEPT !.rev = 0]]
  <2>1. slot' = f
    BY <1>2 DEF OpenSession
  <2>2. \A i \in Instruments : SlotInv(f[i]) /\ f[i].phase = slot[i].phase
                                 /\ (Empty(f[i]) <=> Empty(slot[i]))
    BY DEF IInv, SlotInv, Slot, LadderInv, ConflictInv, AnswerInv, RecoveryInv,
       Intact, Settled, Empty
  <2>3. f \in [Instruments -> Slot]
    BY <2>2 DEF SlotInv
  <2> HIDE DEF f
  <2>4. QED
    <3>1. TypeOK'
      <4>1. /\ session' = "connect" /\ generation' = generation + 1 /\ conn' = "connecting"
            /\ restart' = FALSE /\ acked' = FALSE
            /\ UNCHANGED <<closed, recoverer, prober, link, stale, silent, late, cursor>>
        BY <1>2 DEF OpenSession
      <4>2. QED
        <5>1. slot' \in [Instruments -> Slot] /\ generation' \in Nat
          BY <2>1, <2>3, <4>1 DEF IInv, TypeOK
        <5>2. QED
          BY <4>1, <5>1 DEF IInv, TypeOK
    <3>2. ShardInv'
      <4>1. \A i \in Instruments : slot'[i].phase = slot[i].phase
                                      /\ (Empty(slot[i]) => Empty(slot'[i]))
        BY <2>1, <2>2
      <4>2. conn' = "connecting" /\ conn # "connected" /\ session = "ready" /\ ~closed
        BY <1>2 DEF OpenSession, IInv, ShardInv
      <4>3. \A i \in Instruments : Empty(slot'[i]) /\ slot'[i].phase # "sending"
        BY <4>1, <4>2 DEF IInv, ShardInv, Empty
      <4>4. QED
        BY <1>2, <4>2, <4>3 DEF OpenSession, IInv, TypeOK, ShardInv
    <3>3. QED
      BY <2>1, <2>2, <3>1, <3>2 DEF IInv
<1>3. CASE Connected \/ Subscribed
  <2>1. CASE GoLive /\ session \in {"connect", "subscribe"} /\ ~closed
    <3>1. TypeOK'
      BY <2>1 DEF GoLive, IInv, TypeOK
    <3>2. ShardInv'
      BY <2>1 DEF GoLive, IInv, TypeOK, ShardInv
    <3>3. QED
      BY <2>1, <3>1, <3>2 DEF GoLive, IInv
  <2>2. CASE Connected /\ session' = "subscribe"
    BY <2>2 DEF Connected, GoLive, wire, IInv, TypeOK, ShardInv
  <2>3. QED
    BY <1>3, <2>1, <2>2 DEF Connected, Subscribed
<1>4. CASE ConnectFails \/ Cancelled \/ LoopStops \/ StreamFails
  <2>1. Abort /\ session \in {"connect", "subscribe", "loop"}
    BY <1>4 DEF ConnectFails, Cancelled, LoopStops, StreamFails
  <2>2. QED
    BY <2>1, DropInv DEF Abort, IInv, TypeOK, ShardInv
<1>5. CASE TearDown
  <2>1. TypeOK'
    BY <1>5 DEF TearDown, IInv, TypeOK
  <2>2. ShardInv'
    <3>1. /\ session = "teardown" /\ session' \in {"ended", "ready"}
          /\ recoverer' = "none" /\ prober' = "none"
          /\ UNCHANGED <<closed, generation, conn, restart, stale, slot>>
      BY <1>5 DEF TearDown
    <3>2. conn # "connected" /\ restart /\ \A i \in Instruments : slot[i].phase # "sending"
      BY <3>1 DEF IInv, ShardInv, Empty
    <3>3. QED
      BY <3>1, <3>2 DEF IInv, ShardInv
  <2>3. QED
    BY <1>5, <2>1, <2>2 DEF TearDown, IInv
<1>6. CASE Close
  BY <1>6, DropInv DEF Close, tasks, IInv, TypeOK, ShardInv
<1>7. QED
  BY <1>1, <1>2, <1>3, <1>4, <1>5, <1>6 DEF Session

\* Reads keep the invariant: the checks they run may only take a book away.
LEMMA ObserveInv == IInv /\ Observe => IInv'
<1> SUFFICES ASSUME IInv, Observe PROVE IInv'
  OBVIOUS
<1>1. CASE Invalidate
  BY <1>1, DropInv DEF Observe, tasks, IInv, TypeOK, ShardInv
<1>2. CASE ~Invalidate
  <2>1. /\ conn = "connected" /\ LivenessKept
        /\ slot' = CheckedSlots
        /\ UNCHANGED <<conn, restart, link, silent, late, acked, cursor>>
        /\ UNCHANGED <<closed, tasks, generation>>
    BY <1>2 DEF Observe, IInv, ShardInv
  <2>2. CheckedSlots \in [Instruments -> Slot]
    BY CheckedSlotsInv DEF CheckedSlots, SlotInv
  <2>3. TypeOK'
    BY <2>1, <2>2 DEF IInv, TypeOK, tasks, LivenessKept
  <2>4. ShardInv'
    BY <2>1, CheckedSlotsInv DEF IInv, ShardInv, tasks
  <2>5. QED
    BY <2>1, <2>3, <2>4, CheckedSlotsInv DEF IInv
<1>3. QED
  BY <1>1, <1>2

\* A pass of the recovery loop and the end of a send keep the invariant.
LEMMA RecoverInv == IInv /\ (RecoverPass \/ RecoverSent) => IInv'
<1> SUFFICES ASSUME IInv, RecoverPass \/ RecoverSent PROVE IInv'
  OBVIOUS
<1>1. CASE RecoverPass
  <2>1. conn = "connected"
    BY <1>1 DEF RecoverPass, IInv, ShardInv
  <2> DEFINE f == [i \in Instruments |-> Requested(CheckedSlots[i])]
  <2>2. \A i \in Instruments : SlotInv(f[i])
    BY CheckedSlotsInv, RequestedInv
  <2>3. f \in [Instruments -> Slot] /\ CheckedSlots \in [Instruments -> Slot]
    BY <2>2, CheckedSlotsInv DEF CheckedSlots, SlotInv
  <2>4. \/ slot' = f /\ recoverer' = "sending"
        \/ slot' = CheckedSlots /\ recoverer' = recoverer
    BY <1>1, <2>1 DEF RecoverPass
  <2> HIDE DEF f
  <2>5. UNCHANGED <<closed, session, prober, generation, conn, restart, link, stale,
                    silent, late, acked, cursor>> /\ recoverer = "idle"
    BY <1>1 DEF RecoverPass, wire
  <2>6. QED
    BY <2>1, <2>2, <2>3, <2>4, <2>5, CheckedSlotsInv DEF IInv, TypeOK, ShardInv
<1>2. CASE RecoverSent
  <2> DEFINE f == [i \in Instruments |-> Confirmed(slot[i])]
  <2>1. slot' = f
    BY <1>2 DEF RecoverSent
  <2>2. \A i \in Instruments :
           /\ SlotInv(f[i]) /\ f[i].phase # "sending"
           /\ Empty(slot[i]) => Empty(f[i])
    BY ConfirmedInv DEF IInv, Confirmed, Empty
  <2>3. f \in [Instruments -> Slot]
    BY <2>2 DEF SlotInv
  <2> HIDE DEF f
  <2>4. QED
    BY <1>2, <2>1, <2>2, <2>3 DEF RecoverSent, wire, IInv, TypeOK, ShardInv
<1>3. QED
  BY <1>1, <1>2

\* So do the failures of a request, and the probe.
LEMMA TasksInv == IInv /\ Tasks => IInv'
<1> SUFFICES ASSUME IInv, Tasks PROVE IInv'
  OBVIOUS
<1>1. CASE RecoverFails
  BY <1>1, DropInv DEF RecoverFails, IInv, TypeOK, ShardInv
<1>2. CASE RecoverStops \/ ProbeSend
  BY <1>2 DEF RecoverStops, ProbeSend, wire, IInv, TypeOK, ShardInv
<1>3. CASE (ProbeAnswered \/ ProbeFails) /\ Invalidate
  BY <1>3, DropInv DEF ProbeAnswered, ProbeFails, IInv, TypeOK, ShardInv
<1>4. CASE (ProbeAnswered \/ ProbeFails) /\ ~Invalidate
  <2>1. UNCHANGED <<closed, session, recoverer, generation, conn, restart, link,
                    silent, late, acked, cursor, slot>>
        /\ prober' \in {"none", "sleep"} /\ prober = "await"
        /\ stale' \in BOOLEAN /\ (stale' # stale => conn = "connected")
    <3>1. CASE ProbeAnswered
      BY <1>4, <3>1 DEF ProbeAnswered, wire, IInv, TypeOK
    <3>2. CASE ProbeFails
      BY <1>4, <3>2 DEF ProbeFails, wire, IInv, TypeOK
    <3>3. QED
      BY <1>4, <3>1, <3>2
  <2>2. TypeOK'
    BY <2>1 DEF IInv, TypeOK
  <2>3. ShardInv'
    BY <2>1 DEF IInv, TypeOK, ShardInv
  <2>4. QED
    BY <2>1, <2>2, <2>3 DEF IInv
<1>5. QED
  BY <1>1, <1>2, <1>3, <1>4, RecoverInv DEF Tasks

\* So do the network and time.
LEMMA EnvironmentInv == IInv /\ Environment => IInv'
<1> SUFFICES ASSUME IInv, Environment PROVE IInv'
  OBVIOUS
<1>1. CASE LinkDrops \/ EvidenceAges \/ InboundArrives \/ SnapshotTimeout
  <2>1. UNCHANGED <<closed, session, recoverer, prober, generation, conn, restart,
                    acked, cursor, slot>>
        /\ conn = "connected" /\ link' \in BOOLEAN /\ stale' \in BOOLEAN
        /\ silent' \in BOOLEAN /\ late' \in BOOLEAN
    BY <1>1 DEF LinkDrops, EvidenceAges, InboundArrives, SnapshotTimeout, tasks, IInv, TypeOK
  <2>2. TypeOK'
    BY <2>1 DEF IInv, TypeOK
  <2>3. ShardInv'
    BY <2>1 DEF IInv, TypeOK, ShardInv
  <2>4. QED
    BY <2>1, <2>2, <2>3 DEF IInv
<1>2. ASSUME NEW j \in Instruments, DeadlinePasses(j)
      PROVE  IInv'
  <2> DEFINE d == [slot[j] EXCEPT !.due = TRUE]
  <2>1. slot' = [slot EXCEPT ![j] = d]
    BY <1>2 DEF DeadlinePasses
  <2>2. SlotInv(d) /\ d.phase = slot[j].phase /\ (Empty(d) <=> Empty(slot[j])) /\ d \in Slot
    BY DEF IInv, SlotInv, Slot, LadderInv, ConflictInv, AnswerInv, RecoveryInv,
       Intact, Settled, Empty
  <2> HIDE DEF d
  <2>3. QED
    <3>1. TypeOK'
      <4>1. UNCHANGED <<closed, session, recoverer, prober, generation, conn, restart, link,
                        stale, silent, late, acked, cursor>>
        BY <1>2 DEF DeadlinePasses, tasks, wire
      <4>2. QED
        BY <2>1, <2>2, <4>1 DEF IInv, TypeOK
    <3>2. ShardInv'
      BY <1>2, <2>1, <2>2 DEF DeadlinePasses, tasks, wire, IInv, TypeOK, ShardInv
    <3>3. QED
      BY <2>1, <2>2, <3>1, <3>2 DEF IInv, TypeOK
<1>3. QED
  BY <1>1, <1>2 DEF Environment

-----------------------------------------------------------------------------
\* The invariant is inductive.
THEOREM Invariance == Spec => []IInv
<1>1. Init => IInv
  BY InitInv
<1>2. IInv /\ [Next]_vars => IInv'
  <2> SUFFICES ASSUME IInv, [Next]_vars PROVE IInv'
    OBVIOUS
  <2>1. CASE Next
    <3>1. CASE Finished
      BY <3>1 DEF Finished, vars, IInv, TypeOK, ShardInv
    <3>2. QED
      BY <2>1, <3>1, SessionInv, IngestInv, ObserveInv, TasksInv, EnvironmentInv DEF Next
  <2>2. CASE UNCHANGED vars
    BY <2>2 DEF vars, IInv, TypeOK, ShardInv
  <2>3. QED
    BY <2>1, <2>2
<1>3. QED
  BY <1>1, <1>2, PTL DEF Spec

\* TypeOK holds in every state of the feed.
THEOREM TypeCorrect == Spec => []TypeOK
<1>1. IInv => TypeOK
  BY DEF IInv
<1>2. QED
  BY <1>1, Invariance, PTL

\* A served book is of the live connection, stamped, free of conflict and unmixed.
THEOREM ServedBooksAreCurrent == Spec => []ServedIsCurrent
<1>1. IInv => ServedIsCurrent
  <2> SUFFICES ASSUME IInv, NEW i \in Instruments, Served(i)
               PROVE  /\ session = "loop" /\ ~closed
                      /\ slot[i].updated /\ ~slot[i].conflict
                      /\ slot[i].sources \subseteq {slot[i].known}
    BY DEF ServedIsCurrent
  <2>1. SlotInv(slot[i])
    BY DEF IInv
  <2>2. SlotUsable(slot[i])
    BY <2>1, CheckedInv DEF Served
  <2>3. slot[i].updated /\ ~slot[i].conflict /\ slot[i].sources \subseteq {slot[i].known}
    BY <2>1, <2>2 DEF SlotInv, LadderInv, ConflictInv, SlotUsable, Intact, Named
  <2>4. QED
    BY <2>3 DEF Served, IInv, ShardInv
<1>2. QED
  BY <1>1, Invariance, PTL

\* A recovery is about to be retired only on depth that is intact now.
THEOREM AnswersAreIntact == Spec => []AnsweredIsIntact
<1>1. IInv => AnsweredIsIntact
  BY DEF IInv, AnsweredIsIntact, SlotInv, AnswerInv, ConflictInv
<1>2. QED
  BY <1>1, Invariance, PTL

\* A bad book on a live connection is always under recovery.
THEOREM BadBooksAreRecovering == Spec => []BadBookIsRecovering
<1>1. IInv => BadBookIsRecovering
  BY DEF IInv, BadBookIsRecovering, SlotInv, RecoveryInv
<1>2. QED
  BY <1>1, Invariance, PTL

\* No recovery is left for a resolved instrument.
THEOREM ResolvedAreAtRest == Spec => []ResolvedIsAtRest
<1>1. IInv => ResolvedIsAtRest
  BY DEF IInv, ResolvedIsAtRest, SlotInv, RecoveryInv
<1>2. QED
  BY <1>1, Invariance, PTL

\* No task outlives its connection, and only a running loop is reported connected.
THEOREM OwnedTasks == Spec => []TasksAreOwned
<1>1. IInv => TasksAreOwned
  BY DEF IInv, TasksAreOwned, ShardInv
<1>2. QED
  BY <1>1, Invariance, PTL

-----------------------------------------------------------------------------
(***************************************************************************)
(* What no step may do to the identity and the resolution of an            *)
(* instrument.                                                             *)
(***************************************************************************)
Follows(x, y) ==
    /\ x.resolved => y.resolved
    /\ x.known # NoMarket => y.known = x.known
    /\ x.conflict /\ ~y.conflict => Intact(y) /\ y.sources = {x.known}

\* Same identity and resolution.
Alike(x, y) == y.resolved = x.resolved /\ y.known = x.known /\ y.conflict = x.conflict

LEMMA AlikeOperators ==
    ASSUME NEW x, SlotInv(x)
    PROVE  /\ Alike(x, Cleared(x)) /\ Alike(x, Requested(x)) /\ Alike(x, Confirmed(x))
           /\ Alike(x, [x EXCEPT !.rev = 0]) /\ Alike(x, [x EXCEPT !.due = TRUE])
           /\ Alike(x, Bumped(x))
           /\ \A l \in BOOLEAN : Alike(x, Checked(x, l))
<1> USE DEF SlotInv, Slot, Alike
<1>1. Alike(x, Cleared(x)) /\ Alike(x, Requested(x)) /\ Alike(x, Confirmed(x))
  BY DEF Cleared, WithoutRecovery, Reset, Requested, Confirmed
<1>2. Alike(x, [x EXCEPT !.rev = 0]) /\ Alike(x, [x EXCEPT !.due = TRUE]) /\ Alike(x, Bumped(x))
  BY DEF Bumped
<1>3. ASSUME NEW l \in BOOLEAN PROVE Alike(x, Checked(x, l))
  <2> DEFINE y == Checked(x, l)
  <2>1. /\ Alike(x, WithRecovery(x, "pending"))
        /\ Alike(x, [Reset(x) EXCEPT !.phase = "pending"])
        /\ Alike(x, [Reset(x) EXCEPT !.phase = "cooldown", !.due = FALSE])
        /\ Alike(x, [x EXCEPT !.phase = "pending"])
        /\ Alike(x, x)
    BY DEF WithRecovery, Reset
  <2>2. \/ y = x
        \/ y = WithRecovery(x, "pending")
        \/ y = [Reset(x) EXCEPT !.phase = "pending"]
        \/ y = [Reset(x) EXCEPT !.phase = "cooldown", !.due = FALSE]
        \/ y = [x EXCEPT !.phase = "pending"]
    BY ONLY CheckedCases
  <2> HIDE DEF y
  <2>3. Alike(x, y)
    BY ONLY <2>1, <2>2
  <2>4. QED
    BY ONLY <2>3 DEF y
<1>4. QED
  BY <1>1, <1>2, <1>3

LEMMA IngestFollows ==
    ASSUME IInv, Ingest, NEW i \in Instruments
    PROVE  Follows(slot[i], slot'[i])
<1> USE FeedAssumption
<1> DEFINE c == CheckedSlots[i]
<1>1. SlotInv(c) /\ Alike(slot[i], c)
  BY CheckedSlotsInv, AlikeOperators DEF CheckedSlots, IInv, TypeOK
<1>2. ASSUME NEW x, SlotInv(x), Alike(slot[i], x) \/ (x.resolved /\ x.known = slot[i].known
                                                      /\ x.conflict = slot[i].conflict),
             NEW k \in FrameKinds, NEW m \in FrameMarkets,
             NEW raised \in SUBSET {"crossed", "broken"},
             slot'[i] = Ingested(x, k, m, raised) \/ slot'[i] = x
      PROVE  Follows(slot[i], slot'[i])
  <2>1. CASE slot'[i] = x
    BY <1>2, <2>1 DEF Follows, Alike
  <2>2. ASSUME NEW y, y = Ingested(x, k, m, raised), slot'[i] = y
        PROVE  Follows(slot[i], slot'[i])
    <3>1. m \in MaybeMarket
      OBVIOUS
    <3>2. /\ x.resolved => y.resolved
          /\ x.known # NoMarket => y.known = x.known
          /\ x.conflict /\ ~y.conflict => Intact(y) /\ y.sources = {x.known}
      BY ONLY <1>2, <2>2, <3>1, IngestedInv
    <3>3. x.known = slot[i].known /\ x.conflict = slot[i].conflict
          /\ (slot[i].resolved => x.resolved)
      BY ONLY <1>2 DEF Alike
    <3>4. slot[i].conflict /\ ~y.conflict => y.known = x.known
      BY ONLY <3>2, <3>3, <1>2, SlotAssumption DEF SlotInv, ConflictInv, Slot
    <3>5. QED
      BY ONLY <2>2, <3>2, <3>3, <3>4 DEF Follows
  <2>3. QED
    BY <1>2, <2>1, <2>2
<1> HIDE DEF c
<1>3. CASE Ack
  BY <1>1, <1>3 DEF Ack, c, Follows, Alike
<1>4. ASSUME NEW j \in Instruments, NEW m \in FrameMarkets,
             NEW raised \in SUBSET {"crossed", "broken"}, SnapshotFrame(j, m, raised)
      PROVE  Follows(slot[i], slot'[i])
  <2>1. slot'[i] = Ingested(c, "snapshot", m, raised) \/ slot'[i] = c
    BY <1>4 DEF SnapshotFrame, CheckedSlots, c
  <2>2. QED
    BY <1>1, <1>2, <2>1 DEF FrameKinds
<1>5. ASSUME NEW on \in SUBSET Instruments, NEW m \in FrameMarkets,
             NEW raised \in [on -> SUBSET {"crossed", "broken"}], DeltaFrame(on, m, raised)
      PROVE  Follows(slot[i], slot'[i])
  <2>1. slot'[i] = IF i \in on THEN Ingested(c, "delta", m, raised[i]) ELSE c
    BY <1>5 DEF DeltaFrame, c
  <2>2. CASE i \in on
    BY <1>1, <1>2, <2>1, <2>2 DEF FrameKinds
  <2>3. CASE i \notin on
    BY <1>1, <2>1, <2>3 DEF Follows, Alike
  <2>4. QED
    BY <2>2, <2>3
<1>6. ASSUME NEW j \in Instruments, NEW m \in FrameMarkets, TickSizeFrame(j, m)
      PROVE  Follows(slot[i], slot'[i])
  <2> DEFINE b == Bumped(c)
  <2>1. slot'[i] = Ingested(b, "tick_size_change", m, {}) \/ slot'[i] = c
    BY <1>6 DEF TickSizeFrame, CheckedSlots, c
  <2>2. SlotInv(b) /\ Alike(slot[i], b)
    BY <1>1 DEF Bumped, SlotInv, Slot, LadderInv, ConflictInv, AnswerInv, RecoveryInv,
       Intact, Settled, Alike
  <2> HIDE DEF b
  <2>3. QED
    BY <1>1, <1>2, <2>1, <2>2 DEF FrameKinds
<1>7. ASSUME NEW k \in {"new_market", "market_resolved"}, NEW on \in SUBSET Instruments,
             NEW m \in FrameMarkets, LifecycleFrame(k, on, m)
      PROVE  Follows(slot[i], slot'[i])
  <2> DEFINE x == IF k = "market_resolved" THEN ResolvedBy(c, i, on, m) ELSE c
  <2>1. slot'[i] = Ingested(x, k, m, {}) \/ slot'[i] = x
    BY <1>7 DEF LifecycleFrame, c
  <2>2. SlotInv(x)
    BY <1>1, ResolvedByInv
  <2>3. x = c \/ (x.resolved /\ x.known = c.known /\ x.conflict = c.conflict)
    BY <1>1 DEF ResolvedBy, WithoutRecovery, SlotInv, Slot
  <2> HIDE DEF x
  <2>4. QED
    BY <1>1, <1>2, <2>1, <2>2, <2>3 DEF FrameKinds, Alike
<1>8. QED
  BY <1>3, <1>4, <1>5, <1>6, <1>7 DEF Ingest

\* Every step of the feed respects identity and resolution.
LEMMA StepFollows ==
    ASSUME IInv, [Next]_vars, NEW i \in Instruments
    PROVE  Follows(slot[i], slot'[i])
<1>1. SlotInv(slot[i]) /\ SlotInv(CheckedSlots[i]) /\ Alike(slot[i], CheckedSlots[i])
  BY CheckedSlotsInv, AlikeOperators DEF CheckedSlots, IInv, TypeOK
<1>2. Alike(slot[i], slot'[i]) => Follows(slot[i], slot'[i])
  BY DEF Alike, Follows
<1>3. CASE Invalidate
  BY <1>1, <1>2, <1>3, AlikeOperators DEF Invalidate
<1>4. CASE slot' = slot \/ slot' = CheckedSlots
  BY <1>1, <1>2, <1>4 DEF Alike
<1>5. CASE OpenSession
  BY <1>1, <1>2, <1>5, AlikeOperators DEF OpenSession
<1>6. CASE RecoverPass
  <2>1. \/ slot'[i] = Requested(CheckedSlots[i]) \/ slot'[i] = Requested(slot[i])
        \/ slot'[i] = CheckedSlots[i] \/ slot'[i] = slot[i]
    BY <1>6 DEF RecoverPass
  <2>2. Alike(slot[i], Requested(CheckedSlots[i])) /\ Alike(slot[i], Requested(slot[i]))
    BY <1>1, AlikeOperators DEF Alike
  <2>3. QED
    BY <1>1, <1>2, <2>1, <2>2 DEF Alike
<1>7. CASE RecoverSent
  BY <1>1, <1>2, <1>7, AlikeOperators DEF RecoverSent
<1>8. ASSUME NEW j \in Instruments, DeadlinePasses(j)
      PROVE  Follows(slot[i], slot'[i])
  <2>1. slot'[i] = slot[i] \/ slot'[i] = [slot[i] EXCEPT !.due = TRUE]
    BY <1>8 DEF DeadlinePasses, IInv, TypeOK
  <2>2. QED
    BY <1>1, <1>2, <2>1, AlikeOperators, ZenonT(60) DEF Alike
<1>9. CASE Ingest
  BY <1>9, IngestFollows
<1>10. QED
  <2>1. CASE Session
    BY <1>3, <1>4, <1>5, <2>1 DEF Session, Start, Connected, Subscribed, GoLive, ConnectFails,
       Cancelled, LoopStops, StreamFails, Abort, TearDown, StayClosed, Close
  <2>2. CASE Observe
    BY <1>3, <1>4, <2>2 DEF Observe
  <2>3. CASE Tasks
    BY <1>3, <1>4, <1>6, <1>7, <2>3 DEF Tasks, RecoverFails, RecoverStops, ProbeSend,
       ProbeAnswered, ProbeFails
  <2>4. CASE Environment
    BY <1>4, <1>8, <2>4 DEF Environment, LinkDrops, EvidenceAges, InboundArrives, SnapshotTimeout
  <2>5. QED
    BY <1>4, <1>9, <2>1, <2>2, <2>3, <2>4 DEF Next, Finished, vars

\* A conflict ends only with an intact ladder of the established market.
THEOREM ConflictsNeedProof == Spec => ConflictNeedsProof
<1>1. IInv /\ [Next]_vars =>
        [\A i \in Instruments :
           /\ slot[i].conflict /\ ~slot'[i].conflict =>
                Intact(slot'[i]) /\ slot'[i].sources = {slot[i].known}
           /\ slot[i].known # NoMarket => slot'[i].known = slot[i].known]_vars
  BY StepFollows DEF Follows
<1>2. QED
  BY <1>1, Invariance, PTL DEF Spec, ConflictNeedsProof

-----------------------------------------------------------------------------
(***************************************************************************)
(* What no step may do to evidence, to revisions and to depth.             *)
(***************************************************************************)
\* Expired evidence of liveness is only replaced by a new connection's.
THEOREM StallsAreLatched == Spec => StallIsLatched
<1>1. [Next]_vars => [stale /\ ~stale' => session # "loop" /\ session' = "loop"]_vars
  <2> SUFFICES ASSUME Next, stale, ~stale'
               PROVE  session # "loop" /\ session' = "loop"
    BY DEF vars
  <2>1. CASE Session
    BY <2>1 DEF Session, Start, OpenSession, Connected, Subscribed, GoLive, ConnectFails,
       Cancelled, LoopStops, StreamFails, Abort, Invalidate, TearDown, StayClosed, Close, wire
  <2>2. ~Receive
    BY DEF Receive, LivenessKept, LivenessLost
  <2>3. CASE Observe
    BY <2>3 DEF Observe, Invalidate, LivenessKept, LivenessLost
  <2>4. CASE Tasks
    BY <2>4 DEF Tasks, RecoverPass, RecoverSent, RecoverFails, RecoverStops, ProbeSend,
       ProbeAnswered, ProbeFails, Invalidate, LivenessLost, wire
  <2>5. CASE Environment
    BY <2>5 DEF Environment, LinkDrops, EvidenceAges, InboundArrives, SnapshotTimeout,
       DeadlinePasses, wire
  <2>6. ~Ingest
    BY <2>2 DEF Ingest, Ack, SnapshotFrame, DeltaFrame, TickSizeFrame, LifecycleFrame
  <2>7. QED
    BY <2>1, <2>3, <2>4, <2>5, <2>6 DEF Next, Finished, vars
<1>2. QED
  BY <1>1, PTL DEF Spec, StallIsLatched

\* Only tick_size_change moves the revision of a slot.
LEMMA IngestedRevision ==
    ASSUME NEW x, SlotInv(x), NEW k \in FrameKinds, NEW m \in MaybeMarket,
           NEW raised \in SUBSET {"crossed", "broken"}
    PROVE  Ingested(x, k, m, raised).rev = x.rev
<1> DEFINE l == Listed(x, k, m)
           a == Applied(l, k, m, raised)
<1>1. SlotInv(l) /\ l.rev = x.rev
  BY ListedInv DEF Listed, SlotInv, Slot
<1> HIDE DEF l
<1>2. Judgeable(a, k) /\ a.rev = l.rev
  <2>1. Judgeable(a, k)
    BY <1>1, AppliedJudgeable
  <2>2. l \in Slot
    BY <1>1 DEF SlotInv
  <2>3. a.rev = l.rev
    BY ONLY <2>2, k \in FrameKinds DEF Applied, Slot, FrameKinds
  <2>4. QED
    BY <2>1, <2>3
<1> HIDE DEF a
<1>3. a \in Slot
  BY <1>2 DEF Judgeable
<1>4. Judged(a, k, m).rev = a.rev
  <2>1. CASE Mismatch(a)
    BY <1>3, <2>1 DEF Judged, Conflicted, WithRecovery, Reset, Slot
  <2>2. CASE ~Mismatch(a)
    <3> DEFINE y == Established(a)
               z == Verified(y, k)
               r == Reviewed(z, k)
    <3>1. DOMAIN y = DOMAIN a /\ y.rev = a.rev
      BY <1>3 DEF Established, Slot
    <3> HIDE DEF y
    <3>2. DOMAIN z = DOMAIN a /\ z.rev = a.rev /\ DOMAIN Reset(y) = DOMAIN a
          /\ Reset(y).rev = a.rev
      BY <1>3, <3>1 DEF Verified, Reset, Slot
    <3> HIDE DEF z
    <3>3. DOMAIN r = DOMAIN a /\ r.rev = a.rev
      BY <1>3, <3>2 DEF Reviewed, WithoutRecovery, WithRecovery, Reset, Slot
    <3> HIDE DEF r
    <3>4. Stamped(r, k).rev = a.rev
      BY <1>3, <3>3 DEF Stamped, Slot
    <3>5. Judged(a, k, m) = Reset(y) \/ Judged(a, k, m) = Stamped(r, k)
      BY <2>2 DEF Judged, y, z, r
    <3>6. QED
      BY <3>2, <3>4, <3>5
  <2>3. QED
    BY <2>1, <2>2
<1>5. QED
  BY <1>1, <1>2, <1>4 DEF Ingested, a, l

\* What a step that is no attempt may do to the revision of a slot.
LEMMA RevisionGrows ==
    ASSUME IInv, [Next]_vars, ~OpenSession, NEW i \in Instruments
    PROVE  slot'[i].rev >= slot[i].rev
<1> USE FeedAssumption
<1>1. slot[i] \in Slot /\ SlotInv(slot[i]) /\ SlotInv(CheckedSlots[i]) /\ slot[i].rev \in Nat
  BY CheckedSlotsInv DEF IInv, SlotInv, Slot
<1>2. ASSUME NEW x \in Slot
      PROVE  /\ Cleared(x).rev = x.rev /\ Requested(x).rev = x.rev /\ Confirmed(x).rev = x.rev
             /\ [x EXCEPT !.due = TRUE].rev = x.rev
             /\ Bumped(x).rev >= x.rev /\ Bumped(x) \in Slot
  BY DEF Slot, Cleared, WithoutRecovery, Reset, Requested, Confirmed, Bumped
<1>3. CheckedSlots[i] \in Slot /\ CheckedSlots[i].rev = slot[i].rev
  <2> DEFINE x == slot[i]
             y == Checked(x, late)
  <2>1. /\ WithRecovery(x, "pending").rev = x.rev
        /\ [Reset(x) EXCEPT !.phase = "pending"].rev = x.rev
        /\ [Reset(x) EXCEPT !.phase = "cooldown", !.due = FALSE].rev = x.rev
        /\ [x EXCEPT !.phase = "pending"].rev = x.rev
    BY <1>1 DEF WithRecovery, Reset, Slot
  <2>2. CheckedSlots[i] = y
    BY DEF CheckedSlots
  <2> HIDE DEF x
  <2>3. \/ y = x
        \/ y = WithRecovery(x, "pending")
        \/ y = [Reset(x) EXCEPT !.phase = "pending"]
        \/ y = [Reset(x) EXCEPT !.phase = "cooldown", !.due = FALSE]
        \/ y = [x EXCEPT !.phase = "pending"]
    BY ONLY CheckedCases
  <2> HIDE DEF y
  <2>4. y.rev = x.rev
    BY ONLY <2>1, <2>3
  <2>5. QED
    BY <1>1, <2>2, <2>4 DEF x, SlotInv
<1>4. CASE slot' = slot \/ slot' = CheckedSlots \/ Invalidate
  BY <1>1, <1>2, <1>3, <1>4 DEF Invalidate
<1>5. CASE RecoverPass \/ RecoverSent
  <2>1. \/ slot'[i] = Requested(CheckedSlots[i]) \/ slot'[i] = Requested(slot[i])
        \/ slot'[i] = CheckedSlots[i] \/ slot'[i] = slot[i] \/ slot'[i] = Confirmed(slot[i])
    BY <1>5 DEF RecoverPass, RecoverSent
  <2>2. QED
    BY <1>1, <1>2, <1>3, <2>1
<1>6. ASSUME NEW j \in Instruments, DeadlinePasses(j)
      PROVE  slot'[i].rev >= slot[i].rev
  <2> DEFINE d == [slot[i] EXCEPT !.due = TRUE]
  <2>1. slot'[i] = slot[i] \/ slot'[i] = d
    BY <1>6 DEF DeadlinePasses, IInv, TypeOK
  <2>2. d.rev = slot[i].rev
    BY <1>1 DEF Slot
  <2> HIDE DEF d
  <2>3. QED
    BY <1>1, <2>1, <2>2
<1>7. CASE Ingest
  <2>1. CASE Ack
    BY <1>4, <2>1 DEF Ack
  <2>2. ASSUME NEW x, SlotInv(x), x.rev >= slot[i].rev, NEW k \in FrameKinds,
               NEW m \in FrameMarkets, NEW raised \in SUBSET {"crossed", "broken"},
               slot'[i] = Ingested(x, k, m, raised) \/ slot'[i] = x
        PROVE  slot'[i].rev >= slot[i].rev
    BY <2>2, IngestedRevision
  <2>3. ASSUME NEW j \in Instruments, NEW m \in FrameMarkets,
               NEW raised \in SUBSET {"crossed", "broken"}, SnapshotFrame(j, m, raised)
        PROVE  slot'[i].rev >= slot[i].rev
    <3>1. slot'[i] = Ingested(CheckedSlots[i], "snapshot", m, raised) \/ slot'[i] = CheckedSlots[i]
      BY <2>3 DEF SnapshotFrame, CheckedSlots
    <3>2. QED
      BY <1>1, <1>3, <2>2, <3>1 DEF FrameKinds
  <2>4. ASSUME NEW on \in SUBSET Instruments, NEW m \in FrameMarkets,
               NEW raised \in [on -> SUBSET {"crossed", "broken"}], DeltaFrame(on, m, raised)
        PROVE  slot'[i].rev >= slot[i].rev
    <3>1. slot'[i] = IF i \in on THEN Ingested(CheckedSlots[i], "delta", m, raised[i])
                                ELSE CheckedSlots[i]
      BY <2>4 DEF DeltaFrame
    <3>2. CASE i \in on
      BY <1>1, <1>3, <2>2, <3>1, <3>2 DEF FrameKinds
    <3>3. CASE i \notin on
      BY <1>1, <1>3, <3>1, <3>3
    <3>4. QED
      BY <3>2, <3>3
  <2>5. ASSUME NEW j \in Instruments, NEW m \in FrameMarkets, TickSizeFrame(j, m)
        PROVE  slot'[i].rev >= slot[i].rev
    <3> DEFINE b == Bumped(CheckedSlots[i])
    <3>1. slot'[i] = Ingested(b, "tick_size_change", m, {}) \/ slot'[i] = CheckedSlots[i]
      BY <2>5 DEF TickSizeFrame, CheckedSlots
    <3>2. SlotInv(b)
      BY <1>1 DEF Bumped, SlotInv, Slot, LadderInv, ConflictInv, AnswerInv, RecoveryInv,
         Intact, Settled
    <3>3. b.rev >= slot[i].rev
      BY <1>2, <1>3
    <3> HIDE DEF b
    <3>4. CASE slot'[i] = CheckedSlots[i]
      BY <1>1, <1>3, <3>4
    <3>5. CASE slot'[i] = Ingested(b, "tick_size_change", m, {})
      BY <2>2, <3>2, <3>3, <3>5 DEF FrameKinds
    <3>6. QED
      BY <3>1, <3>4, <3>5
  <2>6. ASSUME NEW k \in {"new_market", "market_resolved"}, NEW on \in SUBSET Instruments,
               NEW m \in FrameMarkets, LifecycleFrame(k, on, m)
        PROVE  slot'[i].rev >= slot[i].rev
    <3> DEFINE x == IF k = "market_resolved" THEN ResolvedBy(CheckedSlots[i], i, on, m)
                    ELSE CheckedSlots[i]
    <3>1. slot'[i] = Ingested(x, k, m, {}) \/ slot'[i] = x
      BY <2>6 DEF LifecycleFrame
    <3>2. SlotInv(x)
      BY <1>1, ResolvedByInv
    <3>3. x.rev = slot[i].rev
      BY <1>3 DEF ResolvedBy, WithoutRecovery, Slot
    <3> HIDE DEF x
    <3>4. QED
      BY <1>1, <2>2, <3>1, <3>2, <3>3 DEF FrameKinds
  <2>7. QED
    BY <1>7, <2>1, <2>3, <2>4, <2>5, <2>6 DEF Ingest
<1>8. QED
  <2>1. CASE Session
    BY <1>4, <2>1 DEF Session, Start, Connected, Subscribed, GoLive, ConnectFails,
       Cancelled, LoopStops, StreamFails, Abort, TearDown, StayClosed, Close
  <2>2. CASE Observe
    BY <1>4, <2>2 DEF Observe
  <2>3. CASE Tasks
    BY <1>4, <1>5, <2>3 DEF Tasks, RecoverFails, RecoverStops, ProbeSend,
       ProbeAnswered, ProbeFails
  <2>4. CASE Environment
    BY <1>4, <1>6, <2>4 DEF Environment, LinkDrops, EvidenceAges, InboundArrives, SnapshotTimeout
  <2>5. QED
    BY <1>4, <1>7, <2>1, <2>2, <2>3, <2>4 DEF Next, Finished, vars

\* Only an attempt moves the generation, and it moves it up.
LEMMA GenerationMoves ==
    ASSUME IInv, [Next]_vars
    PROVE  IF OpenSession THEN generation' = generation + 1 ELSE generation' = generation
<1>1. CASE Session
  BY <1>1 DEF Session, Start, OpenSession, Connected, Subscribed, GoLive, ConnectFails,
     Cancelled, LoopStops, StreamFails, Abort, TearDown, StayClosed, Close
<1>2. CASE Ingest
  BY <1>2 DEF Ingest, Ack, SnapshotFrame, DeltaFrame, TickSizeFrame, LifecycleFrame, Receive,
     OpenSession, tasks
<1>3. CASE Observe \/ Tasks \/ Environment
  BY <1>3 DEF Observe, Tasks, RecoverPass, RecoverSent, RecoverFails, RecoverStops, ProbeSend,
     ProbeAnswered, ProbeFails, Environment, LinkDrops, EvidenceAges, InboundArrives,
     SnapshotTimeout, DeadlinePasses, OpenSession, tasks
<1>4. CASE UNCHANGED vars
  BY <1>4 DEF vars, OpenSession
<1>5. QED
  BY <1>1, <1>2, <1>3, <1>4 DEF Next, Finished

\* The pair (generation, metadata_revision) of an instrument never goes back.
THEOREM RevisionsAreMonotone == Spec => MetadataIsMonotone
<1>1. IInv /\ [Next]_vars =>
        [\A i \in Instruments :
           \/ generation' > generation
           \/ generation' = generation /\ slot'[i].rev >= slot[i].rev]_vars
  <2> SUFFICES ASSUME IInv, [Next]_vars, NEW i \in Instruments
               PROVE  \/ generation' > generation
                      \/ generation' = generation /\ slot'[i].rev >= slot[i].rev
    OBVIOUS
  <2>1. generation \in Nat
    BY DEF IInv, TypeOK
  <2>2. QED
    BY <2>1, RevisionGrows, GenerationMoves
<1>2. QED
  BY <1>1, Invariance, PTL DEF Spec, MetadataIsMonotone

\* What no frame does to a ladder: it may lose its depth, and gains none.
NoMoreDepth(x, y) == (y.snap => x.snap) /\ y.sources \subseteq x.sources

LEMMA ChecksAddNoDepth ==
    ASSUME NEW x \in Slot
    PROVE  /\ NoMoreDepth(x, Checked(x, late)) /\ Checked(x, late) \in Slot
           /\ NoMoreDepth(x, Requested(x)) /\ NoMoreDepth(x, Confirmed(x))
           /\ NoMoreDepth(x, [x EXCEPT !.due = TRUE])
<1> DEFINE y == Checked(x, late)
           a == WithRecovery(x, "pending")
           b == [Reset(x) EXCEPT !.phase = "pending"]
           c == [Reset(x) EXCEPT !.phase = "cooldown", !.due = FALSE]
           d == [x EXCEPT !.phase = "pending"]
<1>1. /\ a \in Slot /\ NoMoreDepth(x, a)
      /\ b \in Slot /\ NoMoreDepth(x, b)
      /\ c \in Slot /\ NoMoreDepth(x, c)
      /\ d \in Slot /\ NoMoreDepth(x, d)
      /\ NoMoreDepth(x, x)
  <2>1. a \in Slot /\ NoMoreDepth(x, a)
    BY DEF WithRecovery, Slot, Phases, NoMoreDepth
  <2>2. b \in Slot /\ NoMoreDepth(x, b)
    BY DEF Reset, Slot, Phases, MaybeMarket, NoMoreDepth
  <2>3. c \in Slot /\ NoMoreDepth(x, c)
    BY DEF Reset, Slot, Phases, MaybeMarket, NoMoreDepth
  <2>4. d \in Slot /\ NoMoreDepth(x, d)
    BY DEF Slot, Phases, NoMoreDepth
  <2>5. QED
    BY <2>1, <2>2, <2>3, <2>4 DEF NoMoreDepth
<1>2. y = x \/ y = a \/ y = b \/ y = c \/ y = d
  <2>1. \/ y = x
        \/ y = WithRecovery(x, "pending")
        \/ y = [Reset(x) EXCEPT !.phase = "pending"]
        \/ y = [Reset(x) EXCEPT !.phase = "cooldown", !.due = FALSE]
        \/ y = [x EXCEPT !.phase = "pending"]
    BY DEF Checked, Expired
  <2>2. QED
    BY ONLY <2>1
<1> HIDE DEF y, a, b, c, d
<1>3. y \in Slot /\ NoMoreDepth(x, y)
  BY <1>1, <1>2
<1>4. NoMoreDepth(x, Requested(x))
  BY DEF Requested, Reset, Slot, NoMoreDepth
<1>5. NoMoreDepth(x, Confirmed(x))
  BY DEF Confirmed, WithoutRecovery, Reset, Slot, NoMoreDepth
<1>6. NoMoreDepth(x, [x EXCEPT !.due = TRUE])
  BY DEF Slot, NoMoreDepth
<1>7. QED
  BY <1>3, <1>4, <1>5, <1>6 DEF y

\* Without a frame the cursor of a live connection stays, and no ladder gains depth.
LEMMA QuietStepsAddNoDepth ==
    ASSUME IInv, Session \/ Observe \/ Tasks \/ Environment,
           conn = "connected", conn' = "connected"
    PROVE  cursor' = cursor /\ \A i \in Instruments : NoMoreDepth(slot[i], slot'[i])
<1>1. \A i \in Instruments : slot[i] \in Slot
  BY DEF IInv, TypeOK
<1>2. \A x \in Slot : NoMoreDepth(x, x)
  BY DEF NoMoreDepth
<1>3. \A i \in Instruments :
        CheckedSlots[i] \in Slot /\ NoMoreDepth(slot[i], CheckedSlots[i])
  BY <1>1, ChecksAddNoDepth DEF CheckedSlots
<1>4. \A i \in Instruments : NoMoreDepth(slot[i], Requested(CheckedSlots[i]))
  BY <1>1, <1>3, ChecksAddNoDepth DEF NoMoreDepth
<1>5. ~Invalidate
  BY DEF Invalidate
<1>6. CASE Session
  <2>1. session # "new" /\ session = "loop"
    BY DEF IInv, ShardInv
  <2>2. ~OpenSession /\ ~TearDown /\ ~StayClosed /\ ~Start /\ ~Connected /\ ~Subscribed
    BY <2>1 DEF OpenSession, TearDown, StayClosed, Start, Connected, Subscribed
  <2>3. QED
    BY <1>5, <1>6, <2>2 DEF Session, ConnectFails, Cancelled, LoopStops, StreamFails, Abort, Close
<1>7. CASE Observe
  BY <1>1, <1>2, <1>3, <1>5, <1>7 DEF Observe
<1>8. CASE RecoverPass
  <2>1. cursor' = cursor
    BY <1>8 DEF RecoverPass, wire
  <2>2. \A i \in Instruments : slot'[i] = Requested(CheckedSlots[i]) \/ slot'[i] = CheckedSlots[i]
    BY <1>8 DEF RecoverPass
  <2>3. QED
    BY <1>3, <1>4, <2>1, <2>2
<1>9. CASE RecoverSent
  <2>1. cursor' = cursor /\ \A i \in Instruments : slot'[i] = Confirmed(slot[i])
    BY <1>9 DEF RecoverSent, wire
  <2>2. QED
    BY <1>1, <2>1, ChecksAddNoDepth
<1>10. CASE Tasks /\ ~RecoverPass /\ ~RecoverSent
  <2>1. cursor' = cursor /\ slot' = slot
    BY <1>5, <1>10 DEF Tasks, RecoverFails, RecoverStops, ProbeSend, ProbeAnswered, ProbeFails, wire
  <2>2. QED
    BY <1>1, <1>2, <2>1
<1>11. ASSUME NEW j \in Instruments, DeadlinePasses(j)
       PROVE  cursor' = cursor /\ \A i \in Instruments : NoMoreDepth(slot[i], slot'[i])
  <2>1. cursor' = cursor /\ slot' = [slot EXCEPT ![j].due = TRUE]
    BY <1>11 DEF DeadlinePasses, wire
  <2>2. \A i \in Instruments : slot'[i] = slot[i] \/ slot'[i] = [slot[i] EXCEPT !.due = TRUE]
    BY <2>1 DEF IInv, TypeOK
  <2>3. QED
    BY <1>1, <1>2, <2>1, <2>2, ChecksAddNoDepth
<1>12. CASE LinkDrops \/ EvidenceAges \/ InboundArrives \/ SnapshotTimeout
  <2>1. cursor' = cursor /\ slot' = slot
    BY <1>12 DEF LinkDrops, EvidenceAges, InboundArrives, SnapshotTimeout
  <2>2. QED
    BY <1>1, <1>2, <2>1
<1>13. QED
  BY <1>6, <1>7, <1>8, <1>9, <1>10, <1>11, <1>12 DEF Environment

\* On a live Kalshi connection the cursor never jumps, and depth comes with it only.
THEOREM DepthComesInSequence == Spec => DepthIsContiguous
<1>1. IInv /\ [Next]_vars =>
        [Kalshi /\ conn = "connected" /\ conn' = "connected" =>
           /\ cursor # 0 => cursor' \in {cursor, cursor + 1}
           /\ cursor' = cursor => \A i \in Instruments :
                 (slot'[i].snap => slot[i].snap) /\ slot'[i].sources \subseteq slot[i].sources]_vars
  <2> SUFFICES ASSUME IInv, Next, Kalshi, conn = "connected", conn' = "connected"
               PROVE  /\ cursor # 0 => cursor' \in {cursor, cursor + 1}
                      /\ cursor' = cursor => \A i \in Instruments : NoMoreDepth(slot[i], slot'[i])
    BY DEF vars, NoMoreDepth
  <2>1. cursor \in Nat /\ \A i \in Instruments : slot[i] \in Slot
    BY DEF IInv, TypeOK
  <2>2. CASE Session \/ Observe \/ Tasks \/ Environment
    BY <2>2, QuietStepsAddNoDepth
  <2>3. CASE Ack
    <3>1. cursor' = cursor /\ \A i \in Instruments : slot'[i] = Checked(slot[i], late)
      BY <2>3 DEF Ack, CheckedSlots
    <3>2. QED
      BY <2>1, <3>1, ChecksAddNoDepth
  <2>4. ASSUME NEW i \in Instruments, NEW m \in FrameMarkets,
               NEW raised \in SUBSET {"crossed", "broken"}, SnapshotFrame(i, m, raised)
        PROVE  InSequence
    BY <2>4 DEF SnapshotFrame
  <2>5. ASSUME NEW on \in SUBSET Instruments, NEW m \in FrameMarkets,
               NEW raised \in [on -> SUBSET {"crossed", "broken"}], DeltaFrame(on, m, raised)
        PROVE  InSequence
    BY <2>5 DEF DeltaFrame
  <2>6. InSequence => cursor' # cursor /\ (cursor # 0 => cursor' = cursor + 1)
    BY <2>1, FeedAssumption DEF InSequence, Kalshi, Polymarket
  <2>7. CASE Ingest
    BY <2>3, <2>4, <2>5, <2>6, <2>7 DEF Ingest, TickSizeFrame, LifecycleFrame, Kalshi, Polymarket
  <2>8. CASE Finished
    BY <2>1, <2>8 DEF Finished, vars, NoMoreDepth
  <2>9. QED
    BY <2>2, <2>7, <2>8 DEF Next
<1>2. QED
  BY <1>1, Invariance, PTL DEF Spec, DepthIsContiguous

-----------------------------------------------------------------------------
(* ManagedFeed implements BookContract, for any venue, instruments and     *)
(* markets.  close and OpenSession are the Close and the Attempt of the    *)
(* contract; any other step of a live connection is an Update; any other   *)
(* step between connections is invisible to the callers of the feed.       *)

\* What the contract sees of an instrument.
ViewInv ==
    \A i \in Instruments :
        /\ StatusOf(i) \in {"dark", "usable", "settled"}
        /\ StatusOf(i) = "settled" <=> slot[i].resolved
        /\ StatusOf(i) = "usable" <=> Usable(i)
        /\ slot[i].known \in Markets \cup {NoMarket}
        /\ slot[i].sources \subseteq Markets
        /\ slot[i].sources \subseteq {slot[i].known}

LEMMA ViewOfSlots == IInv => ViewInv
<1> SUFFICES ASSUME IInv, NEW i \in Instruments
             PROVE  /\ StatusOf(i) \in {"dark", "usable", "settled"}
                    /\ StatusOf(i) = "settled" <=> slot[i].resolved
                    /\ StatusOf(i) = "usable" <=> Usable(i)
                    /\ slot[i].known \in Markets \cup {NoMarket}
                    /\ slot[i].sources \subseteq Markets
                    /\ slot[i].sources \subseteq {slot[i].known}
  BY DEF ViewInv
<1>1. SlotInv(slot[i]) /\ slot[i] \in Slot
  BY DEF IInv, SlotInv
<1>2. Settled(slot[i]) <=> slot[i].resolved
  BY <1>1 DEF SlotInv, RecoveryInv, Settled
<1>3. Usable(i) => ~Settled(slot[i])
  BY DEF Usable, SlotUsable
<1>4. slot[i].known \in Markets \cup {NoMarket} /\ slot[i].sources \subseteq Markets
  BY <1>1 DEF Slot, MaybeMarket
<1>5. slot[i].sources \subseteq {slot[i].known}
  BY <1>1 DEF SlotInv, LadderInv, Named
<1>6. QED
  BY <1>2, <1>3, <1>4, <1>5 DEF StatusOf

\* Only close closes the feed.
LEMMA ClosedMoves ==
    ASSUME [Next]_vars, ~Close
    PROVE  closed' = closed
<1>1. CASE Session
  BY <1>1 DEF Session, Start, OpenSession, Connected, Subscribed, GoLive, ConnectFails,
     Cancelled, LoopStops, StreamFails, Abort, TearDown, StayClosed
<1>2. CASE Ingest
  BY <1>2 DEF Ingest, Ack, SnapshotFrame, DeltaFrame, TickSizeFrame, LifecycleFrame, Receive
<1>3. CASE Observe \/ Tasks \/ Environment
  BY <1>3 DEF Observe, Tasks, RecoverPass, RecoverSent, RecoverFails, RecoverStops, ProbeSend,
     ProbeAnswered, ProbeFails, Environment, LinkDrops, EvidenceAges, InboundArrives,
     SnapshotTimeout, DeadlinePasses
<1>4. CASE UNCHANGED vars
  BY <1>4 DEF vars
<1>5. QED
  BY <1>1, <1>2, <1>3, <1>4 DEF Next, Finished

(***************************************************************************)
(* Between connections nothing is learned of an instrument, and a          *)
(* connection that goes live has no book yet.                              *)
(***************************************************************************)
LEMMA QuietStep ==
    ASSUME IInv, [Next]_vars, conn # "connected", ~OpenSession, NEW i \in Instruments
    PROVE  Alike(slot[i], slot'[i]) /\ (conn' # "connected" \/ ~slot'[i].snap)
<1>1. SlotInv(slot[i]) /\ Empty(slot[i])
  BY DEF IInv, ShardInv
<1>2. CASE Invalidate
  BY <1>1, <1>2, AlikeOperators DEF Invalidate
<1>3. CASE slot' = slot
  BY <1>1, <1>3 DEF Alike, Empty
<1>4. CASE RecoverSent
  <2>1. slot'[i] = slot[i]
    BY <1>1, <1>4 DEF RecoverSent, Confirmed, Empty
  <2>2. QED
    BY <1>1, <2>1 DEF Alike, Empty
<1>5. ~RecoverPass /\ ~Receive
  BY DEF RecoverPass, Receive, IInv, ShardInv
<1>6. ~Observe /\ \A j \in Instruments : ~DeadlinePasses(j)
  BY DEF Observe, DeadlinePasses, IInv, ShardInv, Empty
<1>7. CASE Session
  BY <1>2, <1>3, <1>7 DEF Session, Start, Connected, Subscribed, GoLive, ConnectFails,
     Cancelled, LoopStops, StreamFails, Abort, TearDown, StayClosed, Close
<1>8. CASE Tasks
  BY <1>2, <1>3, <1>4, <1>5, <1>8 DEF Tasks, RecoverFails, RecoverStops, ProbeSend,
     ProbeAnswered, ProbeFails
<1>9. CASE Environment
  BY <1>3, <1>6, <1>9 DEF Environment, LinkDrops, EvidenceAges, InboundArrives, SnapshotTimeout
<1>10. ~Ingest
  BY <1>5 DEF Ingest, Ack, SnapshotFrame, DeltaFrame, TickSizeFrame, LifecycleFrame
<1>11. QED
  BY <1>3, <1>6, <1>7, <1>8, <1>9, <1>10 DEF Next, Finished, vars

-----------------------------------------------------------------------------
\* The three kinds of visible steps, and the invisible one.
LEMMA CloseMaps ==
    ASSUME IInv, ViewInv, ViewInv', Close
    PROVE  Contract!Close
<1>1. ASSUME NEW i \in Instruments
      PROVE  /\ StatusOf(i)' = IF StatusOf(i) = "usable" THEN "dark" ELSE StatusOf(i)
             /\ slot'[i].known = slot[i].known
             /\ ~Usable(i)'
  <2>1. slot'[i].known = slot[i].known /\ slot'[i].resolved = slot[i].resolved
    BY ClearedInv DEF Close, Invalidate, IInv
  <2>2. ~Usable(i)'
    BY DEF Close, Invalidate, Usable
  <2>3. (StatusOf(i) = "settled" <=> slot[i].resolved) /\ (StatusOf(i) = "usable" <=> Usable(i))
        /\ StatusOf(i) \in {"dark", "usable", "settled"}
    BY DEF ViewInv
  <2>4. /\ (StatusOf(i) = "settled")' <=> slot'[i].resolved
        /\ (StatusOf(i) = "usable")' <=> Usable(i)'
        /\ StatusOf(i)' \in {"dark", "usable", "settled"}
    BY DEF ViewInv
  <2>5. QED
    BY <2>1, <2>2, <2>3, <2>4
<1>2. ~closed /\ closed' = TRUE /\ generation' = generation
  BY DEF Close
<1>3. QED
  BY <1>1, <1>2 DEF Contract!Close

LEMMA AttemptMaps ==
    ASSUME IInv, ViewInv, ViewInv', OpenSession
    PROVE  Contract!Attempt
<1>1. ASSUME NEW i \in Instruments
      PROVE  /\ StatusOf(i)' = StatusOf(i) /\ StatusOf(i) # "usable"
             /\ slot'[i].known = slot[i].known
             /\ ~Usable(i) /\ ~Usable(i)'
  <2>1. slot'[i].known = slot[i].known /\ slot'[i].resolved = slot[i].resolved
    BY DEF OpenSession, IInv, TypeOK, Slot
  <2>2. ~Usable(i) /\ ~Usable(i)'
    BY DEF OpenSession, Usable, IInv, ShardInv
  <2>3. (StatusOf(i) = "settled" <=> slot[i].resolved) /\ (StatusOf(i) = "usable" <=> Usable(i))
        /\ StatusOf(i) \in {"dark", "usable", "settled"}
    BY DEF ViewInv
  <2>4. /\ (StatusOf(i) = "settled")' <=> slot'[i].resolved
        /\ (StatusOf(i) = "usable")' <=> Usable(i)'
        /\ StatusOf(i)' \in {"dark", "usable", "settled"}
    BY DEF ViewInv
  <2>5. QED
    BY <2>1, <2>2, <2>3, <2>4
<1>2. ~closed /\ closed' = closed /\ generation' = generation + 1
  BY DEF OpenSession
<1>3. QED
  BY <1>1, <1>2 DEF Contract!Attempt

LEMMA LiveStepMaps ==
    ASSUME IInv, ViewInv, ViewInv', [Next]_vars, ~Close, ~OpenSession, conn = "connected"
    PROVE  Contract!Update
<1>1. ~closed /\ closed' = closed /\ generation > 0 /\ generation' = generation
  BY ClosedMoves, GenerationMoves DEF IInv, ShardInv
<1>2. ASSUME NEW i \in Instruments
      PROVE  /\ StatusOf(i)' \in {"dark", "usable", "settled"}
             /\ \/ StatusOf(i)' = StatusOf(i)
                \/ StatusOf(i) = "dark" /\ StatusOf(i)' = "usable"
                \/ StatusOf(i) = "usable" /\ StatusOf(i)' = "dark"
                \/ StatusOf(i)' = "settled"
             /\ slot[i].known # NoMarket => slot'[i].known = slot[i].known
             /\ slot'[i].known \in Markets \cup {NoMarket}
             /\ slot'[i].sources \subseteq Markets
             /\ slot'[i].sources \subseteq {slot'[i].known}
             /\ StatusOf(i)' = "usable" <=> Usable(i)'
  <2>1. Follows(slot[i], slot'[i])
    BY StepFollows
  <2>2. (StatusOf(i) = "settled" <=> slot[i].resolved) /\ StatusOf(i) \in {"dark", "usable", "settled"}
    BY DEF ViewInv
  <2>3. /\ (StatusOf(i) = "settled")' <=> slot'[i].resolved
        /\ (StatusOf(i) = "usable")' <=> Usable(i)'
        /\ StatusOf(i)' \in {"dark", "usable", "settled"}
        /\ slot'[i].known \in Markets \cup {NoMarket}
        /\ slot'[i].sources \subseteq Markets
        /\ slot'[i].sources \subseteq {slot'[i].known}
    BY DEF ViewInv
  <2>4. QED
    BY <2>1, <2>2, <2>3 DEF Follows
<1>3. QED
  BY <1>1, <1>2 DEF Contract!Update, Contract!Moves

LEMMA QuietStepMaps ==
    ASSUME IInv, ViewInv, ViewInv', [Next]_vars, ~Close, ~OpenSession, conn # "connected"
    PROVE  UNCHANGED Contract!vars
<1>1. closed' = closed /\ generation' = generation
  BY ClosedMoves, GenerationMoves
<1>2. ASSUME NEW i \in Instruments
      PROVE  StatusOf(i)' = StatusOf(i) /\ slot'[i].known = slot[i].known
             /\ ~Usable(i) /\ ~Usable(i)'
  <2>1. slot'[i].known = slot[i].known /\ slot'[i].resolved = slot[i].resolved
        /\ (conn' # "connected" \/ ~slot'[i].snap)
    BY QuietStep DEF Alike
  <2>2. ~Usable(i) /\ ~Usable(i)'
    BY <2>1 DEF Usable, SlotUsable, Intact
  <2>3. (StatusOf(i) = "settled" <=> slot[i].resolved) /\ (StatusOf(i) = "usable" <=> Usable(i))
        /\ StatusOf(i) \in {"dark", "usable", "settled"}
    BY DEF ViewInv
  <2>4. /\ (StatusOf(i) = "settled")' <=> slot'[i].resolved
        /\ (StatusOf(i) = "usable")' <=> Usable(i)'
        /\ StatusOf(i)' \in {"dark", "usable", "settled"}
    BY DEF ViewInv
  <2>5. QED
    BY <2>1, <2>2, <2>3, <2>4
<1>3. QED
  BY <1>1, <1>2 DEF Contract!vars

-----------------------------------------------------------------------------
(***************************************************************************)
(* The feed keeps its contract: whatever the frames, timers and failures,  *)
(* callers see books appear, disappear and settle as BookContract allows.  *)
(***************************************************************************)
THEOREM FeedKeepsContract == Spec => KeepsContract
<1>1. Init => Contract!Init
  BY DEF Init, Contract!Init, StatusOf, Usable, Settled, EmptySlot
<1>2. IInv /\ ViewInv /\ ViewInv' /\ [Next]_vars => [Contract!Next]_(Contract!vars)
  BY CloseMaps, AttemptMaps, LiveStepMaps, QuietStepMaps DEF Contract!Next
<1>3. QED
  BY <1>1, <1>2, Invariance, ViewOfSlots, PTL DEF Spec, KeepsContract, Contract!Spec

=============================================================================
