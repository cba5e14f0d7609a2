---------------------------- MODULE ManagedFeed ----------------------------
(***************************************************************************)
(* One shard of ManagedBookFeed: a connection that is opened, watched,     *)
(* dropped and reopened, the books it feeds, and the coroutines that share *)
(* them on one event loop: the session (_run and _session), the snapshot   *)
(* recovery (_recover), Kalshi's liveness probe (_probe), the readers      *)
(* (health and book) and close.  An action is what one of them does        *)
(* between two awaits.  Shards share nothing but `closed'.                 *)
(*                                                                         *)
(* Time is abstracted to what the code compares it with: `stale' says that *)
(* the liveness evidence held is older than liveness_timeout, `silent'     *)
(* that the client has received nothing for that long, `late' that the     *)
(* connection is older than snapshot_timeout.                              *)
(***************************************************************************)
EXTENDS BookSlot

CONSTANTS
    Instruments,     \* subscribed_instruments of the shard
    FrameMarkets,    \* the markets frames name, NoMarket for a frame that names none
    MaxGeneration,   \* bound on the connection attempts explored
    MaxSeq,          \* bound on Kalshi's subscription sequence numbers
    MaxRev           \* bound on the tick_size_change events of a connection

ASSUME FeedAssumption ==
    /\ Instruments # {}
    /\ FrameMarkets \subseteq MaybeMarket
    /\ MaxGeneration \in Nat /\ MaxSeq \in Nat /\ MaxRev \in Nat

VARIABLES
    closed,      \* ManagedBookFeed._closed
    session,     \* where _run/_session is: new, ready (to attempt), connect,
                 \* subscribe, loop, teardown, ended
    recoverer,   \* the _recover task: none, idle (between passes), sending
    prober,      \* the _probe task: none, sleep, await (a pong)
    generation,  \* _Shard.generation
    conn,        \* health.connection_state
    restart,     \* _Shard.restart
    link,        \* client.is_connected and no heartbeat error
    stale, silent, late,
    acked,       \* _Shard.sid is not None
    cursor,      \* VenueBooks.sequences[sid], 0 when absent
    slot         \* what the shard keeps per instrument

vars == <<closed, session, recoverer, prober, generation, conn, restart,
          link, stale, silent, late, acked, cursor, slot>>
tasks == <<session, recoverer, prober>>
wire == <<link, stale, silent, late, acked, cursor>>

Kalshi == Venue = "kalshi"
Polymarket == Venue = "polymarket"

Init ==
    /\ closed = FALSE
    /\ session = "new" /\ recoverer = "none" /\ prober = "none"
    /\ generation = 0
    /\ conn = "disconnected" /\ restart = TRUE
    /\ link = FALSE /\ stale = TRUE /\ silent = FALSE /\ late = FALSE
    /\ acked = FALSE /\ cursor = 0
    /\ slot = [i \in Instruments |-> EmptySlot]

-----------------------------------------------------------------------------
\* _invalidate: every evidence of the connection goes before anything is awaited.
Invalidate ==
    /\ slot' = [i \in Instruments |-> Cleared(slot[i])]
    /\ conn' = "disconnected" /\ restart' = TRUE
    /\ stale' = TRUE /\ cursor' = 0
    /\ UNCHANGED <<link, silent, late, acked>>

\* A fault: a missing subscription acknowledgement is waited for without end.
LivenessLostUnlessUnacked == ~link \/ stale \/ (Polymarket /\ silent)

\* What _check_liveness invalidates a connected shard for.
LivenessLost ==
    \/ ~link
    \/ stale
    \/ Kalshi /\ ~acked /\ late
    \/ Polymarket /\ silent

\* ... and the evidence it refreshes otherwise, from the client's last inbound frame.
LivenessKept == ~LivenessLost /\ stale' = (Polymarket /\ silent)

CheckedSlots == [i \in Instruments |-> Checked(slot[i], late)]

-----------------------------------------------------------------------------
(* start, and the session: _run, _session, _teardown.                       *)

Start ==
    /\ ~closed /\ session = "new"
    /\ session' = "ready"
    /\ UNCHANGED <<closed, recoverer, prober, generation, conn, restart, wire, slot>>

OpenSession ==
    /\ ~closed /\ session = "ready" /\ generation < MaxGeneration
    /\ session' = "connect"
    /\ generation' = generation + 1
    /\ conn' = "connecting" /\ restart' = FALSE /\ acked' = FALSE
    /\ slot' = [i \in Instruments |-> [slot[i] EXCEPT !.rev = 0]]
    /\ UNCHANGED <<closed, recoverer, prober, link, stale, silent, late, cursor>>

\* mark_connected, the message pump and the two tasks of the connection.
GoLive ==
    /\ session' = "loop"
    /\ recoverer' = "idle" /\ prober' = IF Kalshi THEN "sleep" ELSE "none"
    /\ conn' = "connected"
    /\ link' = TRUE /\ stale' = FALSE /\ silent' = FALSE /\ late' = FALSE
    /\ UNCHANGED <<closed, generation, restart, acked, cursor, slot>>

Connected ==
    /\ session = "connect" /\ ~closed
    /\ \/ Polymarket /\ GoLive
       \/ /\ Kalshi
          /\ session' = "subscribe"
          /\ UNCHANGED <<closed, recoverer, prober, generation, conn, restart, wire, slot>>

Subscribed == session = "subscribe" /\ ~closed /\ GoLive

\* An exception or a cancellation: the finally block invalidates, then tears down.
Abort ==
    /\ Invalidate
    /\ session' = "teardown"
    /\ UNCHANGED <<closed, recoverer, prober, generation>>

ConnectFails == session \in {"connect", "subscribe"} /\ ~closed /\ Abort

\* A fault: a cancellation that arrives while connecting is swallowed.
CancelledInLoop == session = "loop" /\ closed /\ Abort

\* close() cancelled the task, or _closed is seen after the connection is up.
Cancelled == session \in {"connect", "subscribe", "loop"} /\ closed /\ Abort

\* The liveness check of the loop, or another task, ended the connection.
LoopStops == session = "loop" /\ ~closed /\ (restart \/ LivenessLost) /\ Abort

\* The stream ended, or a frame was malformed, out of sequence or an error.
StreamFails == session = "loop" /\ ~closed /\ Abort

\* A fault: a lost connection is not retried.
TearDownForGood ==
    /\ session = "teardown"
    /\ session' = "ended"
    /\ recoverer' = "none" /\ prober' = "none" /\ link' = FALSE
    /\ UNCHANGED <<closed, generation, conn, restart, stale, silent, late, acked, cursor, slot>>

\* _teardown cancels both tasks and closes the socket; then retry, unless closed.
TearDown ==
    /\ session = "teardown"
    /\ session' = IF closed THEN "ended" ELSE "ready"
    /\ recoverer' = "none" /\ prober' = "none" /\ link' = FALSE
    /\ UNCHANGED <<closed, generation, conn, restart, stale, silent, late, acked, cursor, slot>>

\* The cancelled task does not start another attempt.
StayClosed ==
    /\ session = "ready" /\ closed
    /\ session' = "ended"
    /\ UNCHANGED <<closed, recoverer, prober, generation, conn, restart, wire, slot>>

Close ==
    /\ ~closed
    /\ closed' = TRUE
    /\ Invalidate
    /\ UNCHANGED <<tasks, generation>>

-----------------------------------------------------------------------------
(* _ingest.                                                                 *)

\* The loop received a frame: liveness was checked before and after the wait.
Receive ==
    /\ session = "loop" /\ ~closed /\ ~restart
    /\ LivenessKept
    /\ UNCHANGED <<closed, tasks, generation, conn, restart, link, silent, late>>

\* A fault: a later frame is accepted after a hole in the sequence.
InSequenceWithHoles ==
    \/ Polymarket /\ cursor' = cursor
    \/ Kalshi /\ acked /\ cursor' \in 1 .. MaxSeq /\ cursor < cursor'

\* Kalshi's sequence covers the subscription, whatever the market of the frame.
InSequence ==
    \/ Polymarket /\ cursor' = cursor
    \/ Kalshi /\ acked /\ cursor' \in 1 .. MaxSeq /\ cursor \in {0, cursor' - 1}

Ack ==
    /\ Kalshi /\ ~acked
    /\ Receive
    /\ acked' = TRUE
    /\ slot' = CheckedSlots
    /\ UNCHANGED cursor

\* What a frame does to the slot of an instrument it is about.
Ingested(x, k, m, raised) == Judged(Applied(Listed(x, k, m), k, m, raised), k, m)

\* book, or orderbook_snapshot
SnapshotFrame(i, m, raised) ==
    /\ Receive
    /\ InSequence
    /\ slot' = [CheckedSlots EXCEPT ![i] = Ingested(@, "snapshot", m, raised)]
    /\ UNCHANGED acked

\* price_change, which may touch several books, or orderbook_delta
DeltaFrame(on, m, raised) ==
    /\ Receive
    /\ InSequence
    /\ slot' = [i \in Instruments |->
                  IF i \in on THEN Ingested(CheckedSlots[i], "delta", m, raised[i])
                              ELSE CheckedSlots[i]]
    /\ UNCHANGED acked

TickSizeFrame(i, m) ==
    /\ Polymarket
    /\ Receive
    /\ slot[i].rev < MaxRev
    /\ slot' = [CheckedSlots EXCEPT ![i] =
                  Ingested(Bumped(@), "tick_size_change", m, {})]
    /\ UNCHANGED <<acked, cursor>>

\* A fault: resolution leaves the recovery of the book alone.
ResolvedByOnly(x, i, on, m) ==
    IF i \in on \/ (m # NoMarket /\ x.known = m)
    THEN [x EXCEPT !.resolved = TRUE]
    ELSE x

\* market_resolved reaches an instrument by name, or by its established market.
ResolvedBy(x, i, on, m) ==
    IF i \in on \/ (m # NoMarket /\ x.known = m)
    THEN [WithoutRecovery(x) EXCEPT !.resolved = TRUE]
    ELSE x

LifecycleFrame(k, on, m) ==
    /\ Polymarket
    /\ Receive
    /\ slot' = [i \in Instruments |->
                  LET x == IF k = "market_resolved"
                           THEN ResolvedBy(CheckedSlots[i], i, on, m)
                           ELSE CheckedSlots[i]
                  IN  IF i \in on \/ (m # NoMarket /\ x.listed = m)
                      THEN Ingested(x, k, m, {})
                      ELSE x]
    /\ UNCHANGED <<acked, cursor>>

Ingest ==
    \/ Ack
    \/ \E i \in Instruments, m \in FrameMarkets, raised \in SUBSET {"crossed", "broken"} :
          SnapshotFrame(i, m, raised)
    \/ \E on \in SUBSET Instruments \ {{}}, m \in FrameMarkets :
          /\ Kalshi => \E i \in Instruments : on = {i}
          /\ \E raised \in [on -> SUBSET {"crossed", "broken"}] : DeltaFrame(on, m, raised)
    \/ \E i \in Instruments, m \in FrameMarkets : TickSizeFrame(i, m)
    \/ \E k \in {"new_market", "market_resolved"}, on \in SUBSET Instruments, m \in FrameMarkets :
          LifecycleFrame(k, on, m)

-----------------------------------------------------------------------------
(* Readers.  health() and book() run both checks; so does the loop when it  *)
(* wakes without a frame, and a frame that is ignored.                      *)

Observe ==
    /\ conn = "connected"
    /\ \/ LivenessLost /\ Invalidate
       \/ /\ LivenessKept
          /\ slot' = IF restart THEN slot ELSE CheckedSlots
          /\ UNCHANGED <<conn, restart, link, silent, late, acked, cursor>>
    /\ UNCHANGED <<closed, tasks, generation>>

-----------------------------------------------------------------------------
(* _recover: one task owns every outstanding snapshot request.              *)

\* One pass of the loop: batch what is pending, once Kalshi has a subscription.
RecoverPass ==
    /\ recoverer = "idle" /\ ~restart
    /\ LET checked == IF conn = "connected" THEN CheckedSlots ELSE slot
           batch == {i \in Instruments : checked[i].phase = "pending"}
       IN  IF batch # {} /\ (Polymarket \/ acked)
           THEN /\ recoverer' = "sending"
                /\ slot' = [i \in Instruments |-> Requested(checked[i])]
           ELSE /\ slot' = checked
                /\ UNCHANGED recoverer
    /\ UNCHANGED <<closed, session, prober, generation, conn, restart, wire>>

RecoverSent ==
    /\ recoverer = "sending"
    /\ recoverer' = "idle"
    /\ slot' = [i \in Instruments |-> Confirmed(slot[i])]
    /\ UNCHANGED <<closed, session, prober, generation, conn, restart, wire>>

\* A fault: the failure of the request is dropped.
RecoverFailsQuietly ==
    /\ recoverer = "sending"
    /\ recoverer' = "none"
    /\ UNCHANGED <<closed, session, prober, generation, conn, restart, wire, slot>>

\* The request timed out or raised: a transport fault.
RecoverFails ==
    /\ recoverer = "sending"
    /\ recoverer' = "none"
    /\ Invalidate
    /\ UNCHANGED <<closed, session, prober, generation>>

RecoverStops ==
    /\ recoverer = "idle" /\ restart
    /\ recoverer' = "none"
    /\ UNCHANGED <<closed, session, prober, generation, conn, restart, wire, slot>>

-----------------------------------------------------------------------------
(* _probe.                                                                  *)

ProbeSend ==
    /\ prober = "sleep"
    /\ prober' = "await"
    /\ UNCHANGED <<closed, session, recoverer, generation, conn, restart, wire, slot>>

\* A fault: the pong is accepted without looking at the deadline it missed.
ProbeAnsweredLate ==
    /\ prober = "await"
    /\ prober' = IF restart THEN "none" ELSE "sleep"
    /\ stale' = restart
    /\ UNCHANGED <<closed, session, recoverer, generation, conn, restart, link,
                   silent, late, acked, cursor, slot>>

\* A pong: the old deadline is checked before the new evidence is accepted.
ProbeAnswered ==
    /\ prober = "await"
    /\ \/ /\ conn = "connected" /\ LivenessLost
          /\ prober' = "none"
          /\ Invalidate
       \/ /\ conn # "connected"
          /\ restart
          /\ prober' = "none"
          /\ UNCHANGED <<conn, restart, wire, slot>>
       \/ /\ conn = "connected" /\ ~LivenessLost
          /\ prober' = "sleep"
          /\ stale' = FALSE
          /\ UNCHANGED <<conn, restart, link, silent, late, acked, cursor, slot>>
    /\ UNCHANGED <<closed, session, recoverer, generation>>

\* No pong in time, or the probe raised.
ProbeFails ==
    /\ prober = "await"
    /\ prober' = "none"
    /\ \/ Invalidate
       \/ restart /\ UNCHANGED <<conn, restart, wire, slot>>
    /\ UNCHANGED <<closed, session, recoverer, generation>>

-----------------------------------------------------------------------------
(* The network and time.                                                    *)

LinkDrops ==
    /\ link /\ conn = "connected"
    /\ link' = FALSE
    /\ UNCHANGED <<closed, tasks, generation, conn, restart, stale, silent, late, acked, cursor, slot>>

\* liveness_timeout passes: since the evidence held, and since the last inbound frame.
EvidenceAges ==
    /\ conn = "connected"
    /\ \/ ~stale /\ stale' = TRUE /\ UNCHANGED silent
       \/ Polymarket /\ stale /\ ~silent /\ silent' = TRUE /\ UNCHANGED stale
    /\ UNCHANGED <<closed, tasks, generation, conn, restart, link, late, acked, cursor, slot>>

\* A heartbeat reply or a frame reaches the client, perhaps too late.
InboundArrives ==
    /\ conn = "connected" /\ silent
    /\ silent' = FALSE
    /\ UNCHANGED <<closed, tasks, generation, conn, restart, link, stale, late, acked, cursor, slot>>

SnapshotTimeout ==
    /\ conn = "connected" /\ ~late
    /\ late' = TRUE
    /\ UNCHANGED <<closed, tasks, generation, conn, restart, link, stale, silent, acked, cursor, slot>>

DeadlinePasses(i) ==
    /\ slot[i].phase \in {"grace", "waiting", "cooldown"} /\ ~slot[i].due
    /\ slot' = [slot EXCEPT ![i].due = TRUE]
    /\ UNCHANGED <<closed, tasks, generation, conn, restart, wire>>

\* A closed feed whose tasks have ended only answers reads.
Finished == closed /\ session \in {"new", "ended"} /\ UNCHANGED vars

Session ==
    \/ Start \/ OpenSession \/ Connected \/ Subscribed \/ ConnectFails
    \/ Cancelled \/ LoopStops \/ StreamFails \/ TearDown \/ StayClosed \/ Close

Tasks ==
    \/ RecoverPass \/ RecoverSent \/ RecoverFails \/ RecoverStops
    \/ ProbeSend \/ ProbeAnswered \/ ProbeFails

Environment ==
    \/ LinkDrops \/ EvidenceAges \/ InboundArrives \/ SnapshotTimeout
    \/ \E i \in Instruments : DeadlinePasses(i)

Next == Session \/ Ingest \/ Observe \/ Tasks \/ Environment \/ Finished

Spec == Init /\ [][Next]_vars

-----------------------------------------------------------------------------
(* What must hold.                                                          *)

\* Every variable has its type.
TypeOK ==
    /\ closed \in BOOLEAN
    /\ session \in {"new", "ready", "connect", "subscribe", "loop", "teardown", "ended"}
    /\ recoverer \in {"none", "idle", "sending"}
    /\ prober \in {"none", "sleep", "await"}
    /\ generation \in Nat
    /\ conn \in {"disconnected", "connecting", "connected"}
    /\ restart \in BOOLEAN
    /\ link \in BOOLEAN /\ stale \in BOOLEAN /\ silent \in BOOLEAN /\ late \in BOOLEAN
    /\ acked \in BOOLEAN /\ cursor \in Nat
    /\ slot \in [Instruments -> Slot]

\* The instrument's book is what book() would return, but for the liveness check.
Usable(i) == conn = "connected" /\ ~restart /\ SlotUsable(slot[i])

\* book() returns depth for the instrument, after both checks it runs.
Served(i) ==
    /\ conn = "connected" /\ ~restart /\ ~LivenessLost
    /\ SlotUsable(Checked(slot[i], late))

(***************************************************************************)
(* A book that readers get comes from the connection the running loop is   *)
(* feeding, has the timestamps book() indexes, and merges frames of one    *)
(* market only: the one first established for the instrument.              *)
(***************************************************************************)
ServedIsCurrent ==
    \A i \in Instruments : Served(i) =>
        /\ session = "loop" /\ ~closed
        /\ slot[i].updated
        /\ ~slot[i].conflict
        /\ slot[i].sources \subseteq {slot[i].known}

(***************************************************************************)
(* A recovery is only ever about to be retired on depth that is intact     *)
(* now: `answered' does not outlive the validity of the snapshot that set  *)
(* it, whatever frames arrive while the request is being sent.             *)
(***************************************************************************)
AnsweredIsIntact ==
    \A i \in Instruments : slot[i].answered =>
        slot[i].phase = "sending" /\ Intact(slot[i]) /\ ~slot[i].conflict

(***************************************************************************)
(* A book that is known bad on a live connection is under recovery, unless *)
(* its market has resolved; without one it could stay unusable for ever,   *)
(* since only a missing first snapshot is retried by timeout.              *)
(***************************************************************************)
BadBookIsRecovering ==
    \A i \in Instruments :
        conn = "connected" /\ slot[i].snap /\ ~Intact(slot[i]) /\ ~slot[i].resolved
            => slot[i].phase # "none"

(***************************************************************************)
(* Resolution ends recovery: no request is queued, out or awaited for a    *)
(* resolved instrument, even when it resolves while one is being sent.     *)
(***************************************************************************)
ResolvedIsAtRest ==
    \A i \in Instruments : Settled(slot[i]) =>
        slot[i].resolved /\ slot[i].phase = "none"

(***************************************************************************)
(* The tasks of a connection do not outlive it: the recovery and the probe *)
(* exist only while their session runs or tears down, and a connection is  *)
(* reported live only while its loop runs.  And no request is orphaned: a  *)
(* recovery in phase "sending", which nothing but the end of the send moves*)
(* on, has the task that is sending it.                                    *)
(***************************************************************************)
TasksAreOwned ==
    /\ \A i \in Instruments : slot[i].phase = "sending" => recoverer = "sending"
    /\ recoverer # "none" \/ prober # "none" => session \in {"loop", "teardown"}
    /\ conn = "connected" => session = "loop" /\ ~restart /\ ~closed

-----------------------------------------------------------------------------
(***************************************************************************)
(* A stall of the loop longer than liveness_timeout cannot be healed by a  *)
(* late heartbeat or frame: evidence that expired is only replaced by the  *)
(* evidence of a new connection.                                           *)
(***************************************************************************)
StallIsLatched == [][stale /\ ~stale' => session # "loop" /\ session' = "loop"]_vars

(***************************************************************************)
(* A conflict of identity ends only with an intact ladder built from       *)
(* nothing but frames of the market first established, whatever timeouts,  *)
(* recoveries and reconnections happened since; that market never changes. *)
(***************************************************************************)
ConflictNeedsProof ==
    [][\A i \in Instruments :
         /\ slot[i].conflict /\ ~slot'[i].conflict =>
              Intact(slot'[i]) /\ slot'[i].sources = {slot[i].known}
         /\ slot[i].known # NoMarket => slot'[i].known = slot[i].known]_vars

(***************************************************************************)
(* A consumer that cached metadata under (generation, metadata_revision)   *)
(* can trust an equal pair: the pair never goes back, although the counter *)
(* restarts with each connection attempt.                                  *)
(***************************************************************************)
MetadataIsMonotone ==
    [][\A i \in Instruments :
         \/ generation' > generation
         \/ generation' = generation /\ slot'[i].rev >= slot[i].rev]_vars

(***************************************************************************)
(* Depth is not applied over a hole: while a Kalshi connection lives, the  *)
(* cursor moves by one once it has started, and no book gains a snapshot   *)
(* or evidence without it moving.                                          *)
(***************************************************************************)
DepthIsContiguous ==
    [][Kalshi /\ conn = "connected" /\ conn' = "connected" =>
         /\ cursor # 0 => cursor' \in {cursor, cursor + 1}
         /\ cursor' = cursor => \A i \in Instruments :
               (slot'[i].snap => slot[i].snap) /\ slot'[i].sources \subseteq slot[i].sources]_vars

-----------------------------------------------------------------------------
(* The contract, and the state of the feed as its callers see it.           *)

StatusOf(i) ==
    IF Settled(slot[i]) THEN "settled" ELSE IF Usable(i) THEN "usable" ELSE "dark"

Contract == INSTANCE BookContract WITH
    status  <- [i \in Instruments |-> StatusOf(i)],
    market  <- [i \in Instruments |-> slot[i].known],
    content <- [i \in Instruments |-> IF Usable(i) THEN slot[i].sources ELSE {}]

\* The feed, with all its tasks, is an implementation of the contract.
KeepsContract == Contract!Spec

-----------------------------------------------------------------------------
(***************************************************************************)
(* Fairness.  The event loop runs a coroutine whose await is over; every   *)
(* await of the feed ends: sleeps and deadlines because time passes,       *)
(* connects, requests, probes and teardown because they are bounded by a   *)
(* timeout.  Whether frames come, and which, is up to the venue.           *)
(***************************************************************************)
Fairness ==
    /\ WF_vars(OpenSession)
    /\ WF_vars(Connected \/ Subscribed \/ ConnectFails)
    /\ WF_vars(Cancelled)
    /\ WF_vars(LoopStops)
    /\ WF_vars(TearDown)
    /\ WF_vars(StayClosed)
    /\ WF_vars(RecoverPass)
    /\ WF_vars(RecoverSent \/ RecoverFails)
    /\ WF_vars(SnapshotTimeout)
    /\ \A i \in Instruments : WF_vars(DeadlinePasses(i))

FairSpec == Spec /\ Fairness

\* A venue that answers requests: a valid snapshot of the market comes again and again
\* to an instrument that waits for one.
Answer(i) ==
    /\ slot[i].phase = "waiting"
    /\ \E m \in FrameMarkets \ {NoMarket} :
          /\ slot[i].known \in {m, NoMarket}
          /\ SnapshotFrame(i, m, {})

AnsweringSpec == FairSpec /\ \A i \in Instruments : SF_vars(Answer(i))

\* A dropped connection is always replaced, until the feed is closed.
Reopens ==
    restart /\ session # "new" /\ generation < MaxGeneration ~> closed \/ ~restart

\* close() completes: every task of the shard ends.
CloseCompletes ==
    closed ~> session \in {"new", "ended"} /\ recoverer = "none" /\ prober = "none"

(***************************************************************************)
(* No book stays unavailable without an attempt: an instrument of a live   *)
(* connection becomes usable, resolves, is part of a snapshot request, or  *)
(* loses the connection.                                                   *)
(***************************************************************************)
DarkBookIsRequested ==
    \A i \in Instruments :
        conn = "connected" /\ ~SlotUsable(slot[i])
            ~> SlotUsable(slot[i]) \/ Settled(slot[i]) \/ restart
               \/ slot[i].phase = "sending"

\* With a venue that answers, a requested book is repaired.
RequestedBookRecovers ==
    \A i \in Instruments :
        slot[i].phase = "sending"
            ~> SlotUsable(slot[i]) \/ Settled(slot[i]) \/ restart

=============================================================================
