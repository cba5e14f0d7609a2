----------------------------- MODULE RawCapture -----------------------------
(***************************************************************************)
(* A capture_raw_ws session: the transport task, which owns the connection *)
(* and its reconnections; the tick task, which watches the disk and seals  *)
(* chunks; the connection's callback that records control frames; and the  *)
(* main coroutine, which waits for the deadline, a signal or a failure,    *)
(* cancels the tasks and writes FINAL.json.  They share one writer and run *)
(* on one event loop: an action is what one of them does between awaits.   *)
(* A crash of the process may cut a seal short.                            *)
(***************************************************************************)
EXTENDS ChunkWriter, FiniteSets

CONSTANTS
    Venue,           \* "polymarket" or "kalshi"
    MaxGeneration,   \* bound on the connection attempts explored
    MaxFrames        \* bound on the frames stored for what comes from outside

ASSUME CaptureAssumption ==
    /\ Venue \in {"polymarket", "kalshi"}
    /\ Instruments # {}
    /\ MaxGeneration \in Nat /\ MaxFrames \in Nat

VARIABLES
    run,     \* the main coroutine: running, closing (it cancelled the tasks),
             \* final (FINAL.json is written), failed (it could not be), crashed
    over,    \* the deadline has passed
    stop,    \* the stop event
    reason,  \* why the run closes: deadline, signal, partial, partial_seal
    line,    \* the transport task: attempt, connect, subscribe, open, failed (the
             \* receiver raised, unseen yet), unwind (an error ends the connection),
             \* leave, backoff, done, raised
    ticker,  \* the tick task: sleep, sync (awaits fsync), done, raised
    gen,     \* tracker.generation
    books,   \* tracker.books
    force,   \* the force event
    w,       \* the writer, with the files of the session
    final    \* FINAL.json

vars == <<run, over, stop, reason, line, ticker, gen, books, force, w, final>>
outside == <<over, stop>>
main == <<run, reason, final>>

NoFinal == [partial |-> TRUE, count |-> 0, chunk |-> 0]

\* The startup check may find the disk full before anything is stored.
Init ==
    /\ run = "running" /\ over = FALSE /\ stop = FALSE /\ reason = "deadline"
    /\ line = "attempt" /\ ticker = "sleep"
    /\ gen = 0 /\ books = {} /\ force = FALSE
    /\ w \in {NewWriter, Pause(NewWriter)}
    /\ final = NoFinal

Running == run = "running"
Room == Len(w.log) < MaxFrames
Ending == stop \/ over

-----------------------------------------------------------------------------
(* transport                                                                *)

\* The loop's test, and a new generation.
Attempt ==
    /\ Running /\ line = "attempt"
    /\ \/ Ending /\ line' = "done" /\ UNCHANGED <<gen, books, force>>
       \/ /\ ~Ending /\ gen < MaxGeneration
          /\ line' = "connect"
          /\ gen' = gen + 1 /\ books' = {} /\ force' = FALSE
    /\ UNCHANGED <<main, outside, ticker, w>>

ConnectUp ==
    /\ Running /\ line = "connect"
    /\ line' = "subscribe"
    /\ UNCHANGED <<main, outside, ticker, gen, books, force, w>>

\* state(): READY.json and live_state.json.
StateFiles(v) == {Ok(v)} \cup Faulty(v, {OsError(v)})

\* What follows a step, unless it raised: the state files, or another envelope.
ThenState(outcomes) ==
    UNION {IF r.raised = "no" THEN StateFiles(r.w) ELSE {r} : r \in outcomes}
ThenWrite(outcomes, f) ==
    UNION {IF r.raised = "no" THEN Write(r.w, f) ELSE {r} : r \in outcomes}

\* An exception left the connection: on_error, and the state files unless the run ends.
\* A storage that refuses either ends the task.
OnError ==
    /\ \E r \in LET written == Write(w, Envelope("transport_error", gen, {}))
                IN  IF Ending THEN written ELSE ThenState(written) :
          /\ w' = r.w
          /\ line' = IF r.raised # "no" THEN "raised"
                     ELSE IF Ending THEN "done" ELSE "backoff"
    /\ books' = {}
    /\ UNCHANGED <<main, outside, ticker, gen, force>>

ConnectFails == Running /\ line = "connect" /\ OnError

\* The subscriptions are sent and recorded, and the state files written.
Subscribe ==
    /\ Running /\ line = "subscribe"
    /\ \E r \in ThenState(Write(w, Envelope("sent", gen, {}))) :
          /\ w' = r.w
          /\ line' = IF r.raised = "no" THEN "open" ELSE "unwind"
    /\ UNCHANGED <<main, outside, ticker, gen, books, force>>

\* A message is recorded, then looked at.
Receive(b) ==
    /\ Running /\ line = "open" /\ Room
    /\ \E r \in Write(w, Envelope("received", gen, b)) :
          /\ w' = r.w
          /\ IF r.raised = "no" THEN books' = books \cup b /\ UNCHANGED line
                                ELSE line' = "failed" /\ UNCHANGED books
    /\ UNCHANGED <<main, outside, ticker, gen, force>>

\* A message after a hole in the sequence is followed by a seq_gap.  The
\* connection is given up, unless that was done too short a time ago.
ReceiveJump ==
    /\ Venue = "kalshi"
    /\ Running /\ line = "open" /\ Room
    /\ \E r \in ThenWrite(Write(w, Envelope("jump", gen, {})), Envelope("seq_gap", gen, {})) :
          /\ w' = r.w
          /\ line' \in IF r.raised = "no" THEN {"open", "failed"} ELSE {"failed"}
    /\ UNCHANGED <<main, outside, ticker, gen, books, force>>

\* A ping of the supervisor, perhaps after the receiver failed, or the receiver's pong.
SendPing ==
    /\ Venue = "polymarket"
    /\ Running /\ line \in {"open", "failed"} /\ Room
    /\ \E r \in Write(w, Envelope("sent", gen, {})) :
          /\ w' = r.w
          /\ line' \in IF r.raised = "no" THEN {line} ELSE {"failed", "unwind"}
    /\ UNCHANGED <<main, outside, ticker, gen, books, force>>

\* The phases in which the socket is up.
Up == {"subscribe", "open", "failed", "unwind", "leave"}

\* ObservedConnection.process_event: until the socket is closed, also while the
\* session closes.  A storage error stops the run, any other breaks the connection.
ControlFrame ==
    /\ run \in {"running", "closing"} /\ Room
    /\ line \in Up
    /\ \E r \in Write(w, Envelope("control", gen, {})) :
          /\ w' = r.w
          /\ stop' = (stop \/ r.raised = "OSError")
          /\ line' = IF r.raised = "other" /\ Running /\ line # "leave" THEN "unwind" ELSE line
    /\ UNCHANGED <<main, over, ticker, gen, books, force>>

\* A fault: nothing looks at the force event.
SuperviseUnforced ==
    /\ Running /\ line = "open"
    /\ Ending /\ line' = "leave"
    /\ UNCHANGED <<main, outside, ticker, gen, books, force, w>>

\* The supervising loop: its test, and the end of a disk pause.
Supervise ==
    /\ Running /\ line = "open"
    /\ \/ Ending /\ line' = "leave"
       \/ force /\ line' = "unwind"
    /\ UNCHANGED <<main, outside, ticker, gen, books, force, w>>

\* The connection is lost, silent for too long, or refuses a message.
ConnectionFails ==
    /\ Running
    /\ \/ line \in {"subscribe", "open"} /\ line' = "unwind"
       \/ line = "open" /\ line' = "failed"
    /\ UNCHANGED <<main, outside, ticker, gen, books, force, w>>

\* The supervising loop sees that the receiver failed, unless the run ends first.
ReceiverFailed ==
    /\ Running /\ line = "failed"
    /\ \/ Ending /\ line' = "leave"
       \/ line' = "unwind"
    /\ UNCHANGED <<main, outside, ticker, gen, books, force, w>>

Unwound == Running /\ line = "unwind" /\ OnError

Left ==
    /\ Running /\ line = "leave"
    /\ line' = "done" /\ books' = {}
    /\ UNCHANGED <<main, outside, ticker, gen, force, w>>

BackoffEnds ==
    /\ Running /\ line = "backoff"
    /\ line' = "attempt"
    /\ UNCHANGED <<main, outside, ticker, gen, books, force, w>>

Transport ==
    \/ Attempt \/ ConnectUp \/ ConnectFails \/ Subscribe
    \/ \E b \in {{}} \cup {{i} : i \in Instruments} : Receive(b)
    \/ ReceiveJump \/ SendPing \/ ControlFrame \/ Supervise \/ ConnectionFails
    \/ ReceiverFailed \/ Unwound \/ Left \/ BackoffEnds

-----------------------------------------------------------------------------
(* tick                                                                     *)

\* A fault: the end of a pause does not ask for a new connection.
DiskCheckedUnforced(v) ==
    {[r |-> Ok(v), forced |-> FALSE]} \cup
    (IF v.paused
     THEN {[r |-> r, forced |-> FALSE] : r \in Resume(v, gen)}
     ELSE {[r |-> [r EXCEPT !.w = IF r.raised = "no" THEN Pause(@) ELSE @],
            forced |-> FALSE] : r \in Flush(v)})

\* check_disk: the disk is as it was, has filled up, or has space again.  A pause is
\* explored while there is room for the envelope that ends it.
DiskChecked(v) ==
    {[r |-> Ok(v), forced |-> FALSE]} \cup
    (IF v.paused
     THEN {[r |-> r, forced |-> r.raised = "no"] : r \in Resume(v, gen)}
     ELSE IF Len(v.log) < MaxFrames
          THEN {[r |-> [r EXCEPT !.w = IF r.raised = "no" THEN Pause(@) ELSE @],
                 forced |-> FALSE] : r \in Flush(v)}
          ELSE {})

\* A chunk that is old enough is sealed.
ThenRotate(r) == {r} \cup IF r.raised = "no" THEN Seal(r.w) ELSE {}

\* Check the disk; seal the chunk if it is old enough; write the state files.
TickWork(v) ==
    \E c \in DiskChecked(v) :
        /\ force' = (force \/ c.forced)
        /\ \E r \in ThenState(ThenRotate(c.r)) :
              /\ w' = r.w
              /\ ticker' = IF r.raised # "no" THEN "raised"
                           ELSE IF Ending THEN "done" ELSE "sleep"

\* The tick flushes the chunk, and now and then awaits its fsync.
TickWakes ==
    /\ Running /\ ticker = "sleep"
    /\ \E r \in Flush(w) :
          IF r.raised # "no"
          THEN w' = r.w /\ ticker' = "raised" /\ UNCHANGED force
          ELSE \/ TickWork(r.w)
               \/ w.chunk # "none" /\ w' = r.w /\ ticker' = "sync" /\ UNCHANGED force
    /\ UNCHANGED <<main, outside, line, gen, books>>

TickSynced ==
    /\ Running /\ ticker = "sync"
    /\ TickWork(w)
    /\ UNCHANGED <<main, outside, line, gen, books>>

-----------------------------------------------------------------------------
(* The main coroutine.                                                      *)

TaskRaised == line = "raised" \/ ticker = "raised"
TaskDone == TaskRaised \/ line = "done" \/ ticker = "done" \/ stop

\* A fault: the main coroutine waits for all its tasks, not for the first.
MainWakesLast ==
    /\ Running /\ TaskDone /\ stop /\ line = "done" /\ ticker = "done"
    /\ run' = "closing"
    /\ reason' = "signal"
    /\ UNCHANGED <<outside, final, line, ticker, gen, books, force, w>>

\* A task is done, the stop event is set or time is over: why, and cancel the tasks.  A
\* connection that is up still has its closing handshake to do.
MainWakes ==
    /\ Running /\ (TaskDone \/ over)
    /\ run' = "closing"
    /\ reason' = IF TaskRaised THEN "partial" ELSE IF stop THEN "signal" ELSE "deadline"
    /\ ticker' = "done"
    /\ line' = IF line \in Up THEN line ELSE "done"
    /\ UNCHANGED <<outside, final, gen, books, force, w>>

Closed ==
    /\ run = "closing" /\ line # "done"
    /\ line' = "done"
    /\ UNCHANGED <<main, outside, ticker, gen, books, force, w>>

\* A run that ends on a failure keeps its .part as incomplete evidence.
KeepPart ==
    {[w |-> IF w.chunk = "open" THEN Broken(w) ELSE w, why |-> y] :
        y \in {"partial"} \cup (IF w.chunk \in {"open", "broken"} THEN {"partial_seal"} ELSE {})}

\* A fault: a seal that fails at the end is not reported.
EndsQuietly ==
    IF reason = "partial" THEN KeepPart
    ELSE {[w |-> r.w, why |-> reason] : r \in Seal([w EXCEPT !.paused = FALSE])}

\* What the end of the run leaves: the writer, and the reason FINAL.json gives.
Ends ==
    IF reason = "partial" THEN KeepPart
    ELSE {[w |-> r.w, why |-> IF r.raised = "OSError" THEN "partial_seal" ELSE reason] :
             r \in Seal([w EXCEPT !.paused = FALSE])}

Finish ==
    /\ run = "closing" /\ line = "done"
    /\ \E e \in Ends : \E r \in StateFiles(e.w) :
          /\ w' = r.w
          /\ reason' = e.why
          /\ IF r.raised = "no"
             THEN /\ run' = "final"
                  /\ final' = [partial |-> e.why # "deadline", count |-> r.w.sealed,
                               chunk |-> r.w.previous]
             ELSE run' = "failed" /\ UNCHANGED final
    /\ books' = {}
    /\ UNCHANGED <<outside, line, ticker, gen, force>>

-----------------------------------------------------------------------------
(* The world.                                                               *)

Deadline == Running /\ ~over /\ over' = TRUE
            /\ UNCHANGED <<main, stop, line, ticker, gen, books, force, w>>

Signal == Running /\ ~stop /\ stop' = TRUE
          /\ UNCHANGED <<main, over, line, ticker, gen, books, force, w>>

\* A seal may be under way: of a tick, or at the end.
Sealing ==
    \/ Running /\ ticker \in {"sleep", "sync"}
    \/ run = "closing" /\ line = "done" /\ reason # "partial"

\* The files a seal leaves that does not come to its end.
Stages ==
    CASE w.chunk # "open" -> {w}
      [] w.chunk = "open" /\ NothingStored(w) -> {w, Renamed(w)}
      [] OTHER -> CutShort(w) \ {Tear(w)}

\* The process dies, perhaps inside a seal; the files, as the kernel has them, stay.
Crash ==
    /\ run \in {"running", "closing"}
    /\ run' = "crashed"
    /\ \E v \in IF Sealing THEN Stages ELSE {w} :
          w' = [NewWriter EXCEPT !.files = v.files, !.log = v.log]
    /\ line' = "done" /\ ticker' = "done" /\ books' = {} /\ force' = FALSE
    /\ UNCHANGED <<outside, reason, final, gen>>

Ended == run \in {"final", "failed", "crashed"}

Next ==
    \/ Transport \/ TickWakes \/ TickSynced \/ MainWakes \/ Closed \/ Finish
    \/ Deadline \/ Signal \/ Crash
    \/ Ended /\ UNCHANGED vars

Spec == Init /\ [][Next]_vars

-----------------------------------------------------------------------------
(* What must hold.                                                          *)

\* Every variable has its type.
TypeOK ==
    /\ run \in {"running", "closing", "final", "failed", "crashed"}
    /\ over \in BOOLEAN /\ stop \in BOOLEAN
    /\ reason \in {"deadline", "signal", "partial", "partial_seal"}
    /\ line \in {"attempt", "connect", "subscribe", "open", "failed", "unwind", "leave",
                 "backoff", "done", "raised"}
    /\ ticker \in {"sleep", "sync", "done", "raised"}
    /\ gen \in Nat /\ books \subseteq Instruments /\ force \in BOOLEAN
    /\ w \in Writer
    /\ final \in [partial : BOOLEAN, count : Nat, chunk : Nat]

Pairs == PairsOf(w)

(***************************************************************************)
(* Whatever failed or crashed, a manifest names a chunk that is there and  *)
(* complete, and the pairs are one chain: each holds the frames that       *)
(* follow those of the pair it names as its predecessor.                   *)
(***************************************************************************)
ChainHolds ==
    \A k \in Pairs :
        LET f == w.files[k]
        IN  /\ f.name = "chunk"
            /\ f.first <= f.last + 1 /\ f.last <= Len(w.log)
            /\ IF f.prev = 0 THEN f.first = 1 /\ \A j \in Pairs : j >= k
               ELSE /\ f.prev \in Pairs /\ f.prev < k
                    /\ f.first = w.files[f.prev].last + 1

InPairs == UNION {w.files[k].first .. w.files[k].last : k \in Pairs}

IsReceived(k) == w.log[k].kind \in {"received", "jump"}

\* An envelope from j up to k tells of a loss.
Marked(j, k, kinds) == \E i \in j .. k : w.log[i].kind \in kinds

(***************************************************************************)
(* Published data shows where it is incomplete: no message of the venue    *)
(* follows frames that a pause dropped, a write that failed or a hole in   *)
(* the sequence without an envelope in between that says so.               *)
(***************************************************************************)
LossIsMarked ==
    \A k \in InPairs :
        /\ "dropped" \in w.log[k].lost => w.log[k].kind = "disk_pause_gap"
        /\ IsReceived(k) => \A j \in 1 .. k :
              /\ "other" \in w.log[j].lost =>
                    Marked(j, k, {"transport_error", "disk_pause_gap"})
              /\ j < k /\ w.log[j].kind = "jump" =>
                    Marked(j + 1, k, {"seq_gap", "transport_error", "disk_pause_gap"})

(***************************************************************************)
(* A book counted for readiness is on disk: while frames of a connection   *)
(* are recorded and no new one is asked for, the initial book of every     *)
(* instrument counted was stored in this generation, and nothing of the    *)
(* generation was dropped by a pause.                                      *)
(***************************************************************************)
ReadyIsBacked ==
    Running /\ line = "open" /\ ticker # "raised" /\ ~force /\ ~w.paused =>
        /\ \A i \in books : \E k \in DOMAIN w.log :
              w.log[k].gen = gen /\ i \in w.log[k].books
        /\ \A k \in DOMAIN w.log :
              w.log[k].gen = gen => w.log[k].kind # "disk_pause_gap"

(***************************************************************************)
(* A FINAL.json that is not partial has every stored frame in a pair, and  *)
(* counts the pairs and names the last one.                                *)
(***************************************************************************)
FinalIsHonest ==
    run = "final" /\ ~final.partial =>
        /\ InPairs = DOMAIN w.log
        /\ final.count = Cardinality(Pairs)
        /\ Pairs # {} => final.chunk \in Pairs /\ \A k \in Pairs : k <= final.chunk

(***************************************************************************)
(* What the contract says of a pair: the chunk holds the frames that its   *)
(* manifest counts, so none of its compressed bytes were lost.             *)
(***************************************************************************)
PairsAreReadable == \A k \in Pairs : ~w.files[k].torn

(***************************************************************************)
(* What the contract says of the reasons of FINAL.json: a storage error of *)
(* a control frame is one of them, and only a run without is not partial.  *)
(***************************************************************************)
ControlLoss ==
    "control" \in w.lost \/ \E k \in DOMAIN w.log : "control" \in w.log[k].lost

ControlErrorIsReported == run = "final" /\ ControlLoss => final.partial

-----------------------------------------------------------------------------
(***************************************************************************)
(* Fairness: sleeps, timeouts and the closing handshake end, and the event *)
(* loop runs what is ready.  The venue, the disk and signals owe nothing.  *)
(***************************************************************************)
Fairness ==
    /\ WF_vars(Attempt) /\ WF_vars(ConnectUp \/ ConnectFails)
    /\ WF_vars(Subscribe) /\ WF_vars(Supervise)
    /\ WF_vars(ReceiverFailed) /\ WF_vars(Unwound) /\ WF_vars(Left) /\ WF_vars(BackoffEnds)
    /\ WF_vars(TickWakes) /\ WF_vars(TickSynced)
    /\ WF_vars(MainWakes) /\ WF_vars(Closed) /\ WF_vars(Finish)

FairSpec == Spec /\ Fairness

\* A run that is told to end ends, whatever its tasks are doing.
RunEnds == Ending ~> Ended

(***************************************************************************)
(* After a pause of the disk the venue is asked for fresh baselines: a new *)
(* generation begins, unless the run ends.                                 *)
(***************************************************************************)
PauseIsHealed == force /\ gen < MaxGeneration ~> ~force \/ ~Running

=============================================================================
