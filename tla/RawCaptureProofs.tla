-------------------------- MODULE RawCaptureProofs --------------------------
(***************************************************************************)
(* Proofs about a capture session.  The writer knows the end of the chain  *)
(* of pairs as long as no seal failed; a seal that failed stops the tick   *)
(* task, the session then ends as partial, and nothing more is published.  *)
(***************************************************************************)
EXTENDS RawCapture, ChunkWriterProofs

\* The writer is in order while the session lives, and a broken one is known to be.
WriterInv ==
    /\ Linked(w)
    /\ run \in {"running", "closing"} => WInv(w)
    /\ run = "running" /\ w.chunk = "broken" => ticker = "raised"
    /\ run = "closing" /\ w.chunk = "broken" => reason = "partial"
    /\ run = "closing" => reason \in {"deadline", "signal", "partial"}

IInv == TypeOK /\ WriterInv /\ FinalIsHonest

-----------------------------------------------------------------------------
(* The steps that steps are made of.                                        *)

\* A new writer is in order.
LEMMA NewWriterSafe == WInv(NewWriter) /\ NewWriter.chunk = "none"
<1>1. NewWriter \in Writer
  <2>1. <<>> \in Seq(Frame) /\ <<>> \in Seq(File)
    OBVIOUS
  <2> QED  BY <2>1 DEF NewWriter, Writer
<1>2. PairsOf(NewWriter) = {}
  BY DEF NewWriter, PairsOf
<1>3. Covered(NewWriter) = 0 /\ Len(NewWriter.log) = 0
  BY DEF Covered, NewWriter
<1>4. HeldPairs(NewWriter)
  <2>1. NewWriter.previous = 0 /\ NewWriter.sealed = 0
    BY DEF NewWriter
  <2> QED  BY <1>2, <1>3, <2>1, FS_EmptySet DEF HeldPairs
<1>5. NewWriter.chunk = "none"
  BY DEF NewWriter
<1> QED  BY <1>1, <1>2, <1>3, <1>4, <1>5 DEF WInv, Linked, HeldChunk

\* An envelope of this session.
LEMMA EnvelopeType ==
    ASSUME NEW k \in Kinds, NEW g \in Nat, NEW b \in SUBSET Instruments
    PROVE  Envelope(k, g, b) \in Frame
  BY DEF Envelope, Frame

\* The state files are no business of the writer.
LEMMA StateFilesSafe ==
    ASSUME NEW v, WInv(v), NEW r \in StateFiles(v)
    PROVE  Safe(r) /\ BrokenAlike(r, v) /\ (r.raised = "no" => r.w = v)
<1>1. v \in Writer
  BY DEF WInv
<1> DEFINE S == {OsError(v)}
<1>2. \A q \in S : Safe(q) /\ BrokenAlike(q, v) /\ q.raised = "OSError"
  BY <1>1, OutcomeFields DEF Safe, BrokenAlike
<1>3. CASE r = Ok(v)
  BY <1>1, <1>3, OutcomeFields DEF Safe, BrokenAlike
<1>4. CASE r \in Faulty(v, S)
  <2>1. \A q \in S : q \in Outcome
    BY <1>2 DEF Safe
  <2> HIDE DEF S
  <2>2. Safe(r) /\ BrokenAlike(r, v)
    BY <1>2, <1>4, FaultySafe
  <2>3. r.raised = "OSError"
    BY <1>1, <1>2, <1>4, <2>1, FaultyAlike
  <2> QED  BY <2>2, <2>3
<1> QED  BY <1>3, <1>4 DEF StateFiles

\* Safe outcomes followed by the state files, or by another envelope, are safe.
LEMMA ThenStateSafe ==
    ASSUME NEW v, NEW S, \A q \in S : Safe(q) /\ BrokenAlike(q, v),
           NEW r \in ThenState(S)
    PROVE  Safe(r) /\ BrokenAlike(r, v)
<1>1. PICK q \in S : r \in IF q.raised = "no" THEN StateFiles(q.w) ELSE {q}
  BY DEF ThenState
<1>2. CASE q.raised = "no"
  <2>1. WInv(q.w) /\ r \in StateFiles(q.w)
    BY <1>1, <1>2 DEF Safe
  <2> QED  BY <2>1, StateFilesSafe DEF BrokenAlike
<1>3. CASE q.raised # "no"
  BY <1>1, <1>3
<1> QED  BY <1>2, <1>3

LEMMA ThenWriteSafe ==
    ASSUME NEW v, NEW S, \A q \in S : Safe(q) /\ BrokenAlike(q, v), NEW f \in Frame,
           NEW r \in ThenWrite(S, f)
    PROVE  Safe(r) /\ BrokenAlike(r, v)
<1>1. PICK q \in S : r \in IF q.raised = "no" THEN Write(q.w, f) ELSE {q}
  BY DEF ThenWrite
<1>2. CASE q.raised = "no"
  <2>1. WInv(q.w) /\ r \in Write(q.w, f)
    BY <1>1, <1>2 DEF Safe
  <2> QED  BY <2>1, WriteSafe DEF BrokenAlike
<1>3. CASE q.raised # "no"
  BY <1>1, <1>3
<1> QED  BY <1>2, <1>3

\* check_disk, on a writer that is not broken, leaves it so.
LEMMA DiskCheckedSafe ==
    ASSUME NEW v, WInv(v), v.chunk # "broken", gen \in Nat, NEW c \in DiskChecked(v)
    PROVE  Safe(c.r) /\ c.r.w.chunk # "broken" /\ c.forced \in BOOLEAN
<1>1. v \in Writer
  BY DEF WInv
<1>2. CASE c = [r |-> Ok(v), forced |-> FALSE]
  BY <1>1, <1>2, OutcomeFields DEF Safe
<1>3. ASSUME v.paused, NEW r \in Resume(v, gen), c = [r |-> r, forced |-> r.raised = "no"]
      PROVE  Safe(c.r) /\ c.r.w.chunk # "broken" /\ c.forced \in BOOLEAN
  BY <1>3, ResumeSafe DEF BrokenAlike
<1>4. ASSUME NEW r \in Flush(v),
             c = [r |-> [r EXCEPT !.w = IF r.raised = "no" THEN Pause(@) ELSE @],
                  forced |-> FALSE]
      PROVE  Safe(c.r) /\ c.r.w.chunk # "broken" /\ c.forced \in BOOLEAN
  <2>1. Safe(r) /\ r.w.chunk # "broken" /\ r \in Outcome /\ r.w \in Writer /\ WInv(r.w)
    BY <1>4, FlushSafe DEF BrokenAlike, Safe, WInv
  <2>2. Pause(r.w) \in Writer /\ Kept(Pause(r.w), r.w)
    BY <2>1, PauseKept DEF Pause
  <2>3. WInv(Pause(r.w)) /\ Pause(r.w).chunk # "broken"
    BY <2>1, <2>2, KeptHolds DEF Kept
  <2>4. c.forced = FALSE /\ c.r = [r EXCEPT !.w = IF r.raised = "no" THEN Pause(@) ELSE @]
    BY <1>4
  <2>5. c.r \in Outcome /\ (c.r.w = r.w \/ c.r.w = Pause(r.w))
    BY <2>1, <2>2, <2>4 DEF Outcome
  <2> QED  BY <2>1, <2>3, <2>4, <2>5 DEF Safe
<1> QED  BY <1>2, <1>3, <1>4 DEF DiskChecked

\* The work of a tick leaves the writer in order, or ends the tick task.
LEMMA TickWorkSafe ==
    ASSUME NEW v, WInv(v), v.chunk # "broken", gen \in Nat, TickWork(v)
    PROVE  /\ WInv(w') /\ (w'.chunk = "broken" => ticker' = "raised")
           /\ ticker' \in {"raised", "done", "sleep"}
           /\ \E b \in BOOLEAN : force' = (force \/ b)
<1>0. PICK c \in DiskChecked(v) :
          /\ force' = (force \/ c.forced)
          /\ \E r \in ThenState(ThenRotate(c.r)) :
                /\ w' = r.w
                /\ ticker' = IF r.raised # "no" THEN "raised"
                             ELSE IF Ending THEN "done" ELSE "sleep"
  BY DEF TickWork
<1>1. PICK r \in ThenState(ThenRotate(c.r)) :
          /\ w' = r.w
          /\ ticker' = IF r.raised # "no" THEN "raised"
                       ELSE IF Ending THEN "done" ELSE "sleep"
  BY <1>0
<1>2. Safe(c.r) /\ c.r.w.chunk # "broken" /\ c.forced \in BOOLEAN
  BY DiskCheckedSafe
<1>3. ASSUME NEW q \in ThenRotate(c.r)
      PROVE  Safe(q) /\ (q.raised = "no" => q.w.chunk # "broken")
  <2>1. CASE q = c.r
    BY <1>2, <2>1
  <2>2. CASE c.r.raised = "no" /\ q \in Seal(c.r.w)
    <3>1. WInv(c.r.w)
      BY <1>2 DEF Safe
    <3> QED  BY <2>2, <3>1, SealSafe DEF SealedWell
  <2> QED  BY <2>1, <2>2 DEF ThenRotate
<1>4. PICK q \in ThenRotate(c.r) : r \in IF q.raised = "no" THEN StateFiles(q.w) ELSE {q}
  BY DEF ThenState
<1>5. CASE q.raised = "no"
  <2>1. r \in StateFiles(q.w) /\ WInv(q.w) /\ q.w.chunk # "broken"
    BY <1>3, <1>4, <1>5 DEF Safe
  <2>2. Safe(r) /\ r.w.chunk # "broken"
    BY <2>1, StateFilesSafe DEF BrokenAlike
  <2> QED  BY <1>0, <1>1, <1>2, <2>2 DEF Safe
<1>6. CASE q.raised # "no"
  <2>1. Safe(r) /\ r.raised # "no"
    BY <1>3, <1>4, <1>6
  <2> QED  BY <1>0, <1>1, <1>2, <2>1 DEF Safe
<1> QED  BY <1>5, <1>6

-----------------------------------------------------------------------------
(* The steps of the session.                                                *)

\* FINAL.json is honest once and for all.
LEMMA FinalStays ==
    ASSUME FinalIsHonest, run # "final" => run' # "final",
           run = "final" => UNCHANGED <<final, w>>
    PROVE  FinalIsHonest'
  BY DEF FinalIsHonest, InPairs, Pairs

\* A step of a living session that changes the writer, and leaves run, reason and the
\* tick task alone.
LEMMA WriterStep ==
    ASSUME IInv, run \in {"running", "closing"}, UNCHANGED <<run, reason, ticker, final>>,
           NEW r, Safe(r), BrokenAlike(r, w), w' = r.w
    PROVE  w' \in Writer /\ WriterInv' /\ FinalIsHonest'
<1>1. WInv(w') /\ (w'.chunk = "broken" <=> w.chunk = "broken")
  BY DEF Safe, BrokenAlike
<1>2. WriterInv'
  BY <1>1 DEF IInv, WriterInv, WInv
<1>3. FinalIsHonest'
  BY FinalStays DEF IInv
<1> QED  BY <1>1, <1>2, <1>3 DEF WInv

\* A step that leaves the writer alone, and with it run, reason and the tick task.
LEMMA QuietStep ==
    ASSUME IInv, UNCHANGED <<run, reason, ticker, final, w>>
    PROVE  WriterInv' /\ FinalIsHonest'
  BY DEF IInv, WriterInv, FinalIsHonest, InPairs, Pairs

\* on_error
LEMMA OnErrorStep ==
    ASSUME IInv, Running, OnError
    PROVE  IInv'
<1>1. gen \in Nat /\ WInv(w)
  BY DEF IInv, TypeOK, WriterInv, Running
<1> DEFINE W == Write(w, Envelope("transport_error", gen, {}))
<1>2. Envelope("transport_error", gen, {}) \in Frame
  BY <1>1, EnvelopeType DEF Kinds
<1>3. \A q \in W : Safe(q) /\ BrokenAlike(q, w)
  BY <1>1, <1>2, WriteSafe
<1> HIDE DEF W
<1>4. \A q \in ThenState(W) : Safe(q) /\ BrokenAlike(q, w)
  BY <1>3, ThenStateSafe
<1>5. PICK r \in IF Ending THEN W ELSE ThenState(W) :
          /\ w' = r.w
          /\ line' = IF r.raised # "no" THEN "raised"
                     ELSE IF Ending THEN "done" ELSE "backoff"
  BY DEF OnError, W
<1>6. Safe(r) /\ BrokenAlike(r, w)
  BY <1>3, <1>4, <1>5
<1>7. w' \in Writer /\ WriterInv' /\ FinalIsHonest'
  BY <1>5, <1>6, WriterStep DEF OnError, Running, main
<1>8. TypeOK'
  BY <1>5, <1>7 DEF IInv, TypeOK, OnError, main, outside
<1> QED  BY <1>7, <1>8 DEF IInv

\* The subscriptions
LEMMA SubscribeStep ==
    ASSUME IInv, Subscribe
    PROVE  IInv'
<1>1. gen \in Nat /\ WInv(w)
  BY DEF IInv, TypeOK, WriterInv, Subscribe, Running
<1> DEFINE W == Write(w, Envelope("sent", gen, {}))
<1>2. Envelope("sent", gen, {}) \in Frame
  BY <1>1, EnvelopeType DEF Kinds
<1>3. \A q \in W : Safe(q) /\ BrokenAlike(q, w)
  BY <1>1, <1>2, WriteSafe
<1> HIDE DEF W
<1>5. PICK r \in ThenState(W) :
          w' = r.w /\ line' = IF r.raised = "no" THEN "open" ELSE "unwind"
  BY DEF Subscribe, W
<1>6. Safe(r) /\ BrokenAlike(r, w)
  BY <1>3, ThenStateSafe
<1>7. w' \in Writer /\ WriterInv' /\ FinalIsHonest'
  BY <1>5, <1>6, WriterStep DEF Subscribe, Running, main
<1>8. TypeOK'
  BY <1>5, <1>7 DEF IInv, TypeOK, Subscribe, main, outside
<1> QED  BY <1>7, <1>8 DEF IInv

\* A message
LEMMA ReceiveStep ==
    ASSUME IInv, NEW b \in SUBSET Instruments, Receive(b)
    PROVE  IInv'
<1>1. gen \in Nat /\ WInv(w)
  BY DEF IInv, TypeOK, WriterInv, Receive, Running
<1>2. Envelope("received", gen, b) \in Frame
  BY <1>1, EnvelopeType DEF Kinds
<1>5. PICK r \in Write(w, Envelope("received", gen, b)) :
          /\ w' = r.w
          /\ IF r.raised = "no" THEN books' = books \cup b /\ UNCHANGED line
                                ELSE line' = "failed" /\ UNCHANGED books
  BY DEF Receive
<1>6. Safe(r) /\ BrokenAlike(r, w)
  BY <1>1, <1>2, WriteSafe
<1>7. w' \in Writer /\ WriterInv' /\ FinalIsHonest'
  BY <1>5, <1>6, WriterStep DEF Receive, Running, main
<1>8. TypeOK'
  BY <1>5, <1>7 DEF IInv, TypeOK, Receive, main, outside
<1> QED  BY <1>7, <1>8 DEF IInv

\* A message after a hole in the sequence
LEMMA ReceiveJumpStep ==
    ASSUME IInv, ReceiveJump
    PROVE  IInv'
<1>1. gen \in Nat /\ WInv(w)
  BY DEF IInv, TypeOK, WriterInv, ReceiveJump, Running
<1> DEFINE W == Write(w, Envelope("jump", gen, {}))
           f == Envelope("seq_gap", gen, {})
<1>2. Envelope("jump", gen, {}) \in Frame /\ f \in Frame
  BY <1>1, EnvelopeType DEF Kinds
<1>3. \A q \in W : Safe(q) /\ BrokenAlike(q, w)
  BY <1>1, <1>2, WriteSafe
<1> HIDE DEF W, f
<1>5. PICK r \in ThenWrite(W, f) :
          /\ w' = r.w
          /\ line' \in IF r.raised = "no" THEN {"open", "failed"} ELSE {"failed"}
  BY DEF ReceiveJump, W, f
<1>6. Safe(r) /\ BrokenAlike(r, w)
  BY <1>2, <1>3, ThenWriteSafe
<1>7. w' \in Writer /\ WriterInv' /\ FinalIsHonest'
  BY <1>5, <1>6, WriterStep DEF ReceiveJump, Running, main
<1>8. TypeOK'
  BY <1>5, <1>7 DEF IInv, TypeOK, ReceiveJump, main, outside
<1> QED  BY <1>7, <1>8 DEF IInv

\* Pings
LEMMA SendPingStep ==
    ASSUME IInv, SendPing
    PROVE  IInv'
<1>1. gen \in Nat /\ WInv(w)
  BY DEF IInv, TypeOK, WriterInv, SendPing, Running
<1>2. Envelope("sent", gen, {}) \in Frame
  BY <1>1, EnvelopeType DEF Kinds
<1>5. PICK r \in Write(w, Envelope("sent", gen, {})) :
          w' = r.w /\ line' \in IF r.raised = "no" THEN {line} ELSE {"failed", "unwind"}
  BY DEF SendPing
<1>6. Safe(r) /\ BrokenAlike(r, w)
  BY <1>1, <1>2, WriteSafe
<1>7. w' \in Writer /\ WriterInv' /\ FinalIsHonest'
  BY <1>5, <1>6, WriterStep DEF SendPing, Running, main
<1>8. TypeOK'
  BY <1>5, <1>7 DEF IInv, TypeOK, SendPing, main, outside
<1> QED  BY <1>7, <1>8 DEF IInv

\* Control frames
LEMMA ControlFrameStep ==
    ASSUME IInv, ControlFrame
    PROVE  IInv'
<1>1. gen \in Nat /\ WInv(w)
  BY DEF IInv, TypeOK, WriterInv, ControlFrame
<1>2. Envelope("control", gen, {}) \in Frame
  BY <1>1, EnvelopeType DEF Kinds
<1>5. PICK r \in Write(w, Envelope("control", gen, {})) :
          /\ w' = r.w
          /\ stop' = (stop \/ r.raised = "OSError")
          /\ line' = IF r.raised = "other" /\ Running /\ line # "leave" THEN "unwind" ELSE line
  BY DEF ControlFrame
<1>6. Safe(r) /\ BrokenAlike(r, w)
  BY <1>1, <1>2, WriteSafe
<1>7. w' \in Writer /\ WriterInv' /\ FinalIsHonest'
  BY <1>5, <1>6, WriterStep DEF ControlFrame, main
<1>8. TypeOK'
  BY <1>5, <1>7 DEF IInv, TypeOK, ControlFrame, main, outside
<1> QED  BY <1>7, <1>8 DEF IInv

\* The transport task
LEMMA TransportStep ==
    ASSUME IInv, Transport
    PROVE  IInv'
<1>1. CASE Attempt
  <2>1. WriterInv' /\ FinalIsHonest'
    BY <1>1, QuietStep DEF Attempt, main
  <2>2. /\ gen' \in Nat /\ books' \subseteq Instruments /\ force' \in BOOLEAN
        /\ line' \in {"done", "connect"}
    <3>1. gen \in Nat /\ gen + 1 \in Nat /\ books \subseteq Instruments /\ force \in BOOLEAN
      BY DEF IInv, TypeOK
    <3> QED  BY <1>1, <3>1 DEF Attempt
  <2>3. UNCHANGED <<run, over, stop, reason, ticker, w, final>>
    BY <1>1 DEF Attempt, main, outside
  <2>4. TypeOK'
    BY <2>2, <2>3 DEF IInv, TypeOK
  <2> QED  BY <2>1, <2>4 DEF IInv
<1>2. CASE ConnectUp \/ Supervise \/ ConnectionFails \/ ReceiverFailed \/ Left \/ BackoffEnds
  <2>1. WriterInv' /\ FinalIsHonest'
    BY <1>2, QuietStep
       DEF ConnectUp, Supervise, ConnectionFails, ReceiverFailed, Left, BackoffEnds, main
  <2>2. TypeOK'
    BY <1>2 DEF IInv, TypeOK, ConnectUp, Supervise, ConnectionFails, ReceiverFailed,
                Left, BackoffEnds, main, outside
  <2> QED  BY <2>1, <2>2 DEF IInv
<1>3. CASE ConnectFails \/ Unwound
  BY <1>3, OnErrorStep DEF ConnectFails, Unwound
<1>4. ASSUME NEW b \in {{}} \cup {{i} : i \in Instruments}, Receive(b)
      PROVE  IInv'
  <2>1. b \in SUBSET Instruments
    OBVIOUS
  <2> QED  BY <1>4, <2>1, ReceiveStep
<1> QED
  BY <1>1, <1>2, <1>3, <1>4, SubscribeStep, ReceiveJumpStep, SendPingStep, ControlFrameStep
     DEF Transport

\* The tick task
LEMMA TickWorked ==
    ASSUME IInv, Running, NEW v, WInv(v), v.chunk # "broken", TickWork(v),
           UNCHANGED <<run, reason, final, over, stop, line, gen, books>>
    PROVE  IInv'
<1>1. gen \in Nat /\ force \in BOOLEAN
  BY DEF IInv, TypeOK
<1>2. /\ WInv(w') /\ (w'.chunk = "broken" => ticker' = "raised")
      /\ ticker' \in {"raised", "done", "sleep"}
      /\ \E b \in BOOLEAN : force' = (force \/ b)
  BY <1>1, TickWorkSafe
<1>3. WriterInv'
  BY <1>2 DEF WriterInv, WInv, Running
<1>4. FinalIsHonest'
  BY FinalStays DEF IInv, Running
<1>5. TypeOK'
  BY <1>1, <1>2 DEF IInv, TypeOK, WInv
<1> QED  BY <1>3, <1>4, <1>5 DEF IInv

LEMMA TickStep ==
    ASSUME IInv, TickWakes \/ TickSynced
    PROVE  IInv'
<1>1. WInv(w) /\ Running
  BY DEF IInv, WriterInv, Running, TickWakes, TickSynced
<1>2. CASE TickSynced
  <2>1. w.chunk # "broken"
    BY <1>1, <1>2 DEF IInv, WriterInv, TickSynced, Running
  <2> QED  BY <1>1, <1>2, <2>1, TickWorked DEF TickSynced, main, outside
<1>3. CASE TickWakes
  <2>1. PICK r \in Flush(w) :
            IF r.raised # "no"
            THEN w' = r.w /\ ticker' = "raised" /\ UNCHANGED force
            ELSE \/ TickWork(r.w)
                 \/ w.chunk # "none" /\ w' = r.w /\ ticker' = "sync" /\ UNCHANGED force
    BY <1>3 DEF TickWakes
  <2>2. UNCHANGED <<run, reason, final, over, stop, line, gen, books>>
    BY <1>3 DEF TickWakes, main, outside
  <2>3. /\ WInv(r.w) /\ (r.w.chunk = "broken" <=> w.chunk = "broken")
        /\ r.raised = "no" => w.chunk # "broken"
    BY <1>1, FlushSafe DEF Safe, BrokenAlike
  <2>4. CASE r.raised = "no" /\ TickWork(r.w)
    BY <1>1, <2>2, <2>3, <2>4, TickWorked
  <2>5. CASE /\ w' = r.w /\ UNCHANGED force
             /\ \/ ticker' = "raised"
                \/ ticker' = "sync" /\ r.w.chunk # "broken"
    <3>1. WriterInv'
      BY <1>1, <2>2, <2>3, <2>5 DEF WriterInv, WInv, Running
    <3>2. FinalIsHonest'
      BY <1>1, <2>2, FinalStays DEF IInv, Running
    <3>3. TypeOK'
      BY <2>2, <2>3, <2>5 DEF IInv, TypeOK, WInv
    <3> QED  BY <3>1, <3>2, <3>3 DEF IInv
  <2>6. CASE r.raised # "no"
    <3>1. w' = r.w /\ ticker' = "raised" /\ UNCHANGED force
      BY <2>1, <2>6
    <3> QED  BY <2>5, <3>1
  <2>7. CASE r.raised = "no"
    <3>1. \/ TickWork(r.w)
          \/ w.chunk # "none" /\ w' = r.w /\ ticker' = "sync" /\ UNCHANGED force
      BY <2>1, <2>7
    <3>2. r.w.chunk # "broken"
      BY <2>3, <2>7
    <3> QED  BY <2>4, <2>5, <2>7, <3>1, <3>2
  <2> QED  BY <2>6, <2>7
<1> QED  BY <1>2, <1>3

\* The main coroutine cancels the tasks: a broken writer shows in the tick task.
LEMMA MainWakesStep ==
    ASSUME IInv, MainWakes
    PROVE  IInv'
<1>1. WriterInv'
  BY DEF IInv, WriterInv, MainWakes, Running, TaskRaised
<1>2. FinalIsHonest'
  BY FinalStays DEF IInv, MainWakes, Running
<1>3. TypeOK'
  BY DEF IInv, TypeOK, MainWakes, outside
<1> QED  BY <1>1, <1>2, <1>3 DEF IInv

\* What the session leaves is in order, and whole unless it says otherwise.
LEMMA EndsSafe ==
    ASSUME IInv, run = "closing", NEW e \in Ends
    PROVE  /\ WInv(e.w)
           /\ e.why \in {"deadline", "signal", "partial", "partial_seal"}
           /\ e.why = "deadline" => Whole(e.w)
<1>1. WInv(w) /\ w \in Writer /\ Linked(w) /\ reason \in {"deadline", "signal", "partial"}
  BY DEF IInv, WriterInv, WInv
<1>2. CASE reason = "partial"
  <2>1. e \in KeepPart
    BY <1>2 DEF Ends
  <2>2. e.w \in {w, Broken(w)} /\ e.why \in {"partial", "partial_seal"}
    BY <2>1 DEF KeepPart
  <2> QED  BY <1>1, <2>2, BrokenSafe
<1>3. CASE reason # "partial"
  <2> DEFINE u == [w EXCEPT !.paused = FALSE]
  <2>1. Kept(u, w) /\ w.chunk # "broken"
    BY <1>1, <1>3, PauseKept DEF IInv, WriterInv
  <2>2. PICK r \in Seal(u) :
            e = [w |-> r.w, why |-> IF r.raised = "OSError" THEN "partial_seal" ELSE reason]
    BY <1>3 DEF Ends
  <2> HIDE DEF u
  <2>3. WInv(u) /\ u.chunk # "broken"
    BY <1>1, <2>1, KeptHolds DEF Kept
  <2>4. SealedWell(r, u)
    BY <2>3, SealSafe
  <2>5. e.w = r.w /\ e.why = IF r.raised = "OSError" THEN "partial_seal" ELSE reason
    BY <2>2
  <2> QED  BY <1>1, <1>3, <2>3, <2>4, <2>5 DEF SealedWell, Safe
<1> QED  BY <1>2, <1>3

\* A whole chain holds every frame, and its end is what the writer remembers.
LEMMA WholeIsHonest ==
    ASSUME NEW v \in Writer, Linked(v), Whole(v)
    PROVE  /\ UNION {v.files[k].first .. v.files[k].last : k \in PairsOf(v)} = DOMAIN v.log
           /\ v.sealed = Cardinality(PairsOf(v))
           /\ PairsOf(v) # {} =>
                 v.previous \in PairsOf(v) /\ \A k \in PairsOf(v) : k <= v.previous
<1>1. /\ \A k \in PairsOf(v) : v.files[k] \in File
      /\ v.log \in Seq(Frame) /\ Len(v.log) \in Nat
  BY WriterFields DEF PairsOf
<1>2. DOMAIN v.log = 1 .. Len(v.log)
  BY <1>1
<1>3. ASSUME NEW k \in PairsOf(v)
      PROVE  v.files[k].first .. v.files[k].last \subseteq 1 .. Len(v.log)
  <2>1. /\ v.files[k].first \in Nat /\ v.files[k].last \in Nat
        /\ v.files[k].last <= Len(v.log)
    BY <1>1 DEF Linked, File
  <2>2. v.files[k].first >= 1
    <3>1. CASE v.files[k].prev = 0
      BY <3>1 DEF Linked
    <3>2. CASE v.files[k].prev # 0
      <4>1. /\ v.files[k].prev \in PairsOf(v)
            /\ v.files[k].first = v.files[v.files[k].prev].last + 1
        BY <3>2 DEF Linked
      <4> QED  BY <1>1, <4>1 DEF File
    <3> QED  BY <3>1, <3>2
  <2> QED  BY <1>1, <2>1, <2>2
<1>4. \A n \in 1 .. Len(v.log) : \E k \in PairsOf(v) : n \in v.files[k].first .. v.files[k].last
  BY DEF Whole, HeldPairs
<1>5. UNION {v.files[k].first .. v.files[k].last : k \in PairsOf(v)} = DOMAIN v.log
  BY <1>2, <1>3, <1>4
<1> QED  BY <1>5 DEF Whole, HeldPairs

\* The socket is closed.
LEMMA ClosedStep ==
    ASSUME IInv, Closed
    PROVE  IInv'
<1>1. WriterInv' /\ FinalIsHonest'
  BY QuietStep DEF Closed, main
<1>2. TypeOK'
  BY DEF IInv, TypeOK, Closed, main, outside
<1> QED  BY <1>1, <1>2 DEF IInv

\* Time, and signals.
LEMMA WorldStep ==
    ASSUME IInv, Deadline \/ Signal
    PROVE  IInv'
<1>1. WriterInv' /\ FinalIsHonest'
  BY QuietStep DEF Deadline, Signal, main
<1>2. over' \in BOOLEAN /\ stop' \in BOOLEAN
  BY DEF IInv, TypeOK, Deadline, Signal
<1>3. UNCHANGED <<run, reason, final, line, ticker, gen, books, force, w>>
  BY DEF Deadline, Signal, main
<1>4. TypeOK'
  BY <1>2, <1>3 DEF IInv, TypeOK
<1> QED  BY <1>1, <1>4 DEF IInv

\* FINAL.json is written, or cannot be.
LEMMA FinishStep ==
    ASSUME IInv, Finish
    PROVE  IInv'
<1>1. PICK e \in Ends : \E r \in StateFiles(e.w) :
          /\ w' = r.w
          /\ reason' = e.why
          /\ IF r.raised = "no"
             THEN /\ run' = "final"
                  /\ final' = [partial |-> e.why # "deadline", count |-> r.w.sealed,
                               chunk |-> r.w.previous]
             ELSE run' = "failed" /\ UNCHANGED final
  BY DEF Finish
<1>2. PICK r \in StateFiles(e.w) :
          /\ w' = r.w
          /\ reason' = e.why
          /\ IF r.raised = "no"
             THEN /\ run' = "final"
                  /\ final' = [partial |-> e.why # "deadline", count |-> r.w.sealed,
                               chunk |-> r.w.previous]
             ELSE run' = "failed" /\ UNCHANGED final
  BY <1>1
<1>3. /\ WInv(e.w)
      /\ e.why \in {"deadline", "signal", "partial", "partial_seal"}
      /\ e.why = "deadline" => Whole(e.w)
  BY EndsSafe DEF Finish
<1>4. WInv(w') /\ (r.raised = "no" => w' = e.w)
  BY <1>2, <1>3, StateFilesSafe DEF Safe
<1>5. w' \in Writer /\ Linked(w')
  BY <1>4 DEF WInv
<1> DEFINE p == e.why # "deadline"
<1>9. ASSUME r.raised = "no"
      PROVE  /\ final'.partial = p /\ final'.count = w'.sealed /\ final'.chunk = w'.previous
             /\ final' \in [partial : {p}, count : {w'.sealed}, chunk : {w'.previous}]
  <2>1. final' = [partial |-> p, count |-> w'.sealed, chunk |-> w'.previous]
    BY <1>2, <1>9
  <2> HIDE DEF p
  <2> QED  BY <2>1
<1>6. WriterInv'
  BY <1>2, <1>5 DEF WriterInv
<1>7. FinalIsHonest'
  <2>1. SUFFICES ASSUME run' = "final", ~final'.partial
                 PROVE  /\ InPairs' = DOMAIN w'.log
                        /\ final'.count = Cardinality(Pairs')
                        /\ Pairs' # {} =>
                              /\ final'.chunk \in Pairs'
                              /\ \A k \in Pairs' : k <= final'.chunk
    BY DEF FinalIsHonest
  <2>2. /\ r.raised = "no" /\ w' = e.w /\ Whole(w')
        /\ final'.count = w'.sealed /\ final'.chunk = w'.previous
    <3>1. r.raised = "no" /\ w' = e.w
      BY <1>2, <1>4, <2>1
    <3>2. ~p
      BY <1>9, <2>1, <3>1
    <3> QED  BY <1>3, <1>9, <3>1, <3>2
  <2> QED  BY <1>5, <2>2, WholeIsHonest DEF InPairs, Pairs
<1>8. TypeOK'
  <2>1. final' \in [partial : BOOLEAN, count : Nat, chunk : Nat]
    <3>1. w'.sealed \in Nat /\ w'.previous \in Nat
      BY <1>5, WriterFields
    <3>2. final \in [partial : BOOLEAN, count : Nat, chunk : Nat]
      BY DEF IInv, TypeOK
    <3>3. CASE r.raised = "no"
      <4>1. p \in BOOLEAN
        OBVIOUS
      <4> HIDE DEF p
      <4> QED  BY <1>9, <3>1, <3>3, <4>1
    <3>4. CASE r.raised # "no"
      BY <1>2, <3>2, <3>4
    <3> QED  BY <3>3, <3>4
  <2>2. run' \in {"final", "failed"} /\ reason' \in {"deadline", "signal", "partial", "partial_seal"}
    BY <1>2, <1>3
  <2> QED  BY <1>5, <2>1, <2>2 DEF IInv, TypeOK, Finish, outside
<1> QED  BY <1>6, <1>7, <1>8 DEF IInv

\* A crash leaves files of which a seal may have been the last to change some.
LEMMA CrashStep ==
    ASSUME IInv, Crash
    PROVE  IInv'
<1>1. WInv(w) /\ w \in Writer /\ Linked(w)
  BY DEF IInv, WriterInv, WInv, Crash
<1>2. PICK v \in IF Sealing THEN Stages ELSE {w} :
          w' = [NewWriter EXCEPT !.files = v.files, !.log = v.log]
  BY DEF Crash
<1>3. v \in Writer /\ Linked(v)
  <2>1. CASE v = w
    BY <1>1, <2>1
  <2>2. CASE w.chunk = "open" /\ v \in CutShort(w)
    BY <1>1, <2>2, CutShortLinked
  <2>3. v = w \/ (w.chunk = "open" /\ v \in CutShort(w))
    BY <1>2 DEF Stages, CutShort
  <2> QED  BY <2>1, <2>2, <2>3
<1>4. w'.files = v.files /\ w'.log = v.log /\ w' \in Writer
  BY <1>2, <1>3, NewWriterSafe DEF WInv, Writer
<1>5. Linked(w')
  <2>1. PairsOf(w') = PairsOf(v)
    BY <1>4 DEF PairsOf
  <2> QED  BY <1>3, <1>4, <2>1 DEF Linked
<1>6. WriterInv'
  BY <1>5 DEF WriterInv, Crash
<1>7. FinalIsHonest'
  BY FinalStays DEF IInv, Crash
<1>8. TypeOK'
  BY <1>4 DEF IInv, TypeOK, Crash, outside
<1> QED  BY <1>6, <1>7, <1>8 DEF IInv

-----------------------------------------------------------------------------
(* The invariant, and what follows from it.                                 *)

\* The invariant holds at the start.
LEMMA InitIInv == Init => IInv
<1> SUFFICES ASSUME Init  PROVE IInv
  OBVIOUS
<1>1. Kept(Pause(NewWriter), NewWriter)
  BY NewWriterSafe, PauseKept DEF WInv, Pause
<1>2. WInv(w) /\ w.chunk = "none" /\ w \in Writer
  BY <1>1, NewWriterSafe, KeptHolds DEF Init, Kept, WInv
<1>3. TypeOK
  BY <1>2 DEF Init, TypeOK, NoFinal
<1>4. WriterInv
  BY <1>2 DEF Init, WriterInv, WInv
<1>5. FinalIsHonest
  BY DEF Init, FinalIsHonest
<1> QED  BY <1>3, <1>4, <1>5 DEF IInv

\* Every step keeps it.
LEMMA NextIInv == IInv /\ [Next]_vars => IInv'
<1> SUFFICES ASSUME IInv, [Next]_vars  PROVE IInv'
  OBVIOUS
<1>1. CASE UNCHANGED vars
  BY <1>1 DEF vars, IInv, TypeOK, WriterInv, FinalIsHonest, InPairs, Pairs
<1> QED
  BY <1>1, TransportStep, TickStep, MainWakesStep, FinishStep, CrashStep, ClosedStep,
     WorldStep DEF Next

\* The invariant says that the pairs are one chain.
LEMMA IInvChain == IInv => ChainHolds
  BY DEF IInv, WriterInv, Linked, ChainHolds, Pairs

(***************************************************************************)
(* Every variable of a session keeps its type (capture_raw_ws), whatever   *)
(* the disk, the venue and the other tasks do.                             *)
(***************************************************************************)
THEOREM TypeCorrect == Spec => []TypeOK
<1>1. IInv => TypeOK
  BY DEF IInv
<1> QED  BY InitIInv, NextIInv, <1>1, PTL DEF Spec

(***************************************************************************)
(* Whatever failed or crashed, the pairs that ChunkWriter.seal published   *)
(* are one chain of complete chunks without a gap between them.            *)
(***************************************************************************)
THEOREM PairsFormAChain == Spec => []ChainHolds
  BY InitIInv, NextIInv, IInvChain, PTL DEF Spec

(***************************************************************************)
(* A FINAL.json that is not partial leaves no stored frame outside of the  *)
(* pairs, and counts them (capture_raw_ws, at its end).                    *)
(***************************************************************************)
THEOREM FinalTellsTheTruth == Spec => []FinalIsHonest
<1>1. IInv => FinalIsHonest
  BY DEF IInv
<1> QED  BY InitIInv, NextIInv, <1>1, PTL DEF Spec

-----------------------------------------------------------------------------
(* Losses are marked.  While a seal may still publish what is in the log,    *)
(* every envelope of it is marked as it should be, and a loss that nothing   *)
(* marks yet keeps the transport from storing a message.                     *)

Sealable == (run = "running" /\ ticker # "raised") \/ (run = "closing" /\ reason # "partial")

Gap == {"transport_error", "disk_pause_gap"}

\* The envelope k of a log follows no loss that is not marked.
SoundAt(log, k) ==
    /\ "dropped" \in log[k].lost => log[k].kind = "disk_pause_gap"
    /\ log[k].kind \in {"received", "jump"} => \A j \in 1 .. k :
          /\ "other" \in log[j].lost => \E i \in j .. k : log[i].kind \in Gap
          /\ j < k /\ log[j].kind = "jump" =>
                \E i \in j + 1 .. k : log[i].kind \in Gap \cup {"seq_gap"}

\* A lost envelope, or a hole, that a message stored now would follow.
PendingLoss(v) ==
    \/ "other" \in v.lost
    \/ \E j \in DOMAIN v.log :
          "other" \in v.log[j].lost /\ \A i \in j .. Len(v.log) : v.log[i].kind \notin Gap
PendingJump(v) ==
    \E j \in DOMAIN v.log :
       /\ v.log[j].kind = "jump"
       /\ \A i \in j + 1 .. Len(v.log) : v.log[i].kind \notin Gap \cup {"seq_gap"}
Pending(v) == PendingLoss(v) \/ PendingJump(v)

AllSound(v) == \A k \in DOMAIN v.log : SoundAt(v.log, k)
Marks(v) == AllSound(v) /\ ("dropped" \in v.lost => v.paused)

FramesOf(v) == UNION {v.files[k].first .. v.files[k].last : k \in PairsOf(v)}
MarkedIn(v) == \A k \in FramesOf(v) : SoundAt(v.log, k)

\* Where the transport stores no message before it has given the connection up.
Unread == {"failed", "unwind", "leave", "done", "raised"}
Careful(v, at, l) == Pending(v) => v.paused \/ at = "closing" \/ l \in Unread

MarkInv ==
    /\ MarkedIn(w)
    /\ Sealable => Marks(w) /\ Careful(w, run, line)

\* One more envelope.
LEMMA AppendFields ==
    ASSUME NEW v \in Writer, NEW g \in Frame, NEW log, log = Append(v.log, g)
    PROVE  /\ Len(v.log) \in Nat /\ Len(log) = Len(v.log) + 1
           /\ DOMAIN v.log = 1 .. Len(v.log) /\ DOMAIN log = 1 .. Len(v.log) + 1
           /\ \A k \in 1 .. Len(v.log) : log[k] = v.log[k]
           /\ log[Len(v.log) + 1] = g
  BY WriterFields

\* What is sound stays so when the log grows.
LEMMA SoundStays ==
    ASSUME NEW log, NEW more, NEW k \in Nat, \A j \in 1 .. k : more[j] = log[j], k >= 1,
           SoundAt(log, k)
    PROVE  SoundAt(more, k)
<1>1. more[k] = log[k] /\ \A j \in 1 .. k : \A i \in j .. k : more[j] = log[j] /\ more[i] = log[i]
  OBVIOUS
<1>2. ASSUME NEW j \in 1 .. k, log[k].kind \in {"received", "jump"}
      PROVE  /\ "other" \in more[j].lost => \E i \in j .. k : more[i].kind \in Gap
             /\ j < k /\ more[j].kind = "jump" =>
                   \E i \in j + 1 .. k : more[i].kind \in Gap \cup {"seq_gap"}
  <2>1. /\ "other" \in log[j].lost => \E i \in j .. k : log[i].kind \in Gap
        /\ j < k /\ log[j].kind = "jump" =>
              \E i \in j + 1 .. k : log[i].kind \in Gap \cup {"seq_gap"}
    BY <1>2 DEF SoundAt
  <2>2. \A i \in j .. k : more[i] = log[i]
    BY <1>1
  <2>3. \A i \in j + 1 .. k : more[i] = log[i]
    BY <1>1
  <2> QED  BY <2>1, <2>2, <2>3
<1> QED  BY <1>1, <1>2 DEF SoundAt

LEMMA AppendSound ==
    ASSUME NEW v \in Writer, NEW g \in Frame, NEW u, u.log = Append(v.log, g),
           AllSound(v), g.lost = v.lost,
           "dropped" \in v.lost => g.kind = "disk_pause_gap",
           g.kind \in {"received", "jump"} => ~Pending(v)
    PROVE  AllSound(u)
<1> DEFINE n == Len(v.log)
<1>1. /\ n \in Nat /\ DOMAIN v.log = 1 .. n /\ DOMAIN u.log = 1 .. n + 1
      /\ \A k \in 1 .. n : u.log[k] = v.log[k]
      /\ u.log[n + 1] = g
  BY AppendFields
<1> HIDE DEF n
<1>2. ASSUME NEW k \in 1 .. n  PROVE SoundAt(u.log, k)
  <2>1. SoundAt(v.log, k) /\ \A j \in 1 .. k : u.log[j] = v.log[j]
    BY <1>1 DEF AllSound
  <2>2. k \in Nat /\ k >= 1
    BY <1>1
  <2> QED  BY <2>1, <2>2, SoundStays
<1>3. SoundAt(u.log, n + 1)
  <2>1. ASSUME g.kind \in {"received", "jump"}, NEW j \in 1 .. n + 1
        PROVE  /\ "other" \in u.log[j].lost => \E i \in j .. n + 1 : u.log[i].kind \in Gap
               /\ j < n + 1 /\ u.log[j].kind = "jump" =>
                     \E i \in j + 1 .. n + 1 : u.log[i].kind \in Gap \cup {"seq_gap"}
    <3>1. ~PendingLoss(v) /\ ~PendingJump(v) /\ "other" \notin g.lost
      BY <2>1 DEF Pending, PendingLoss
    <3>2. CASE j = n + 1
      BY <1>1, <3>1, <3>2
    <3>3. CASE j \in 1 .. n
      <4>1. "other" \in v.log[j].lost => \E i \in j .. n : v.log[i].kind \in Gap
        BY <1>1, <3>1, <3>3 DEF PendingLoss, n
      <4>2. v.log[j].kind = "jump" => \E i \in j + 1 .. n : v.log[i].kind \in Gap \cup {"seq_gap"}
        BY <1>1, <3>1, <3>3 DEF PendingJump, n
      <4>3. \A i \in j .. n : i \in j .. n + 1 /\ u.log[i] = v.log[i]
        BY <1>1, <3>3
      <4>4. \A i \in j + 1 .. n : i \in j + 1 .. n + 1 /\ u.log[i] = v.log[i]
        BY <1>1, <3>3
      <4> QED  BY <1>1, <3>3, <4>1, <4>2, <4>3, <4>4
    <3> QED  BY <1>1, <3>2, <3>3
  <2> QED  BY <1>1, <2>1 DEF SoundAt
<1> QED  BY <1>1, <1>2, <1>3 DEF AllSound

\* A marker leaves nothing pending behind it, and a stored envelope only what there was.
LEMMA AppendPending ==
    ASSUME NEW v \in Writer, NEW g \in Frame, NEW u, u.log = Append(v.log, g), u.lost = {},
           g.lost = v.lost
    PROVE  /\ PendingLoss(u) => PendingLoss(v) /\ g.kind \notin Gap
           /\ PendingJump(u) => \/ g.kind = "jump"
                                \/ PendingJump(v) /\ g.kind \notin Gap \cup {"seq_gap"}
<1> DEFINE n == Len(v.log)
<1>1. /\ n \in Nat /\ DOMAIN v.log = 1 .. n /\ DOMAIN u.log = 1 .. n + 1 /\ Len(u.log) = n + 1
      /\ \A k \in 1 .. n : u.log[k] = v.log[k]
      /\ u.log[n + 1] = g
  BY AppendFields
<1>2. ASSUME PendingLoss(u)
      PROVE  PendingLoss(v) /\ g.kind \notin Gap
  <2>1. PICK j \in 1 .. n + 1 :
            "other" \in u.log[j].lost /\ \A i \in j .. n + 1 : u.log[i].kind \notin Gap
    BY <1>1, <1>2 DEF PendingLoss
  <2>2. g.kind \notin Gap
    BY <1>1, <2>1
  <2>3. CASE j = n + 1
    BY <1>1, <2>1, <2>2, <2>3 DEF PendingLoss
  <2>4. CASE j \in 1 .. n
    <3>1. "other" \in v.log[j].lost /\ \A i \in j .. n : v.log[i].kind \notin Gap
      BY <1>1, <2>1, <2>4
    <3> QED  BY <1>1, <2>2, <2>4, <3>1 DEF PendingLoss
  <2> QED  BY <1>1, <2>3, <2>4
<1>3. ASSUME PendingJump(u), g.kind # "jump"
      PROVE  PendingJump(v) /\ g.kind \notin Gap \cup {"seq_gap"}
  <2>1. PICK j \in 1 .. n + 1 :
            /\ u.log[j].kind = "jump"
            /\ \A i \in j + 1 .. n + 1 : u.log[i].kind \notin Gap \cup {"seq_gap"}
    BY <1>1, <1>3 DEF PendingJump
  <2>2. j \in 1 .. n
    BY <1>1, <1>3, <2>1
  <2>3. g.kind \notin Gap \cup {"seq_gap"}
    BY <1>1, <2>1, <2>2
  <2>4. v.log[j].kind = "jump" /\ \A i \in j + 1 .. n : v.log[i].kind \notin Gap \cup {"seq_gap"}
    BY <1>1, <2>1, <2>2
  <2> QED  BY <1>1, <2>2, <2>3, <2>4 DEF PendingJump
<1> QED  BY <1>2, <1>3

\* The marks of a writer are its log, what it lost since, and its pause.
LEMMA SameMarks ==
    ASSUME NEW u, NEW v, SameLog(u, v)
    PROVE  /\ AllSound(u) <=> AllSound(v)
           /\ Marks(u) <=> Marks(v)
           /\ PendingLoss(u) <=> PendingLoss(v)
           /\ PendingJump(u) <=> PendingJump(v)
           /\ Pending(u) <=> Pending(v)
  BY DEF SameLog, AllSound, Marks, PendingLoss, PendingJump, Pending

\* An envelope written: what it marks, and what it leaves to be marked.
LEMMA WroteMarks ==
    ASSUME NEW v \in Writer, NEW f \in Frame, f.kind # "disk_pause_gap", NEW r, Wrote(r, v, f),
           Marks(v), f.kind \in {"received", "jump"} /\ Pending(v) => v.paused
    PROVE  /\ Marks(r.w)
           /\ ~v.paused /\ r.raised = "no" =>
                 /\ PendingLoss(r.w) => PendingLoss(v) /\ f.kind # "transport_error"
                 /\ PendingJump(r.w) =>
                       \/ f.kind = "jump"
                       \/ PendingJump(v) /\ f.kind \notin {"transport_error", "seq_gap"}
           /\ ~v.paused /\ r.raised # "no" /\ f.kind = "control" => (Pending(r.w) => Pending(v))
<1>1. CASE v.paused
  <2>1. r.w.paused /\ r.w.log = v.log
    BY <1>1 DEF Wrote
  <2> QED  BY <1>1, <2>1 DEF Marks, AllSound
<1>2. CASE ~v.paused /\ r.raised = "no"
  <2> DEFINE g == [f EXCEPT !.lost = v.lost]
  <2>1. v.lost \subseteq Losses
    BY WriterFields
  <2>2. g \in Frame /\ g.lost = v.lost /\ g.kind = f.kind
    BY <2>1 DEF Frame
  <2>3. r.w.log = Append(v.log, g) /\ r.w.lost = {}
    BY <1>2 DEF Wrote
  <2> HIDE DEF g
  <2>4. AllSound(r.w)
    BY <1>2, <2>2, <2>3, AppendSound DEF Marks
  <2>5. /\ PendingLoss(r.w) => PendingLoss(v) /\ f.kind \notin Gap
        /\ PendingJump(r.w) => \/ f.kind = "jump"
                               \/ PendingJump(v) /\ f.kind \notin Gap \cup {"seq_gap"}
    BY <2>2, <2>3, AppendPending
  <2> QED  BY <1>2, <2>3, <2>4, <2>5 DEF Marks, Gap
<1>3. CASE ~v.paused /\ r.raised # "no"
  <2>1. r.w.log = v.log /\ r.w.lost = v.lost \cup {LossOf(f)}
    BY <1>3 DEF Wrote
  <2>2. LossOf(f) # "dropped" /\ (f.kind = "control" => LossOf(f) # "other")
    BY DEF LossOf
  <2>3. Marks(r.w)
    BY <1>3, <2>1, <2>2 DEF Marks, AllSound
  <2>4. f.kind = "control" => (Pending(r.w) => Pending(v))
    BY <2>1, <2>2 DEF Pending, PendingLoss, PendingJump
  <2> QED  BY <1>3, <2>3, <2>4
<1> QED  BY <1>1, <1>2, <1>3

\* The envelope that ends a pause marks all that came before it.
LEMMA ResumeMarks ==
    ASSUME NEW v, WInv(v), v.paused, AllSound(v), NEW g \in Nat, NEW r \in Resume(v, g)
    PROVE  /\ AllSound(r.w)
           /\ r.raised = "no" => Marks(r.w) /\ ~Pending(r.w)
           /\ \A k \in DOMAIN r.w.log : (k \in DOMAIN v.log /\ r.w.log[k] = v.log[k]) \/ r.w.log[k].gen = g
<1> DEFINE u == [v EXCEPT !.paused = FALSE]
           f == Envelope("disk_pause_gap", g, {})
           x == [f EXCEPT !.lost = u.lost]
<1>1. v \in Writer
  BY DEF WInv
<1>2. Kept(u, v)
  BY <1>1, PauseKept
<1>3. u.log = v.log /\ u.lost = v.lost /\ ~u.paused
  BY <1>1 DEF Writer
<1>4. r \in Write(u, f)
  BY DEF Resume
<1>5. f \in Frame /\ f.kind = "disk_pause_gap" /\ f.gen = g
  BY EnvelopeType DEF Kinds, Envelope
<1>6. u \in Writer /\ WInv(u) /\ u.lost \subseteq Losses
  BY <1>2, KeptHolds, WriterFields DEF Kept, WInv
<1>7. x \in Frame /\ x.lost = u.lost /\ x.kind = "disk_pause_gap" /\ x.gen = g
  BY <1>5, <1>6 DEF Frame
<1>8. AllSound(u)
  BY <1>3 DEF AllSound
<1> HIDE DEF u, f
<1>9. Wrote(r, u, f)
  BY <1>4, <1>5, <1>6, WriteEffect
<1>10. CASE r.raised = "no"
  <2>1. r.w.log = Append(u.log, x) /\ r.w.lost = {}
    BY <1>3, <1>9, <1>10 DEF Wrote
  <2> HIDE DEF x
  <2>2. AllSound(r.w)
    BY <1>6, <1>7, <1>8, <2>1, AppendSound
  <2>3. ~Pending(r.w)
    BY <1>6, <1>7, <2>1, AppendPending DEF Pending, Gap
  <2>4. \A k \in DOMAIN r.w.log : (k \in DOMAIN u.log /\ r.w.log[k] = u.log[k]) \/ r.w.log[k].gen = g
    BY <1>6, <1>7, <2>1, AppendFields
  <2> QED  BY <1>3, <1>10, <2>1, <2>2, <2>3, <2>4 DEF Marks
<1>11. CASE r.raised # "no"
  <2>1. r.w.log = u.log
    BY <1>3, <1>9, <1>11 DEF Wrote
  <2> QED  BY <1>3, <1>8, <1>11, <2>1 DEF AllSound
<1> QED  BY <1>10, <1>11

\* The pairs are what they were, and the log is longer.
Grew(u, v) == SamePairs(u, v) /\ \A k \in 1 .. Len(v.log) : u.log[k] = v.log[k]

LEMMA SameGrew ==
    ASSUME NEW t, NEW u, NEW v, SamePairs(t, u), SameLog(t, u), Grew(u, v)
    PROVE  Grew(t, v)
  BY SamePairsTwice DEF Grew, SameLog

LEMMA GrewTwice ==
    ASSUME NEW t, NEW u, NEW v, Grew(t, u), Grew(u, v)
    PROVE  Grew(t, v)
<1>1. SamePairs(t, v) /\ Len(u.log) \in Nat /\ Len(v.log) \in Nat /\ Len(v.log) <= Len(u.log)
  BY SamePairsTwice, WriterFields DEF Grew, SamePairs
<1> QED  BY <1>1 DEF Grew

LEMMA WroteGrew ==
    ASSUME NEW v \in Writer, NEW f \in Frame, NEW r, Wrote(r, v, f)
    PROVE  Grew(r.w, v)
<1> DEFINE g == [f EXCEPT !.lost = v.lost]
<1>1. v.lost \subseteq Losses
  BY WriterFields
<1>2. g \in Frame
  BY <1>1 DEF Frame
<1>3. SamePairs(r.w, v) /\ (r.w.log = v.log \/ r.w.log = Append(v.log, g))
  BY DEF Wrote
<1> HIDE DEF g
<1>4. \A k \in 1 .. Len(v.log) : r.w.log[k] = v.log[k]
  BY <1>2, <1>3, AppendFields
<1> QED  BY <1>3, <1>4 DEF Grew

\* A pair holds stored frames.
LEMMA PairBounds ==
    ASSUME NEW v \in Writer, Linked(v), NEW k \in PairsOf(v)
    PROVE  v.files[k].first .. v.files[k].last \subseteq 1 .. Len(v.log)
<1>1. /\ \A j \in PairsOf(v) : v.files[j] \in File
      /\ Len(v.log) \in Nat
  BY WriterFields DEF PairsOf
<1>2. /\ v.files[k].first \in Nat /\ v.files[k].last \in Nat
      /\ v.files[k].last <= Len(v.log)
  BY <1>1 DEF Linked, File
<1>3. v.files[k].first >= 1
  <2>1. CASE v.files[k].prev = 0
    BY <2>1 DEF Linked
  <2>2. CASE v.files[k].prev # 0
    <3>1. /\ v.files[k].prev \in PairsOf(v)
          /\ v.files[k].first = v.files[v.files[k].prev].last + 1
      BY <2>2 DEF Linked
    <3> QED  BY <1>1, <3>1 DEF File
  <2> QED  BY <2>1, <2>2
<1> QED  BY <1>1, <1>2, <1>3

LEMMA SoundIsMarked ==
    ASSUME NEW v \in Writer, Linked(v), AllSound(v)
    PROVE  MarkedIn(v)
<1>1. DOMAIN v.log = 1 .. Len(v.log)
  BY WriterFields
<1> QED  BY <1>1, PairBounds DEF MarkedIn, FramesOf, AllSound

LEMMA MarkedStays ==
    ASSUME NEW u, NEW v, Grew(u, v), Linked(v), MarkedIn(v)
    PROVE  MarkedIn(u)
<1>1. v \in Writer /\ SamePairs(u, v)
  BY DEF Grew, SamePairs
<1>2. FramesOf(u) = FramesOf(v)
  <2>1. PairsOf(u) = PairsOf(v)
    BY <1>1 DEF SamePairs
  <2>2. \A k \in PairsOf(v) : u.files[k].first .. u.files[k].last = v.files[k].first .. v.files[k].last
    BY <1>1 DEF SamePairs
  <2> QED  BY <2>1, <2>2 DEF FramesOf
<1>3. ASSUME NEW k \in FramesOf(v)
      PROVE  SoundAt(u.log, k)
  <2>1. k \in 1 .. Len(v.log) /\ Len(v.log) \in Nat
    BY <1>1, <1>3, PairBounds, WriterFields DEF FramesOf
  <2>2. \A j \in 1 .. k : u.log[j] = v.log[j]
    BY <2>1 DEF Grew
  <2>3. SoundAt(v.log, k) /\ k \in Nat /\ k >= 1
    BY <1>3, <2>1 DEF MarkedIn
  <2> QED  BY <2>2, <2>3, SoundStays
<1> QED  BY <1>2, <1>3 DEF MarkedIn

-----------------------------------------------------------------------------
(* Readiness is backed.  A book counted is on disk, in this generation.     *)

\* What a log must hold for the books b to be counted in generation g.
ReadyIn(v, b, g, forced) ==
    /\ \A k \in DOMAIN v.log : v.log[k].gen <= g
    /\ ~forced =>
          /\ \A k \in DOMAIN v.log : v.log[k].gen = g => v.log[k].kind # "disk_pause_gap"
          /\ ~v.paused => \A i \in b : \E k \in DOMAIN v.log :
                             v.log[k].gen = g /\ i \in v.log[k].books

ReadyInv == run = "running" /\ ticker # "raised" => ReadyIn(w, books, gen, force)

LEMMA ReadySame ==
    ASSUME NEW u, NEW v, u.log = v.log, v.paused => u.paused,
           NEW b, NEW c \in SUBSET b, NEW g, NEW forced, ReadyIn(v, b, g, forced)
    PROVE  ReadyIn(u, c, g, forced)
  BY DEF ReadyIn

\* An envelope of this generation, which may hold initial books.
LEMMA ReadyWrote ==
    ASSUME NEW v \in Writer, NEW f \in Frame, f.kind # "disk_pause_gap", NEW r, Wrote(r, v, f),
           NEW b, NEW forced, ReadyIn(v, b, f.gen, forced)
    PROVE  /\ ReadyIn(r.w, b, f.gen, forced)
           /\ r.raised = "no" => ReadyIn(r.w, b \cup f.books, f.gen, forced)
<1>1. CASE v.paused
  <2>1. r.w.paused /\ r.w.log = v.log
    BY <1>1 DEF Wrote
  <2> QED  BY <1>1, <2>1 DEF ReadyIn
<1>2. CASE ~v.paused /\ r.raised = "no"
  <2> DEFINE g == [f EXCEPT !.lost = v.lost]
  <2>1. v.lost \subseteq Losses
    BY WriterFields
  <2>2. g \in Frame /\ g.kind = f.kind /\ g.gen = f.gen /\ g.books = f.books /\ f.gen \in Nat
    BY <2>1 DEF Frame
  <2>3. r.w.log = Append(v.log, g) /\ ~r.w.paused
    BY <1>2 DEF Wrote
  <2> HIDE DEF g
  <2> DEFINE n == Len(v.log)
  <2>4. /\ n \in Nat /\ DOMAIN v.log = 1 .. n /\ DOMAIN r.w.log = 1 .. n + 1
        /\ \A k \in 1 .. n : r.w.log[k] = v.log[k]
        /\ r.w.log[n + 1] = g
    BY <2>2, <2>3, AppendFields
  <2> HIDE DEF n
  <2>5. \A k \in 1 .. n + 1 : k \in 1 .. n \/ k = n + 1
    BY <2>4
  <2>6. \A k \in DOMAIN r.w.log : r.w.log[k].gen <= f.gen
    <3> SUFFICES ASSUME NEW k \in 1 .. n + 1  PROVE r.w.log[k].gen <= f.gen
      BY <2>4
    <3>1. \A j \in 1 .. n : v.log[j].gen <= f.gen
      BY <2>4 DEF ReadyIn
    <3> QED  BY <2>2, <2>4, <2>5, <3>1
  <2>7. ASSUME ~forced
        PROVE  \A k \in DOMAIN r.w.log :
                  r.w.log[k].gen = f.gen => r.w.log[k].kind # "disk_pause_gap"
    <3> SUFFICES ASSUME NEW k \in 1 .. n + 1
                 PROVE  r.w.log[k].gen = f.gen => r.w.log[k].kind # "disk_pause_gap"
      BY <2>4
    <3> QED  BY <2>2, <2>4, <2>5, <2>7 DEF ReadyIn
  <2>8. ASSUME ~forced, NEW i \in b \cup f.books
        PROVE  \E k \in DOMAIN r.w.log : r.w.log[k].gen = f.gen /\ i \in r.w.log[k].books
    <3>1. CASE i \in f.books
      <4>1. n + 1 \in DOMAIN r.w.log
        BY <2>4
      <4> QED  BY <2>2, <2>4, <3>1, <4>1
    <3>2. CASE i \in b
      <4>1. PICK k \in 1 .. n : v.log[k].gen = f.gen /\ i \in v.log[k].books
        BY <1>2, <2>4, <2>8, <3>2 DEF ReadyIn
      <4>2. k \in DOMAIN r.w.log /\ r.w.log[k] = v.log[k]
        BY <2>4
      <4> QED  BY <4>1, <4>2
    <3> QED  BY <3>1, <3>2
  <2> QED  BY <2>6, <2>7, <2>8 DEF ReadyIn
<1>3. CASE ~v.paused /\ r.raised # "no"
  <2>1. r.w.log = v.log /\ ~r.w.paused
    BY <1>3 DEF Wrote
  <2> QED  BY <1>3, <2>1 DEF ReadyIn
<1> QED  BY <1>1, <1>2, <1>3

-----------------------------------------------------------------------------
(* The steps of the session, for both.                                      *)

EInv == IInv /\ MarkInv /\ ReadyInv

\* One envelope of the session, other than the one that ends a pause.
LEMMA EnvelopeWritten ==
    ASSUME NEW v, WInv(v), NEW g \in Nat, NEW k \in Kinds \ {"disk_pause_gap"},
           NEW b \in SUBSET Instruments, NEW r \in Write(v, Envelope(k, g, b))
    PROVE  LET f == Envelope(k, g, b)
           IN  /\ v \in Writer /\ f \in Frame /\ f.kind = k /\ f.gen = g /\ f.books = b
               /\ Wrote(r, v, f) /\ Grew(r.w, v) /\ WInv(r.w) /\ r.w \in Writer
<1> DEFINE f == Envelope(k, g, b)
<1>1. f \in Frame /\ f.kind = k /\ f.gen = g /\ f.books = b /\ v \in Writer
  BY EnvelopeType DEF Envelope, WInv
<1> HIDE DEF f
<1>2. r \in Write(v, f)
  BY DEF f
<1>3. Wrote(r, v, f) /\ Safe(r)
  BY <1>1, <1>2, WriteEffect, WriteSafe
<1>4. Grew(r.w, v)
  BY <1>1, <1>3, WroteGrew
<1>5. WInv(r.w) /\ r.w \in Writer
  BY <1>3 DEF Safe, WInv
<1> QED  BY <1>1, <1>3, <1>4, <1>5 DEF f

\* The state files after a step leave the log as it is.
LEMMA StateFilesLog ==
    ASSUME NEW v, WInv(v), NEW r \in StateFiles(v)
    PROVE  SamePairs(r.w, v) /\ SameLog(r.w, v)
<1>1. v \in Writer
  BY DEF WInv
<1>2. SamePairs(v, v) /\ SameLog(v, v)
  BY <1>1, WriterFields DEF SamePairs, SameLog
<1> DEFINE S == {OsError(v)}
<1>3. \A q \in S : q \in Outcome /\ q.w = v
  BY <1>1, OutcomeFields
<1> HIDE DEF S
<1>4. r = Ok(v) \/ r \in Faulty(v, S)
  BY DEF StateFiles, S
<1>5. CASE r = Ok(v)
  BY <1>2, <1>5 DEF Ok
<1>6. CASE r \in Faulty(v, S)
  BY <1>1, <1>3, <1>6, FaultyLog
<1> QED  BY <1>4, <1>5, <1>6

LEMMA ThenStateLog ==
    ASSUME NEW S, \A q \in S : Safe(q), NEW r \in ThenState(S)
    PROVE  \E q \in S : /\ SamePairs(r.w, q.w) /\ SameLog(r.w, q.w)
                        /\ r.raised = "no" => q.raised = "no"
<1>1. PICK q \in S : r \in IF q.raised = "no" THEN StateFiles(q.w) ELSE {q}
  BY DEF ThenState
<1>2. WInv(q.w) /\ q.w \in Writer
  BY DEF Safe, WInv
<1>3. CASE q.raised = "no"
  BY <1>1, <1>2, <1>3, StateFilesLog
<1>4. CASE q.raised # "no"
  <2>1. r = q /\ SamePairs(q.w, q.w) /\ SameLog(q.w, q.w)
    BY <1>1, <1>2, <1>4, WriterFields DEF SamePairs, SameLog
  <2> QED  BY <2>1
<1> QED  BY <1>3, <1>4

\* A step of the transport or of its callback.
LEMMA SessionStep ==
    ASSUME EInv, UNCHANGED <<run, reason, ticker, gen, force>>,
           Grew(w', w), Sealable => Marks(w') /\ Careful(w', run, line'),
           Running /\ ticker # "raised" => ReadyIn(w', books', gen, force)
    PROVE  MarkInv' /\ ReadyInv'
<1>1. MarkedIn(w')
  BY MarkedStays DEF EInv, IInv, WriterInv, MarkInv
<1> QED  BY <1>1 DEF MarkInv, ReadyInv, Sealable, Running

\* What the invariant says of the writer of a running session.
LEMMA Session ==
    ASSUME EInv, run \in {"running", "closing"}
    PROVE  /\ w \in Writer /\ WInv(w) /\ gen \in Nat /\ Grew(w, w)
           /\ Sealable => AllSound(w) /\ Marks(w) /\ Careful(w, run, line)
           /\ Running /\ ticker # "raised" => Sealable /\ ReadyIn(w, books, gen, force)
<1>1. w \in Writer /\ WInv(w) /\ gen \in Nat
  BY DEF EInv, IInv, TypeOK, WriterInv
<1>2. Grew(w, w)
  BY <1>1, WriterFields DEF Grew, SamePairs
<1> QED  BY <1>1, <1>2 DEF EInv, MarkInv, ReadyInv, Running, Sealable, Marks

\* A step that stores nothing, and gives nothing up but what the venue said.
LEMMA QuietEvidence ==
    ASSUME EInv, run \in {"running", "closing"}, UNCHANGED <<run, reason, ticker, gen, force, w>>,
           books' \subseteq books, line \in Unread => line' \in Unread \/ run = "closing" \/ w.paused
    PROVE  MarkInv' /\ ReadyInv'
<1>1. Sealable => Marks(w') /\ Careful(w', run, line')
  BY Session DEF Careful
<1>2. Running /\ ticker # "raised" => ReadyIn(w', books', gen, force)
  BY Session, ReadySame
<1>3. Grew(w', w)
  BY Session
<1> QED  BY <1>1, <1>2, <1>3, SessionStep

LEMMA OnErrorEvidence ==
    ASSUME EInv, Running, OnError
    PROVE  MarkInv' /\ ReadyInv'
<1> DEFINE f == Envelope("transport_error", gen, {})
           W == Write(w, f)
<1>1. gen \in Nat /\ WInv(w) /\ run \in {"running", "closing"} /\ "transport_error" \in Kinds
  BY Session DEF Running, Kinds
<1>2. \A q \in W : /\ f \in Frame /\ f.kind = "transport_error" /\ f.gen = gen /\ f.books = {}
                   /\ Wrote(q, w, f) /\ Grew(q.w, w) /\ WInv(q.w) /\ q.w \in Writer /\ Safe(q)
  BY <1>1, EnvelopeWritten, WriteSafe
<1>3. PICK r \in IF Ending THEN W ELSE ThenState(W) :
          /\ w' = r.w
          /\ line' = IF r.raised # "no" THEN "raised"
                     ELSE IF Ending THEN "done" ELSE "backoff"
  BY DEF OnError
<1> HIDE DEF W, f
<1>4. PICK q \in W : SamePairs(r.w, q.w) /\ SameLog(r.w, q.w) /\ (r.raised = "no" => q.raised = "no")
  <2>1. CASE Ending
    <3>1. r \in W /\ SamePairs(r.w, r.w) /\ SameLog(r.w, r.w)
      BY <1>2, <1>3, <2>1, WriterFields DEF SamePairs, SameLog
    <3> QED  BY <3>1
  <2>2. CASE ~Ending
    BY <1>2, <1>3, <2>2, ThenStateLog
  <2> QED  BY <2>1, <2>2
<1>5. Grew(w', w)
  BY <1>2, <1>3, <1>4, SameGrew
<1>6. ASSUME Sealable
      PROVE  Marks(w') /\ Careful(w', run, line')
  <2>1. Marks(w) /\ w \in Writer
    BY <1>1, <1>6, Session
  <2>2. /\ Marks(q.w)
        /\ ~w.paused /\ q.raised = "no" => ~PendingLoss(q.w) /\ ~PendingJump(q.w)
    BY <1>2, <2>1, WroteMarks
  <2>3. q.w.paused = w.paused
    BY <1>2 DEF Wrote
  <2>4. Marks(w') /\ w'.paused = w.paused
    BY <1>3, <1>4, <2>2, <2>3, SameMarks DEF SameLog
  <2>5. CASE r.raised = "no"
    BY <1>3, <1>4, <2>2, <2>4, <2>5, SameMarks DEF Careful, Pending
  <2>6. CASE r.raised # "no"
    BY <1>3, <2>4, <2>6 DEF Careful, Unread
  <2> QED  BY <2>4, <2>5, <2>6
<1>7. ASSUME Running, ticker # "raised"
      PROVE  ReadyIn(w', books', gen, force)
  <2>1. ReadyIn(q.w, books, gen, force)
    BY <1>1, <1>2, <1>7, Session, ReadyWrote
  <2>2. r.w.log = q.w.log /\ (q.w.paused => r.w.paused) /\ books' \in SUBSET books
    BY <1>4 DEF SameLog, OnError
  <2> QED  BY <1>3, <2>1, <2>2, ReadySame
<1> QED  BY <1>5, <1>6, <1>7, SessionStep DEF OnError, main

LEMMA SubscribeEvidence ==
    ASSUME EInv, Subscribe
    PROVE  MarkInv' /\ ReadyInv'
<1> DEFINE f == Envelope("sent", gen, {})
           W == Write(w, f)
<1>1. gen \in Nat /\ WInv(w) /\ run \in {"running", "closing"} /\ "sent" \in Kinds /\ line = "subscribe"
  BY Session DEF Subscribe, Running, Kinds
<1>2. \A q \in W : /\ f \in Frame /\ f.kind = "sent" /\ f.gen = gen /\ f.books = {}
                   /\ Wrote(q, w, f) /\ Grew(q.w, w) /\ WInv(q.w) /\ q.w \in Writer /\ Safe(q)
  BY <1>1, EnvelopeWritten, WriteSafe
<1>3. PICK r \in ThenState(W) : w' = r.w /\ line' = IF r.raised = "no" THEN "open" ELSE "unwind"
  BY DEF Subscribe
<1> HIDE DEF W, f
<1>4. PICK q \in W : SamePairs(r.w, q.w) /\ SameLog(r.w, q.w) /\ (r.raised = "no" => q.raised = "no")
  BY <1>2, ThenStateLog
<1>5. Grew(w', w)
  BY <1>2, <1>3, <1>4, SameGrew
<1>6. ASSUME Sealable
      PROVE  Marks(w') /\ Careful(w', run, line')
  <2>1. Marks(w) /\ w \in Writer /\ Careful(w, run, line) /\ run = "running"
    BY <1>1, <1>6, Session DEF Subscribe, Running
  <2>2. ~w.paused => ~Pending(w)
    BY <1>1, <2>1 DEF Careful, Unread
  <2>3. /\ Marks(q.w)
        /\ ~w.paused /\ q.raised = "no" => ~PendingLoss(q.w) /\ ~PendingJump(q.w)
    BY <1>2, <2>1, <2>2, WroteMarks DEF Pending
  <2>4. q.w.paused = w.paused
    BY <1>2 DEF Wrote
  <2>5. Marks(w') /\ w'.paused = w.paused
    BY <1>3, <1>4, <2>3, <2>4, SameMarks DEF SameLog
  <2>6. CASE r.raised = "no"
    BY <1>3, <1>4, <2>3, <2>5, <2>6, SameMarks DEF Careful, Pending
  <2>7. CASE r.raised # "no"
    BY <1>3, <2>5, <2>7 DEF Careful, Unread
  <2> QED  BY <2>5, <2>6, <2>7
<1>7. ASSUME Running, ticker # "raised"
      PROVE  ReadyIn(w', books', gen, force)
  <2>1. ReadyIn(q.w, books, gen, force)
    BY <1>1, <1>2, <1>7, Session, ReadyWrote
  <2>2. r.w.log = q.w.log /\ (q.w.paused => r.w.paused) /\ books' \in SUBSET books
    BY <1>4 DEF SameLog, Subscribe
  <2> QED  BY <1>3, <2>1, <2>2, ReadySame
<1> QED  BY <1>5, <1>6, <1>7, SessionStep DEF Subscribe, main

LEMMA ReceiveEvidence ==
    ASSUME EInv, NEW b \in SUBSET Instruments, Receive(b)
    PROVE  MarkInv' /\ ReadyInv'
<1> DEFINE f == Envelope("received", gen, b)
<1>1. gen \in Nat /\ WInv(w) /\ run \in {"running", "closing"} /\ "received" \in Kinds /\ line = "open"
  BY Session DEF Receive, Running, Kinds
<1>2. PICK r \in Write(w, f) :
          /\ w' = r.w
          /\ IF r.raised = "no" THEN books' = books \cup b /\ UNCHANGED line
                                ELSE line' = "failed" /\ UNCHANGED books
  BY DEF Receive
<1>3. /\ f \in Frame /\ f.kind = "received" /\ f.gen = gen /\ f.books = b
      /\ Wrote(r, w, f) /\ Grew(r.w, w)
  BY <1>1, EnvelopeWritten
<1> HIDE DEF f
<1>4. ASSUME Sealable
      PROVE  Marks(w') /\ Careful(w', run, line')
  <2>1. Marks(w) /\ w \in Writer /\ Careful(w, run, line) /\ run = "running"
    BY <1>1, <1>4, Session DEF Receive, Running
  <2>2. ~w.paused => ~Pending(w)
    BY <1>1, <2>1 DEF Careful, Unread
  <2>3. /\ Marks(r.w)
        /\ ~w.paused /\ r.raised = "no" => ~PendingLoss(r.w) /\ ~PendingJump(r.w)
    BY <1>3, <2>1, <2>2, WroteMarks DEF Pending
  <2>4. r.w.paused = w.paused
    BY <1>3 DEF Wrote
  <2> QED  BY <1>2, <2>3, <2>4 DEF Careful, Pending, Unread
<1>5. ASSUME Running, ticker # "raised"
      PROVE  ReadyIn(w', books', gen, force)
  <2>1. /\ ReadyIn(r.w, books, gen, force)
        /\ r.raised = "no" => ReadyIn(r.w, books \cup b, gen, force)
    BY <1>1, <1>3, <1>5, Session, ReadyWrote
  <2> QED  BY <1>2, <2>1
<1> QED  BY <1>2, <1>3, <1>4, <1>5, SessionStep DEF Receive, main

LEMMA ReceiveJumpEvidence ==
    ASSUME EInv, ReceiveJump
    PROVE  MarkInv' /\ ReadyInv'
<1> DEFINE f == Envelope("jump", gen, {})
           h == Envelope("seq_gap", gen, {})
           W == Write(w, f)
<1>1. /\ gen \in Nat /\ WInv(w) /\ run \in {"running", "closing"} /\ line = "open"
      /\ "jump" \in Kinds /\ "seq_gap" \in Kinds
  BY Session DEF ReceiveJump, Running, Kinds
<1>2. PICK r \in ThenWrite(W, h) :
          /\ w' = r.w
          /\ line' \in IF r.raised = "no" THEN {"open", "failed"} ELSE {"failed"}
  BY DEF ReceiveJump
<1>3. \A q \in W : /\ f \in Frame /\ f.kind = "jump" /\ f.gen = gen /\ f.books = {}
                   /\ Wrote(q, w, f) /\ Grew(q.w, w) /\ WInv(q.w)
  BY <1>1, EnvelopeWritten
<1>4. PICK q \in W : r \in IF q.raised = "no" THEN Write(q.w, h) ELSE {q}
  BY DEF ThenWrite
<1>5. q.raised = "no" =>
         /\ h \in Frame /\ h.kind = "seq_gap" /\ h.gen = gen /\ h.books = {}
         /\ Wrote(r, q.w, h) /\ Grew(r.w, q.w) /\ q.w \in Writer
  BY <1>1, <1>3, <1>4, EnvelopeWritten
<1> HIDE DEF W, f, h
<1>6. q.raised # "no" => r = q
  BY <1>4
<1>7. Grew(w', w)
  BY <1>2, <1>3, <1>5, <1>6, GrewTwice
<1>8. ASSUME Sealable
      PROVE  Marks(w') /\ Careful(w', run, line')
  <2>1. Marks(w) /\ w \in Writer /\ Careful(w, run, line) /\ run = "running"
    BY <1>1, <1>8, Session DEF ReceiveJump, Running
  <2>2. ~w.paused => ~Pending(w)
    BY <1>1, <2>1 DEF Careful, Unread
  <2>3. Marks(q.w) /\ (~w.paused /\ q.raised = "no" => ~PendingLoss(q.w))
    BY <1>3, <2>1, <2>2, WroteMarks DEF Pending
  <2>4. q.w.paused = w.paused
    BY <1>3 DEF Wrote
  <2>5. CASE q.raised = "no"
    <3>1. /\ Marks(r.w)
          /\ ~q.w.paused /\ r.raised = "no" => ~PendingLoss(r.w) /\ ~PendingJump(r.w)
      BY <1>5, <2>3, <2>4, <2>5, WroteMarks
    <3>2. r.w.paused = q.w.paused
      BY <1>5, <2>5 DEF Wrote
    <3> QED  BY <1>2, <2>4, <3>1, <3>2 DEF Careful, Pending, Unread
  <2>6. CASE q.raised # "no"
    BY <1>2, <1>6, <2>3, <2>6 DEF Careful, Unread
  <2> QED  BY <2>5, <2>6
<1>9. ASSUME Running, ticker # "raised"
      PROVE  ReadyIn(w', books', gen, force)
  <2>1. ReadyIn(q.w, books, gen, force)
    BY <1>1, <1>3, <1>9, Session, ReadyWrote
  <2>2. ReadyIn(r.w, books, gen, force)
    BY <1>5, <1>6, <2>1, ReadyWrote
  <2> QED  BY <1>2, <2>2 DEF ReceiveJump
<1> QED  BY <1>7, <1>8, <1>9, SessionStep DEF ReceiveJump, main

LEMMA SendPingEvidence ==
    ASSUME EInv, SendPing
    PROVE  MarkInv' /\ ReadyInv'
<1> DEFINE f == Envelope("sent", gen, {})
<1>1. gen \in Nat /\ WInv(w) /\ run \in {"running", "closing"} /\ "sent" \in Kinds
      /\ line \in {"open", "failed"}
  BY Session DEF SendPing, Running, Kinds
<1>2. PICK r \in Write(w, f) :
          w' = r.w /\ line' \in IF r.raised = "no" THEN {line} ELSE {"failed", "unwind"}
  BY DEF SendPing
<1>3. /\ f \in Frame /\ f.kind = "sent" /\ f.gen = gen /\ f.books = {}
      /\ Wrote(r, w, f) /\ Grew(r.w, w)
  BY <1>1, EnvelopeWritten
<1> HIDE DEF f
<1>4. ASSUME Sealable
      PROVE  Marks(w') /\ Careful(w', run, line')
  <2>1. Marks(w) /\ w \in Writer /\ Careful(w, run, line)
    BY <1>1, <1>4, Session
  <2>3. /\ Marks(r.w)
        /\ ~w.paused /\ r.raised = "no" => (Pending(r.w) => Pending(w))
    BY <1>3, <2>1, WroteMarks DEF Pending
  <2>4. r.w.paused = w.paused
    BY <1>3 DEF Wrote
  <2>5. CASE r.raised = "no"
    BY <1>2, <2>1, <2>3, <2>4, <2>5 DEF Careful
  <2>6. CASE r.raised # "no"
    BY <1>2, <2>3, <2>6 DEF Careful, Unread
  <2> QED  BY <2>5, <2>6
<1>5. ASSUME Running, ticker # "raised"
      PROVE  ReadyIn(w', books', gen, force)
  <2>1. ReadyIn(r.w, books, gen, force)
    BY <1>1, <1>3, <1>5, Session, ReadyWrote
  <2> QED  BY <1>2, <2>1 DEF SendPing
<1> QED  BY <1>2, <1>3, <1>4, <1>5, SessionStep DEF SendPing, main

LEMMA ControlFrameEvidence ==
    ASSUME EInv, ControlFrame
    PROVE  MarkInv' /\ ReadyInv'
<1> DEFINE f == Envelope("control", gen, {})
<1>1. gen \in Nat /\ WInv(w) /\ run \in {"running", "closing"} /\ "control" \in Kinds
  BY Session DEF ControlFrame, Kinds
<1>2. PICK r \in Write(w, f) :
          /\ w' = r.w
          /\ stop' = (stop \/ r.raised = "OSError")
          /\ line' = IF r.raised = "other" /\ Running /\ line # "leave" THEN "unwind" ELSE line
  BY DEF ControlFrame
<1>3. /\ f \in Frame /\ f.kind = "control" /\ f.gen = gen /\ f.books = {}
      /\ Wrote(r, w, f) /\ Grew(r.w, w)
  BY <1>1, EnvelopeWritten
<1> HIDE DEF f
<1>4. ASSUME Sealable
      PROVE  Marks(w') /\ Careful(w', run, line')
  <2>1. Marks(w) /\ w \in Writer /\ Careful(w, run, line)
    BY <1>1, <1>4, Session
  <2>3. Marks(r.w) /\ (~w.paused => (Pending(r.w) => Pending(w)))
    BY <1>3, <2>1, WroteMarks DEF Pending
  <2>4. r.w.paused = w.paused
    BY <1>3 DEF Wrote
  <2> QED  BY <1>2, <2>1, <2>3, <2>4 DEF Careful, Unread
<1>5. ASSUME Running, ticker # "raised"
      PROVE  ReadyIn(w', books', gen, force)
  <2>1. ReadyIn(r.w, books, gen, force)
    BY <1>1, <1>3, <1>5, Session, ReadyWrote
  <2> QED  BY <1>2, <2>1 DEF ControlFrame
<1> QED  BY <1>2, <1>3, <1>4, <1>5, SessionStep DEF ControlFrame, main

LEMMA AttemptEvidence ==
    ASSUME EInv, Attempt
    PROVE  MarkInv' /\ ReadyInv'
<1>1. run = "running" /\ gen \in Nat /\ line = "attempt" /\ Grew(w, w)
  BY Session DEF Attempt, Running
<1>2. MarkInv'
  <2>1. Sealable => Marks(w) /\ Careful(w, run, line)
    BY <1>1, Session
  <2> QED  BY <1>1, <2>1 DEF EInv, MarkInv, Attempt, main, Sealable, Careful, Unread
<1>3. CASE line' = "done" /\ UNCHANGED <<gen, books, force>>
  BY <1>2, <1>3 DEF EInv, ReadyInv, Attempt, main
<1>4. CASE gen' = gen + 1 /\ books' = {} /\ force' = FALSE
  <2>1. ASSUME ticker # "raised"
        PROVE  ReadyIn(w, {}, gen + 1, FALSE)
    <3>1. \A k \in DOMAIN w.log : w.log[k].gen <= gen /\ w.log[k].gen \in Nat
      <4>1. \A k \in DOMAIN w.log : w.log[k].gen <= gen
        BY <1>1, <2>1 DEF EInv, ReadyInv, ReadyIn
      <4>2. w.log \in Seq(Frame)
        BY <1>1, Session, WriterFields
      <4>3. \A k \in DOMAIN w.log : w.log[k] \in Frame
        BY <4>2
      <4> QED  BY <4>1, <4>3 DEF Frame
    <3> QED  BY <1>1, <3>1 DEF ReadyIn
  <2> QED  BY <1>1, <1>2, <1>4, <2>1 DEF ReadyInv, Attempt, main
<1> QED  BY <1>3, <1>4 DEF Attempt

LEMMA TransportEvidence ==
    ASSUME EInv, Transport
    PROVE  MarkInv' /\ ReadyInv'
<1>1. CASE ConnectUp
  BY <1>1, QuietEvidence DEF ConnectUp, Running, main, Unread
<1>2. CASE Supervise
  BY <1>2, QuietEvidence DEF Supervise, Running, main, Unread
<1>3. CASE ConnectionFails
  BY <1>3, QuietEvidence DEF ConnectionFails, Running, main, Unread
<1>4. CASE ReceiverFailed
  BY <1>4, QuietEvidence DEF ReceiverFailed, Running, main, Unread
<1>5. CASE Left
  BY <1>5, QuietEvidence DEF Left, Running, main, Unread
<1>6. CASE BackoffEnds
  BY <1>6, QuietEvidence DEF BackoffEnds, Running, main, Unread
<1>7. CASE ConnectFails \/ Unwound
  BY <1>7, OnErrorEvidence DEF ConnectFails, Unwound
<1>8. CASE \E b \in {{}} \cup {{i} : i \in Instruments} : Receive(b)
  <2>1. PICK b \in {{}} \cup {{i} : i \in Instruments} : Receive(b)
    BY <1>8
  <2> QED  BY <2>1, ReceiveEvidence
<1> QED
  BY <1>1, <1>2, <1>3, <1>4, <1>5, <1>6, <1>7, <1>8, AttemptEvidence, SubscribeEvidence,
     ReceiveJumpEvidence, SendPingEvidence, ControlFrameEvidence DEF Transport

\* What a step of a tick leaves of v: every envelope in order; and, unless it raised,
\* nothing to be marked that was not before, and readiness as it was.
Ticked(r, v, forced) ==
    /\ AllSound(r.w)
    /\ r.raised = "no" =>
          /\ Marks(r.w)
          /\ Pending(r.w) => r.w.paused \/ (Pending(v) /\ ~v.paused)
          /\ ReadyIn(v, books, gen, force) => ReadyIn(r.w, books, gen, force \/ forced)

LEMMA TickedSame ==
    ASSUME NEW q, NEW r, NEW v, NEW forced, Ticked(q, v, forced), SameLog(r.w, q.w),
           r.raised = "no" => q.raised = "no"
    PROVE  Ticked(r, v, forced)
<1>1. AllSound(r.w) /\ (Marks(q.w) => Marks(r.w)) /\ (Pending(r.w) <=> Pending(q.w))
  BY SameMarks DEF Ticked
<1>2. ReadyIn(q.w, books, gen, force \/ forced) => ReadyIn(r.w, books, gen, force \/ forced)
  BY ReadySame DEF SameLog
<1> QED  BY <1>1, <1>2 DEF Ticked, SameLog

\* check_disk
LEMMA DiskCheckedEvidence ==
    ASSUME NEW v, WInv(v), v.chunk # "broken", gen \in Nat, Marks(v), NEW c \in DiskChecked(v)
    PROVE  Ticked(c.r, v, c.forced)
<1>1. v \in Writer /\ AllSound(v)
  BY DEF WInv, Marks
<1>2. CASE c = [r |-> Ok(v), forced |-> FALSE]
  <2>1. c.r.w = v /\ c.forced = FALSE
    BY <1>2 DEF Ok
  <2>2. ReadyIn(v, books, gen, force) => ReadyIn(c.r.w, books, gen, force \/ c.forced)
    BY <2>1 DEF ReadyIn
  <2> QED  BY <1>1, <2>1, <2>2 DEF Ticked
<1>3. ASSUME v.paused, NEW r \in Resume(v, gen), c = [r |-> r, forced |-> r.raised = "no"]
      PROVE  Ticked(c.r, v, c.forced)
  <2>1. /\ AllSound(r.w)
        /\ r.raised = "no" => Marks(r.w) /\ ~Pending(r.w)
        /\ \A k \in DOMAIN r.w.log :
              (k \in DOMAIN v.log /\ r.w.log[k] = v.log[k]) \/ r.w.log[k].gen = gen
    BY <1>1, <1>3, ResumeMarks
  <2>2. c.r = r /\ c.forced = (r.raised = "no")
    BY <1>3
  <2>3. ReadyIn(v, books, gen, force) => ReadyIn(r.w, books, gen, TRUE)
    BY <2>1 DEF ReadyIn
  <2> QED  BY <2>1, <2>2, <2>3 DEF Ticked
<1>4. ASSUME NEW r \in Flush(v),
             c = [r |-> [r EXCEPT !.w = IF r.raised = "no" THEN Pause(@) ELSE @],
                  forced |-> FALSE]
      PROVE  Ticked(c.r, v, c.forced)
  <2>1. r \in Outcome /\ r.w \in Writer
    BY FlushSafe DEF Safe, WInv
  <2>2. SameLog(r.w, v)
    BY FlushLog
  <2>3. /\ c.r.w = IF r.raised = "no" THEN Pause(r.w) ELSE r.w
        /\ c.r.raised = r.raised /\ c.forced = FALSE
    BY <1>4, <2>1 DEF Outcome
  <2>4. Pause(r.w).log = v.log /\ Pause(r.w).paused
    BY <2>1, <2>2 DEF Pause, Writer, SameLog
  <2>5. CASE r.raised = "no"
    <3>1. c.r.w.log = v.log /\ c.r.w.paused
      BY <2>3, <2>4, <2>5
    <3>2. AllSound(c.r.w) /\ Marks(c.r.w)
      BY <1>1, <3>1 DEF AllSound, Marks
    <3>3. ReadyIn(v, books, gen, force) => ReadyIn(c.r.w, books, gen, force \/ c.forced)
      BY <2>3, <3>1 DEF ReadyIn
    <3> QED  BY <3>1, <3>2, <3>3 DEF Ticked
  <2>6. CASE r.raised # "no"
    BY <1>1, <2>2, <2>3, <2>6 DEF Ticked, AllSound, SameLog
  <2> QED  BY <2>5, <2>6
<1> QED  BY <1>2, <1>3, <1>4 DEF DiskChecked

\* The work of a tick.
LEMMA TickWorkEvidence ==
    ASSUME NEW v, WInv(v), v.chunk # "broken", gen \in Nat, Marks(v), TickWork(v)
    PROVE  /\ AllSound(w')
           /\ ticker' # "raised" =>
                 /\ Marks(w')
                 /\ Pending(w') => w'.paused \/ (Pending(v) /\ ~v.paused)
                 /\ ReadyIn(v, books, gen, force) => ReadyIn(w', books, gen, force')
<1>1. PICK c \in DiskChecked(v) :
          /\ force' = (force \/ c.forced)
          /\ \E r \in ThenState(ThenRotate(c.r)) :
                /\ w' = r.w
                /\ ticker' = IF r.raised # "no" THEN "raised"
                             ELSE IF Ending THEN "done" ELSE "sleep"
  BY DEF TickWork
<1>2. PICK r \in ThenState(ThenRotate(c.r)) :
          /\ w' = r.w
          /\ ticker' = IF r.raised # "no" THEN "raised"
                       ELSE IF Ending THEN "done" ELSE "sleep"
  BY <1>1
<1>3. Safe(c.r) /\ c.r.w.chunk # "broken" /\ WInv(c.r.w)
  BY DiskCheckedSafe DEF Safe
<1>4. Ticked(c.r, v, c.forced)
  BY DiskCheckedEvidence
<1>5. ASSUME NEW q \in ThenRotate(c.r)
      PROVE  Safe(q) /\ Ticked(q, v, c.forced)
  <2>1. CASE q = c.r
    BY <1>3, <1>4, <2>1
  <2>2. CASE c.r.raised = "no" /\ q \in Seal(c.r.w)
    <3>1. SameLog(q.w, c.r.w) /\ Safe(q)
      BY <1>3, <2>2, SealLog, SealSafe DEF SealedWell
    <3> QED  BY <1>4, <2>2, <3>1, TickedSame
  <2> QED  BY <2>1, <2>2 DEF ThenRotate
<1>6. PICK q \in ThenRotate(c.r) :
          SameLog(r.w, q.w) /\ (r.raised = "no" => q.raised = "no")
  BY <1>5, ThenStateLog
<1>7. Ticked(r, v, c.forced)
  BY <1>5, <1>6, TickedSame
<1> QED  BY <1>1, <1>2, <1>7 DEF Ticked

\* After a tick.
LEMMA TickedEvidence ==
    ASSUME EInv, IInv', Running, ticker # "raised", UNCHANGED <<main, line, gen, books>>,
           NEW v, SameLog(v, w), AllSound(w'),
           ticker' # "raised" =>
                 /\ Marks(w')
                 /\ Pending(w') => w'.paused \/ (Pending(v) /\ ~v.paused)
                 /\ ReadyIn(v, books, gen, force) => ReadyIn(w', books, gen, force')
    PROVE  MarkInv' /\ ReadyInv'
<1>1. Sealable /\ ReadyIn(w, books, gen, force) /\ Careful(w, run, line)
  BY Session DEF Running
<1>2. MarkedIn(w')
  BY SoundIsMarked DEF IInv, TypeOK, WriterInv
<1>3. Sealable' => Marks(w') /\ Careful(w', run', line')
  <2>1. Sealable' => ticker' # "raised"
    BY DEF Sealable, Running, main
  <2>2. Pending(v) /\ ~v.paused => Pending(w) /\ ~w.paused
    BY SameMarks DEF SameLog
  <2> QED  BY <1>1, <2>1, <2>2 DEF Careful, Running, main
<1>4. ReadyIn(v, books, gen, force)
  BY <1>1, ReadySame DEF SameLog
<1>5. ReadyInv'
  BY <1>4 DEF ReadyInv
<1> QED  BY <1>2, <1>3, <1>5 DEF MarkInv

LEMMA TickEvidence ==
    ASSUME EInv, IInv', TickWakes \/ TickSynced
    PROVE  MarkInv' /\ ReadyInv'
<1>1. /\ Running /\ ticker # "raised" /\ UNCHANGED <<main, line, gen, books>>
      /\ run \in {"running", "closing"}
  BY DEF TickWakes, TickSynced, Running
<1>2. /\ w \in Writer /\ WInv(w) /\ gen \in Nat /\ Marks(w) /\ AllSound(w)
      /\ w.chunk # "broken" /\ SameLog(w, w)
  <2>1. w.chunk # "broken"
    BY <1>1 DEF EInv, IInv, WriterInv, Running
  <2> QED  BY <1>1, <2>1, Session DEF SameLog
<1>3. CASE TickSynced
  <2>1. TickWork(w)
    BY <1>3 DEF TickSynced
  <2> QED  BY <1>1, <1>2, <2>1, TickWorkEvidence, TickedEvidence
<1>4. CASE TickWakes
  <2>1. PICK r \in Flush(w) :
          IF r.raised # "no"
          THEN w' = r.w /\ ticker' = "raised" /\ UNCHANGED force
          ELSE \/ TickWork(r.w)
               \/ w.chunk # "none" /\ w' = r.w /\ ticker' = "sync" /\ UNCHANGED force
    BY <1>4 DEF TickWakes
  <2>2. /\ SameLog(r.w, w) /\ WInv(r.w) /\ r.w.chunk # "broken"
    BY <1>2, FlushLog, FlushSafe DEF Safe, BrokenAlike
  <2>3. Marks(r.w) /\ AllSound(r.w)
    BY <1>2, <2>2, SameMarks
  <2>4. CASE r.raised = "no" /\ TickWork(r.w)
    BY <1>1, <1>2, <2>2, <2>3, <2>4, TickWorkEvidence, TickedEvidence
  <2>5. CASE w' = r.w /\ UNCHANGED force
    <3>1. Pending(w') => w'.paused \/ (Pending(r.w) /\ ~r.w.paused)
      BY <2>5
    <3>2. AllSound(w') /\ Marks(w')
      BY <2>3, <2>5
    <3>3. ReadyIn(r.w, books, gen, force) => ReadyIn(w', books, gen, force')
      BY <2>5
    <3> QED  BY <1>1, <2>2, <3>1, <3>2, <3>3, TickedEvidence
  <2> QED  BY <2>1, <2>4, <2>5
<1> QED  BY <1>3, <1>4

-----------------------------------------------------------------------------
(* The end of the session.                                                  *)

LEMMA MainEvidence ==
    ASSUME EInv, MainWakes \/ Closed \/ Deadline \/ Signal
    PROVE  MarkInv' /\ ReadyInv'
<1>1. run \in {"running", "closing"} /\ UNCHANGED <<w, gen, books, force>>
  BY DEF MainWakes, Closed, Deadline, Signal, Running
<1>2. MarkedIn(w') /\ (Sealable => Marks(w') /\ Careful(w', run, line))
  BY <1>1 DEF EInv, MarkInv
<1>3. CASE MainWakes
  <2>1. Sealable' => Sealable
    BY <1>3 DEF Sealable, MainWakes, TaskRaised, Running
  <2>2. run' = "closing"
    BY <1>3 DEF MainWakes
  <2> QED  BY <1>2, <2>1, <2>2 DEF MarkInv, ReadyInv, Careful
<1>4. CASE Closed
  <2>1. run' = "closing" /\ (Sealable' => Sealable)
    BY <1>4 DEF Sealable, Closed, main
  <2> QED  BY <1>2, <2>1 DEF MarkInv, ReadyInv, Careful
<1>5. CASE Deadline \/ Signal
  <2>1. UNCHANGED <<run, reason, line, ticker>>
    BY <1>5 DEF Deadline, Signal, main
  <2> QED  BY <1>1, <1>2, <2>1 DEF EInv, MarkInv, ReadyInv, Sealable
<1> QED  BY <1>3, <1>4, <1>5

LEMMA FinishEvidence ==
    ASSUME EInv, IInv', Finish
    PROVE  MarkInv' /\ ReadyInv'
<1>1. run = "closing" /\ run \in {"running", "closing"} /\ run' \in {"final", "failed"}
  BY DEF Finish
<1>2. ReadyInv' /\ ~Sealable'
  BY <1>1 DEF ReadyInv, Sealable
<1>3. PICK e \in Ends : \E r \in StateFiles(e.w) : w' = r.w
  BY DEF Finish
<1>4. PICK r \in StateFiles(e.w) : w' = r.w
  BY <1>3
<1>5. WInv(e.w) /\ SamePairs(r.w, e.w) /\ SameLog(r.w, e.w)
  BY <1>1, EndsSafe, StateFilesLog DEF EInv
<1>6. w \in Writer /\ WInv(w) /\ Linked(w) /\ Grew(w, w)
  BY <1>1, Session DEF WInv
<1>7. MarkedIn(w')
  <2>1. CASE reason = "partial"
    <3>1. e \in KeepPart
      BY <2>1 DEF Ends
    <3>2. e.w \in {w, Broken(w)}
      BY <3>1 DEF KeepPart
    <3>3. /\ Broken(w) \in Writer /\ SameLog(Broken(w), w) /\ Broken(w).files = w.files
      BY <1>6, BrokenSafe, FilesKeepLog
    <3>4. Grew(e.w, w)
      <4>1. Grew(Broken(w), w)
        <5> DEFINE b == Broken(w)
        <5>1. b.log = w.log /\ b.files = w.files /\ b \in Writer /\ Len(w.log) \in Nat
          BY <1>6, <3>3, WriterFields DEF SameLog
        <5> HIDE DEF b
        <5> QED  BY <1>6, <5>1 DEF Grew, SamePairs, PairsOf, b
      <4> QED  BY <1>6, <3>2, <4>1
    <3>5. Grew(w', w)
      BY <1>4, <1>5, <3>4, SameGrew
    <3> QED  BY <1>6, <3>5, MarkedStays DEF EInv, MarkInv
  <2>2. CASE reason # "partial"
    <3>1. AllSound(w) /\ w.chunk # "broken"
      BY <1>1, <2>2 DEF EInv, MarkInv, Sealable, Marks, IInv, WriterInv
    <3> DEFINE u == [w EXCEPT !.paused = FALSE]
    <3>2. PICK s \in Seal(u) :
            e = [w |-> s.w, why |-> IF s.raised = "OSError" THEN "partial_seal" ELSE reason]
      BY <2>2 DEF Ends
    <3>3. Kept(u, w) /\ u.log = w.log
      BY <1>6, PauseKept DEF Writer
    <3> HIDE DEF u
    <3>4. WInv(u)
      BY <1>6, <3>3, KeptHolds DEF Kept
    <3>5. SameLog(s.w, u) /\ e.w = s.w
      BY <3>2, <3>4, SealLog
    <3>6. AllSound(w')
      BY <1>4, <1>5, <3>1, <3>3, <3>5 DEF SameLog, AllSound
    <3> QED  BY <3>6, SoundIsMarked DEF IInv, TypeOK, WriterInv
  <2> QED  BY <2>1, <2>2
<1> QED  BY <1>2, <1>7 DEF MarkInv

LEMMA CrashEvidence ==
    ASSUME EInv, IInv', Crash
    PROVE  MarkInv' /\ ReadyInv'
<1>1. run \in {"running", "closing"} /\ run' = "crashed"
  BY DEF Crash
<1>2. ReadyInv' /\ ~Sealable'
  BY <1>1 DEF ReadyInv, Sealable
<1>3. PICK v \in IF Sealing THEN Stages ELSE {w} :
          w' = [NewWriter EXCEPT !.files = v.files, !.log = v.log]
  BY DEF Crash
<1>4. w \in Writer /\ WInv(w) /\ Linked(w)
  BY <1>1, Session DEF WInv
<1>5. w'.files = v.files /\ w'.log = v.log /\ w' \in Writer /\ Linked(w')
  BY <1>3 DEF NewWriter, EInv, IInv, TypeOK, WriterInv
<1>6. CASE v = w
  <2>1. Grew(w', w)
    BY <1>4, <1>5, <1>6, WriterFields DEF Grew, SamePairs, PairsOf
  <2> QED  BY <1>2, <1>4, <2>1, MarkedStays DEF EInv, MarkInv
<1>7. CASE v # w
  <2>1. Sealing /\ w.chunk = "open" /\ v \in CutShort(w)
    BY <1>3, <1>7 DEF Stages, CutShort
  <2>2. AllSound(w)
    BY <2>1 DEF EInv, MarkInv, Sealing, Sealable, Marks, Running
  <2>3. v.log = w.log
    <3>1. Renamed(w) \in Writer
      BY <1>4, <2>1, CutShortLinked DEF CutShort
    <3> QED  BY <1>4, <2>1, <3>1, FilesKeepLog DEF CutShort, SameLog
  <2>4. AllSound(w')
    BY <1>5, <2>2, <2>3 DEF AllSound
  <2> QED  BY <1>2, <1>5, <2>4, SoundIsMarked DEF MarkInv
<1> QED  BY <1>6, <1>7

LEMMA InitEvidence == Init => EInv
<1> SUFFICES ASSUME Init  PROVE EInv
  OBVIOUS
<1>1. IInv /\ Linked(w) /\ w \in Writer
  BY InitIInv DEF IInv, TypeOK, WriterInv
<1>2. w.log = <<>> /\ w.lost = {}
  BY DEF Init, NewWriter, Pause
<1>3. DOMAIN w.log = {}
  BY <1>2
<1>4. AllSound(w) /\ Marks(w) /\ ~Pending(w) /\ ReadyIn(w, {}, gen, force)
  BY <1>2, <1>3 DEF AllSound, Marks, Pending, PendingLoss, PendingJump, ReadyIn
<1>5. MarkedIn(w)
  BY <1>1, <1>4, SoundIsMarked
<1> QED  BY <1>1, <1>4, <1>5 DEF EInv, MarkInv, ReadyInv, Careful, Init

LEMMA NextEvidence == EInv /\ [Next]_vars => EInv'
<1> SUFFICES ASSUME EInv, [Next]_vars  PROVE EInv'
  OBVIOUS
<1>1. IInv'
  BY NextIInv DEF EInv
<1>2. CASE UNCHANGED vars
  BY <1>1, <1>2 DEF vars, EInv, MarkInv, ReadyInv, Sealable
<1>3. CASE Next
  <2>1. (MarkInv' /\ ReadyInv') \/ UNCHANGED vars
    BY <1>1, <1>3, TransportEvidence, TickEvidence, MainEvidence, FinishEvidence,
       CrashEvidence DEF Next
  <2> QED  BY <1>1, <1>2, <2>1 DEF EInv
<1> QED  BY <1>2, <1>3

LEMMA EInvMarked == EInv => LossIsMarked
  BY DEF EInv, MarkInv, MarkedIn, FramesOf, SoundAt, Gap, LossIsMarked, InPairs, Pairs,
         IsReceived, Marked

LEMMA EInvReady == EInv => ReadyIsBacked
  BY DEF EInv, ReadyInv, ReadyIn, ReadyIsBacked, Running

(***************************************************************************)
(* No loss is hidden: in what was published, no message of the venue       *)
(* follows dropped frames, a failed write or a hole in the sequence that   *)
(* nothing in between tells of (ChunkWriter.write and resume, the          *)
(* on_error of the transport), wherever the storage failed or the process  *)
(* died.                                                                   *)
(***************************************************************************)
THEOREM LossesAreMarked == Spec => []LossIsMarked
  BY InitEvidence, NextEvidence, EInvMarked, PTL DEF Spec

(***************************************************************************)
(* A book is counted for readiness only when its initial message is on     *)
(* disk in this generation, and no pause dropped anything of it            *)
(* (GenerationTracker.observe, check_disk and the force event).            *)
(***************************************************************************)
THEOREM ReadyBooksAreBacked == Spec => []ReadyIsBacked
  BY InitEvidence, NextEvidence, EInvReady, PTL DEF Spec
=============================================================================
