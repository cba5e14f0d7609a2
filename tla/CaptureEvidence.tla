-------------------------- MODULE CaptureEvidence --------------------------
(***************************************************************************)
(* Did the capture of a shard observe what it asked for?  For each attempt *)
(* to subscribe, CaptureInstrumentEvidenceTracker notes when it was        *)
(* established and when each instrument had its first book; at the end the *)
(* notes become rows, a summary and a verdict, which a manifest carries    *)
(* and its reader reconciles with the rows.  A process that dies leaves a  *)
(* prefix of the rows, and recovery writes the manifest from those.        *)
(*                                                                         *)
(* The collector that feeds the tracker is not in the repository: its      *)
(* calls are the actions of this module.                                   *)
(***************************************************************************)
EXTENDS Integers, Sequences, FiniteSets

CONSTANTS
  Requested,     \* instruments of the shard: 1 .. Requested, in their order
  MaxTries,      \* bound on attempts to subscribe
  MaxNotes,      \* bound on observed books
  LastTick,      \* bound on the clock
  EligibleAge,   \* eligibility_max_age_seconds
  RowBatch,      \* rows of a committed batch (DEFAULT_TERMINAL_EVIDENCE_BATCH_ROWS)
  InitialSla     \* initialization_sla_seconds

ASSUME EvidenceAssumption ==
  /\ Requested \in Nat \ {0} /\ MaxTries \in Nat \ {0} /\ MaxNotes \in Nat
  /\ {LastTick, EligibleAge, RowBatch, InitialSla} \subseteq Nat

NotYet == -1
RequestedIds == 1 .. Requested

\* What the metadata of the subscription says of an instrument: a status, whether its source
\* is authoritative, and when it was observed.  (No evidence and malformed evidence read like
\* unsound evidence.)
ListedSource == [status |-> "eligible", sound |-> TRUE, at |-> 0]
Sources ==
  {ListedSource, [ListedSource EXCEPT !.sound = FALSE],
   [ListedSource EXCEPT !.status = "ineligible"]}

VARIABLES
  tracker,    \* the tracker: integrity_evidence, its sources, its attempts
  tick,       \* the clock
  evidence,   \* what is left of the capture: rows, report, what a reader made of it
  witnessed   \* the calls since the last attempt began, for the properties only

evidenceVars == <<tracker, tick, evidence, witnessed>>

Begun(n) ==
  [noted |-> n, begun |-> tick, established |-> {}, books |-> [i \in RequestedIds |-> <<>>]]
NoReport == [crashed |-> FALSE]
EvidenceInit ==
  /\ tracker \in [integrity : BOOLEAN, sources : [RequestedIds -> Sources], attempts : {<<>>}]
  \* Bounded: the venue lists all but the last instrument; of the older tracker that one too.
  /\ \A i \in RequestedIds : (tracker.integrity /\ i = Requested) \/ tracker.sources[i] = ListedSource
  /\ tick = 0 /\ witnessed = Begun(0)
  /\ evidence = [rows |-> {}, report |-> NoReport, read |-> "no"]

-----------------------------------------------------------------------------
\* The tracker.

Capturing == evidence.report = NoReport /\ evidence.read = "no"
Attempt == [checked |-> tick, established |-> NotYet,
            first |-> [i \in RequestedIds |-> NotYet], intact |-> [i \in RequestedIds |-> FALSE]]
WithAttempt(attempts) == IF attempts = <<>> THEN <<Attempt>> ELSE attempts

BeginSubscription ==
  /\ Capturing /\ Len(tracker.attempts) < MaxTries
  /\ tracker' = [tracker EXCEPT !.attempts = Append(@, Attempt)]
  /\ witnessed' = Begun(witnessed.noted)
  /\ UNCHANGED <<tick, evidence>>

\* The subscription was sent and not rejected: once for each socket.
Establish ==
  /\ Capturing
  /\ tracker.attempts # <<>> /\ tracker.attempts[Len(tracker.attempts)].established = NotYet
  /\ tracker' = [tracker EXCEPT !.attempts[Len(tracker.attempts)].established = tick]
  /\ witnessed' = [witnessed EXCEPT !.established = @ \cup {tick}]
  /\ UNCHANGED <<tick, evidence>>

Noting(a, i, intact) ==
  [a EXCEPT !.first[i] = IF intact /\ @ = NotYet THEN tick ELSE @, !.intact[i] = intact]

\* The older tracker counts a first valid snapshot, and is told of nothing else; the one with
\* integrity evidence is told of every book, and remembers whether the last one was intact.
RecordInstrumentBook ==
  \E i \in RequestedIds : \E intact \in BOOLEAN :
    /\ Capturing /\ witnessed.noted < MaxNotes /\ (tracker.integrity \/ intact)
    /\ LET attempts == WithAttempt(tracker.attempts) IN
         tracker' = [tracker EXCEPT !.attempts =
                     [attempts EXCEPT ![Len(attempts)] = Noting(@, i, intact)]]
    /\ witnessed' = [(IF tracker.attempts = <<>> THEN Begun(0) ELSE witnessed) EXCEPT
                       !.books[i] = Append(@, [at |-> tick, intact |-> intact]), !.noted = @ + 1]
    /\ UNCHANGED <<tick, evidence>>

CaptureTick ==
  /\ Capturing /\ tick < LastTick
  /\ tick' = tick + 1 /\ UNCHANGED <<tracker, evidence, witnessed>>

\* Eligibility as the attempt saw it: an unsound or an old source says nothing.
Eligibility(i, checked) ==
  LET s == tracker.sources[i] IN
    IF s.sound /\ checked - s.at <= EligibleAge THEN s.status ELSE "unknown"

Later(s, t) == IF t > s THEN t - s ELSE 0
Verdict(a, i) ==
  IF Eligibility(i, a.checked) = "ineligible" THEN <<"not_required", "ineligible">>
  ELSE IF a.established = NotYet THEN <<"missing", "not_established">>
  ELSE IF a.first[i] = NotYet THEN <<"missing", "missing">>
  ELSE IF Later(a.established, a.first[i]) > InitialSla THEN <<"late", "late">>
  ELSE <<"on_time", "observed">>
OutcomeOfFirst(a, i) == Verdict(a, i)[2]
Outcome(a, i) ==
  IF tracker.integrity /\ a.first[i] # NotYet /\ ~a.intact[i]
    THEN "integrity_failed" ELSE Verdict(a, i)[2]

\* _terminal_row, as far as a summary reads it.
TerminalRow(n, i) ==
  LET a == tracker.attempts[n] IN
    [attempt |-> n, i |-> i, eligibility |-> Eligibility(i, a.checked),
     established |-> a.established # NotYet, verdict |-> Verdict(a, i)[1],
     outcome |-> Outcome(a, i), initial |-> a.first[i] # NotYet /\ (tracker.integrity => a.intact[i])]

TerminalRows == {TerminalRow(n, i) : n \in DOMAIN tracker.attempts, i \in RequestedIds}

-----------------------------------------------------------------------------
\* The summary.

Unexplained(rows) ==
  {r \in rows : /\ r.eligibility # "ineligible"
                /\ r.outcome \in {"missing", "not_established", "integrity_failed"}}
OfLatest(latest, rows, tries, established) ==
  LET eligible == {r \in latest : r.eligibility = "eligible"}
      unknown == {r \in latest : r.eligibility = "unknown"}
  IN [rows |-> rows, requested |-> Cardinality(latest), eligible |-> Cardinality(eligible),
      excluded |-> Cardinality(latest) - Cardinality(eligible \cup unknown),
      unknown |-> Cardinality(unknown), denominator |-> Cardinality(eligible \cup unknown),
      initial |-> Cardinality({r \in latest : r.initial}),
      late |-> Cardinality({r \in latest : r.verdict = "late"}),
      missing |-> Cardinality(Unexplained(latest)), attempts |-> tries,
      established |-> established,
      eligibleEstablished |-> Cardinality({r \in eligible : r.established}),
      eligibleInitial |-> Cardinality({r \in eligible : r.initial})]

\* Of the tracker, by its last attempt.
Summary ==
  LET tries == Len(tracker.attempts)
      last == {r \in TerminalRows : r.attempt = tries}
  IN OfLatest(last, tries * Cardinality(last), tries,
              Cardinality({n \in 1 .. tries : tracker.attempts[n].established # NotYet}))

\* Of rows, by the last attempt each instrument has a row of.
LatestRows(rows) ==
  {r \in rows : \A s \in rows : s.i = r.i => s.attempt <= r.attempt}
SummaryOfRows(rows) ==
  OfLatest(LatestRows(rows), Cardinality(rows), Cardinality({r.attempt : r \in rows}),
           Cardinality({r.attempt : r \in {s \in rows : s.established}}))

-----------------------------------------------------------------------------
\* evaluate_capture_completeness: how the run ended, and what it may claim of the market.

Reasons == {"deadline", "stream_error", "persistence_error"}
Usual == [reason |-> "deadline", operational |-> TRUE, hasty |-> FALSE, calibrated |-> TRUE]
\* Bounded: an ending departs from the usual one in one respect.
Endings ==
  {[Usual EXCEPT !.reason = r] : r \in Reasons}
    \cup {[Usual EXCEPT !.operational = FALSE], [Usual EXCEPT !.hasty = TRUE],
          [Usual EXCEPT !.calibrated = FALSE]}

\* hasty: it ended before the requested duration, or reconnected too often.
ExecutionFailed(end) ==
  \/ end.reason \in {"stream_error", "persistence_error"}
  \/ end.operational /\ (end.reason # "deadline" \/ end.hasty)

CaptureStatus(s, end) ==
  IF end.reason = "persistence_error" THEN "failed"
  ELSE IF end.operational /\ \/ s.denominator > 0 /\ s.initial = 0
                             \/ s.eligible > 0 /\ s.eligibleEstablished = 0
                             \/ s.eligible > 0 /\ s.eligibleInitial = 0 THEN "failed"
  ELSE IF s.unknown > 0 \/ s.late > 0 \/ s.missing > 0 THEN "partial" ELSE "complete"

Legacy(s, end) ==
  IF ~ExecutionFailed(end) /\ CaptureStatus(s, end) = "complete" THEN "success"
  ELSE IF \/ end.reason = "persistence_error"
          \/ CaptureStatus(s, end) = "failed" /\ s.initial = 0 THEN "failed" ELSE "partial"

AcceptanceEligible(s, end) ==
  /\ end.operational /\ ~ExecutionFailed(end) /\ CaptureStatus(s, end) = "complete"
  /\ end.calibrated /\ s.eligible > 0

Evaluate(s, end) ==
  [crashed |-> FALSE, ok |-> ~ExecutionFailed(end) /\ CaptureStatus(s, end) # "failed",
   acceptance |-> AcceptanceEligible(s, end), calibrated |-> end.calibrated,
   legacy |-> Legacy(s, end), counts |-> s]

\* The rows are journaled before the verdict is written.  (No ending depends on the clock, so
\* that nothing is lost by waiting for the last tick.)
FinishCapture ==
  \E end \in Endings :
    /\ Capturing /\ tick = LastTick
    /\ evidence' = [evidence EXCEPT !.rows = TerminalRows, !.report = Evaluate(Summary, end)]
    /\ UNCHANGED <<tracker, tick, witnessed>>

\* The process dies while it writes its rows, attempt by attempt, and its memory with it.
LoseProcess ==
  \E n \in {0, RowBatch, Cardinality(TerminalRows)} :
    /\ Capturing /\ tick = LastTick
    /\ evidence' = [evidence EXCEPT !.read = "lost",
                      !.rows = {r \in TerminalRows : (r.attempt - 1) * Requested + r.i <= n}]
    /\ tracker' = [tracker EXCEPT !.attempts = <<>>] /\ witnessed' = Begun(0)
    /\ UNCHANGED tick

\* _recovered_capture_completeness: the rows that were committed, and never a verdict of success.
RecoverEvidence ==
  /\ evidence.read = "lost"
  /\ evidence' = [evidence EXCEPT !.read = "no",
       !.report = [crashed |-> TRUE, ok |-> FALSE, acceptance |-> FALSE,
                   calibrated |-> FALSE, legacy |-> "partial",
                   counts |-> SummaryOfRows(evidence.rows)]]
  /\ UNCHANGED <<tracker, tick, witnessed>>

-----------------------------------------------------------------------------
\* The reader of the manifest: _capture_instrument_evidence_errors.

Reconciles(rows, report) ==
  /\ report.counts = SummaryOfRows(rows)
  /\ report.acceptance => report.calibrated

\* The rows of the last instrument may be gone from the data set by then.
ReadEvidence ==
  \E gone \in {{}, {r \in evidence.rows : r.i = Requested}} :
    /\ evidence.report # NoReport /\ evidence.read = "no"
    /\ evidence' = IF Reconciles(evidence.rows \ gone, evidence.report)
                     THEN [evidence EXCEPT !.rows = @ \ gone, !.read = "accepted"]
                     ELSE [rows |-> {}, report |-> NoReport, read |-> "refused"]
    /\ UNCHANGED <<tracker, tick, witnessed>>

CaptureEvidenceNext ==
  \/ BeginSubscription \/ Establish \/ RecordInstrumentBook \/ CaptureTick \/ FinishCapture
  \/ LoseProcess \/ RecoverEvidence \/ ReadEvidence

-----------------------------------------------------------------------------
\* Properties.

\* An intact book of the instrument came in time on the connection the capture ended with, and,
\* where integrity is evidenced, no later book of it was broken.
Observed(i) ==
  LET books == witnessed.books[i] IN
    /\ \E at \in witnessed.established : \E n \in DOMAIN books :
         books[n].intact /\ books[n].at <= at + InitialSla
    /\ tracker.integrity => books[Len(books)].intact
\* The venue said, not long before that connection, that there is no book to expect.
Excused(i) ==
  LET s == tracker.sources[i] IN
    s.status = "ineligible" /\ s.sound /\ witnessed.begun <= s.at + EligibleAge

\* Reports are honest: an acceptance report means that every requested instrument was observed
\* or excused; what the tracker counts is what its rows count; and a reader that accepts a
\* manifest reads all the rows its counts speak of, and never a crashed run as acceptable.
EvidenceIsHonest ==
  /\ evidence.report # NoReport /\ evidence.report.acceptance =>
       \A i \in RequestedIds : Observed(i) \/ Excused(i)
  /\ Summary = SummaryOfRows(TerminalRows)
  /\ evidence.read = "accepted" =>
       /\ Cardinality(evidence.rows) = evidence.report.counts.rows
       /\ ~evidence.report.crashed => evidence.rows = TerminalRows
=============================================================================
