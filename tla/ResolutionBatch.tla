--------------------------- MODULE ResolutionBatch ---------------------------
(***************************************************************************)
(* resolve_ordered_batch: markets are resolved by a fixed number of        *)
(* workers, which take the next market from a shared index, within one     *)
(* deadline; the results are those of all markets in the order of the      *)
(* input, or an exception.  A step of a worker is what it does between two  *)
(* awaits.  What one market resolves to is in ResolutionCache.             *)
(***************************************************************************)
EXTENDS Integers, FiniteSets

CONSTANTS
  BatchSize,     \* len(prepared)
  Concurrency    \* concurrency

ASSUME BatchAssumption == BatchSize \in Nat \ {0} /\ Concurrency \in Nat \ {0}

Inputs == 1 .. BatchSize
Workers == 1 .. (IF Concurrency < BatchSize THEN Concurrency ELSE BatchSize)

VARIABLES
  batch,    \* the caller: phase, next_index, results; whether the deadline has passed
  crew,     \* the workers
  begun     \* how often each market was begun, for the properties only

batchVars == <<batch, crew, begun>>

NoWorker == [at |-> "none", item |-> 0]
BatchInit ==
  /\ batch = [phase |-> "preparing", next |-> 1, results |-> {}, expired |-> FALSE]
  /\ crew = [w \in Workers |-> NoWorker]
  /\ begun = [i \in Inputs |-> 0]

AtEnd == {"none", "done", "failed"}
Busy == {w \in Workers : crew[w].at \notin AtEnd}

\* OperationExpiry: the deadline passes.
Expire ==
  /\ ~batch.expired /\ batch.phase \notin {"returned", "raised"}
  /\ batch' = [batch EXCEPT !.expired = TRUE] /\ UNCHANGED <<crew, begun>>

\* All inputs are prepared before any is read; a bad one, or the deadline, ends the batch.
Prepare ==
  /\ batch.phase = "preparing"
  /\ \E good \in BOOLEAN :
       batch' = [batch EXCEPT !.phase = IF good /\ ~batch.expired THEN "creating" ELSE "raised"]
  /\ UNCHANGED <<crew, begun>>

\* cancel_and_drain: a worker that has not finished is cancelled.
Cancelling(workers) ==
  [w \in Workers |->
     IF workers[w].at \in AtEnd THEN workers[w] ELSE [workers[w] EXCEPT !.at = "cancelling"]]

\* The tasks are created one after the other; when one cannot be, those before it are drained.
CreateWorkers ==
  /\ batch.phase = "creating"
  /\ \E created \in 0 .. Cardinality(Workers) :
       LET tasks == [w \in Workers |-> IF w <= created THEN [NoWorker EXCEPT !.at = "ready"] ELSE NoWorker]
           all == created = Cardinality(Workers)
       IN /\ crew' = IF all THEN tasks ELSE Cancelling(tasks)
          /\ batch' = [batch EXCEPT !.phase = IF all THEN "waiting" ELSE "draining"]
  /\ UNCHANGED begun

-----------------------------------------------------------------------------
\* A worker.

\* A fault: the index moves when the market has been resolved.
TakeNextLater(w, results) ==
  LET next == Cardinality(results) + 1 IN
  IF batch.expired \/ next > BatchSize
    THEN /\ crew' = [crew EXCEPT ![w] = [NoWorker EXCEPT !.at = IF batch.expired THEN "failed" ELSE "done"]]
         /\ batch' = [batch EXCEPT !.results = results] /\ UNCHANGED begun
    ELSE /\ crew' = [crew EXCEPT ![w] = [at |-> "reading", item |-> next]]
         /\ batch' = [batch EXCEPT !.results = results]
         /\ begun' = [begun EXCEPT ![next] = @ + 1]

\* The top of the loop: the deadline, the end of the input, or the next market, up to the first
\* await of resolve_one.
TakeNext(w, results) ==
  IF batch.expired \/ batch.next > BatchSize
    THEN /\ crew' = [crew EXCEPT ![w] = [NoWorker EXCEPT !.at = IF batch.expired THEN "failed" ELSE "done"]]
         /\ batch' = [batch EXCEPT !.results = results] /\ UNCHANGED begun
    ELSE /\ crew' = [crew EXCEPT ![w] = [at |-> "reading", item |-> batch.next]]
         /\ batch' = [batch EXCEPT !.results = results, !.next = @ + 1]
         /\ begun' = [begun EXCEPT ![batch.next] = @ + 1]

WorkerStarts(w) == crew[w].at = "ready" /\ TakeNext(w, batch.results)
Resolved(w) ==
  crew[w].at = "reading" /\ TakeNext(w, batch.results \cup {crew[w].item})

\* An error that is no answer of a source, or the deadline inside resolve_one.
ResolveRaises(w) ==
  /\ crew[w].at = "reading"
  /\ crew' = [crew EXCEPT ![w].at = "failed"] /\ UNCHANGED <<batch, begun>>

CancelDelivered(w) ==
  /\ crew[w].at = "cancelling"
  /\ crew' = [crew EXCEPT ![w].at = "done"] /\ UNCHANGED <<batch, begun>>

\* wait_for of Python 3.10 and 3.11 drops a cancellation that comes with the result: the worker
\* goes on.
CancelLost(w) ==
  /\ crew[w].at = "cancelling" /\ crew[w].item # 0
  /\ TakeNext(w, batch.results \cup {crew[w].item})

-----------------------------------------------------------------------------
\* The caller.

Failed == \E w \in Workers : crew[w].at = "failed"
GatherRaises ==
  /\ batch.phase = "waiting" /\ Failed
  /\ crew' = Cancelling(crew)
  /\ batch' = [batch EXCEPT !.phase = "draining"] /\ UNCHANGED begun

\* Also while the workers are drained.
CallerCancelled ==
  /\ batch.phase \in {"waiting", "draining"}
  /\ crew' = Cancelling(crew)
  /\ batch' = [batch EXCEPT !.phase = "draining"] /\ UNCHANGED begun

Drained ==
  /\ batch.phase = "draining" /\ Busy = {}
  /\ batch' = [batch EXCEPT !.phase = "raised"] /\ UNCHANGED <<crew, begun>>

GatherReturns ==
  /\ batch.phase = "waiting" /\ Busy = {} /\ ~Failed
  /\ batch' = [batch EXCEPT
                 !.phase = IF batch.expired \/ batch.results # Inputs THEN "raised" ELSE "returned"]
  /\ UNCHANGED <<crew, begun>>

BatchNext ==
  \/ Expire \/ Prepare \/ CreateWorkers \/ GatherRaises \/ CallerCancelled
  \/ Drained \/ GatherReturns
  \/ \E w \in Workers :
       WorkerStarts(w) \/ Resolved(w) \/ ResolveRaises(w) \/ CancelDelivered(w) \/ CancelLost(w)

-----------------------------------------------------------------------------
\* No market is begun twice; a list is returned only with all results and in time; and whatever
\* ended the batch, and however often it was cancelled, no worker is left behind.
BatchIsWhole ==
  /\ \A i \in Inputs : begun[i] <= 1
  /\ batch.phase = "returned" =>
       batch.results = Inputs /\ ~batch.expired /\ \A i \in Inputs : begun[i] = 1
  /\ batch.phase \in {"returned", "raised"} => Busy = {}
=============================================================================
