-------------------------- MODULE TopBookEmission --------------------------
(***************************************************************************)
(* TopbookEmissionTracker: which rows of the top of the book a capture     *)
(* stores.  A change of state goes to the main role; a state seen again is *)
(* a checkpoint, when a boundary of the capture or an interval asks for    *)
(* one; every row has a receive time no other row of its instrument has.   *)
(*                                                                         *)
(* Every map of the tracker is keyed by instrument, so that instruments do *)
(* not meet: the module follows one.  The capture that calls the tracker   *)
(* is not in the repository: its calls are the actions.  Left out: calls   *)
(* the tracker turns down, with an empty identity, an unknown reason or a  *)
(* receive time that cannot be parsed.                                     *)
(***************************************************************************)
EXTENDS Integers, Sequences

CONSTANTS
  Fingerprints,   \* what topbook_state_fingerprint tells apart
  LastReceived,   \* bound on the wall clock, which may stand still or step back
  LastMono,       \* bound on the monotonic clock
  Interval,       \* checkpoint_interval_ns
  MaxStored       \* bound on emitted rows

ASSUME EmissionAssumption ==
  /\ LastReceived \in Nat /\ LastMono \in Nat /\ Interval \in Nat \ {0} /\ MaxStored \in Nat
  /\ "unseen" \notin Fingerprints

VARIABLES
  quote,   \* the tracker: the last fingerprint, when it last stored a row, the last receive time
  stored,  \* the rows it emitted, in order
  mono     \* the monotonic clock

emissionVars == <<quote, stored, mono>>

Unseen == "unseen"
EmissionInit ==
  /\ quote = [print |-> Unseen, checkpoint |-> 0, last |-> -1]
  /\ stored = <<>> /\ mono = 0

Keys == {stored[n].received : n \in DOMAIN stored}
RestatementDue == mono - quote.checkpoint >= Interval

\* The receive time a row of the main role is stored with: later than every stored one.
TakenLater(received) ==
  CHOOSE t \in received .. received + Len(stored) :
    t \notin Keys /\ \A u \in received .. t - 1 : u \in Keys
TimeNotTaken(received) == TakenLater(received)
MainTime(received) ==
  IF received > quote.last THEN received
  ELSE TakenLater(quote.last + 1)

Store(role, print, received) ==
  /\ stored' = Append(stored, [role |-> role, print |-> print, received |-> received])
  /\ quote' = [print |-> print, checkpoint |-> mono, last |-> received]

\* observe: a change (or any row, of a dense profile) is stored; a restatement when it is asked
\* for or due, unless its receive time is not new: it is left to a later one.
Observe(print, received, asked, dense) ==
  IF print # quote.print \/ dense THEN Store("main", print, MainTime(received))
  ELSE IF (asked \/ RestatementDue) /\ received > quote.last /\ received \notin Keys
    THEN Store("checkpoint", print, received)
  ELSE UNCHANGED <<quote, stored>>

ObserveRow ==
  \E print \in Fingerprints, received \in 0 .. LastReceived, asked, dense \in BOOLEAN :
    /\ Len(stored) < MaxStored
    /\ Observe(print, received, asked, dense) /\ UNCHANGED mono

\* due_restatements and boundary_restatements, with the time of the boundary: they observe the
\* row that was observed last.
RestateWhenDue ==
  \E received \in 0 .. LastReceived :
    /\ Len(stored) < MaxStored /\ quote.print # Unseen /\ RestatementDue
    /\ Observe(quote.print, received, TRUE, FALSE) /\ UNCHANGED mono
RestateAtBoundary ==
  \E received \in 0 .. LastReceived :
    /\ Len(stored) < MaxStored /\ quote.print # Unseen
    /\ Observe(quote.print, received, TRUE, FALSE) /\ UNCHANGED mono

Elapse == mono < LastMono /\ mono' = mono + 1 /\ UNCHANGED <<quote, stored>>

EmissionNext == ObserveRow \/ RestateWhenDue \/ RestateAtBoundary \/ Elapse

-----------------------------------------------------------------------------
\* Whoever reads both roles in the order of their receive times reads what the capture observed:
\* no two rows share a time, the order is the order of emission though the clock may step back,
\* a checkpoint restates the row of the main role before it, and the last of those is the state
\* that was observed last.
Mains(n) == {m \in 1 .. n : stored[m].role = "main"}
EmissionReplays ==
  /\ \A m, n \in DOMAIN stored : m < n => stored[m].received < stored[n].received
  /\ \A n \in DOMAIN stored :
       LET m == CHOOSE m \in Mains(n) : \A k \in Mains(n) : k <= m
       IN stored[m].print = stored[n].print
  /\ stored # <<>> => stored[Len(stored)].print = quote.print
=============================================================================
