--------------------------- MODULE ResolutionCache ---------------------------
(***************************************************************************)
(* pmkt.resolution: how two markets, one of Polymarket and one of Kalshi,  *)
(* come to their labels.  A run of resolve_market_resolution_cache asks    *)
(* the sources about the markets of its scope (polymarket.py, kalshi.py)   *)
(* and merges what they say into the rows of market_resolutions.parquet,   *)
(* out of which terminal_labels.py takes the labels it trusts.  One run at *)
(* a time.  A payout is the index of the outcome it pays; for Kalshi the   *)
(* index is the outcome itself, "yes" or "no".                             *)
(***************************************************************************)
EXTENDS Naturals, Functions

CONSTANTS MaxMoves, MaxRuns   \* moves of the venues, and runs

Platforms == {"polymarket", "kalshi"}
Labels == {"yes", "no"}

VARIABLES
  venue,       \* the chain, the labels of the outcomes, and Kalshi's market
  cache,       \* the rows of the file; `readable' unless a write was cut off
  lookup       \* the run
resolutionVars == <<venue, cache, lookup>>

\* What the cache tells apart in a record: FINAL is canonical with either
\* resolver, "weak" are OPEN, PROVISIONAL, METADATA_ONLY, UNAVAILABLE and the like;
\* "conflict" is INCONSISTENT as the cache itself writes it.  `assumed': that only
\* the default yes/no names the outcomes.  `old': by a resolver of version 1.
Row(state, label) == [state |-> state, label |-> label, assumed |-> FALSE, old |-> FALSE]
Weak == Row("weak", "none")
Conflict == Row("conflict", "none")

NoLookup == [at |-> "none", live |-> Weak, named |-> FALSE]
ResolutionInit ==
  /\ \E first \in Labels, value \in Labels :
       venue = [paid |-> FALSE, first |-> first, status |-> "active", value |-> value,
                settled |-> {}, archived |-> FALSE, moves |-> 0, runs |-> 0]
  /\ \E kalshi \in {Weak, [Row("final", "yes") EXCEPT !.old = TRUE]} :
       cache = [readable |-> TRUE, rows |-> [polymarket |-> Weak, kalshi |-> kalshi]]
  /\ lookup = NoLookup

-----------------------------------------------------------------------------
(* The sources. *)

\* Outcome 0 of the condition is paid, once and for all; Kalshi determines,
\* amends, disputes, settles, may settle again, and moves the market to history.
Moves(next) ==
  /\ venue.moves < MaxMoves
  /\ venue' = [next EXCEPT !.moves = @ + 1]
  /\ UNCHANGED <<cache, lookup>>
ChainPays == ~venue.paid /\ Moves([venue EXCEPT !.paid = TRUE])
KalshiDetermines(value) ==
  Moves([venue EXCEPT !.status = "determined", !.value = value])
KalshiDisputes == venue.status # "active" /\ Moves([venue EXCEPT !.status = "disputed"])
KalshiSettles ==
  /\ venue.status = "determined"
  /\ Moves([venue EXCEPT !.status = "finalized", !.settled = @ \cup {venue.value}])
KalshiArchives == ~venue.archived /\ Moves([venue EXCEPT !.archived = TRUE])

\* kalshi_resolution_from_payload, of an endpoint that has the market and answers.
Payload(there) ==
  {Weak} \cup
  IF ~there THEN {}
  ELSE CASE venue.status = "finalized" -> {Row("final", venue.value)}
         [] venue.status = "disputed" -> {Row("disputed", "none")}
         [] OTHER -> {Row("open", "none")}

\* Both endpoints: two settlements that differ are no settlement, a live market
\* that is not settled is not.  An open market is weak for the cache.
Kalshi(live, historical) ==
  LET best == IF live.state # "weak" THEN live ELSE historical IN
  IF live.state = "final" /\ historical.state = "final" /\ live.label # historical.label
  THEN Row("inconsistent", "none")
  ELSE IF best.state = "open" THEN Weak ELSE best

\* payout_vector reads all slots at one block; a failure is no vector.
Vector(answered) == answered /\ venue.paid
\* _labels_with_source: of the snapshot or of Gamma, else yes and no.
FirstLabel(named) == IF named THEN venue.first ELSE "yes"

\* _canonical_from_vector.  `named': the labels are not assumed, `answered': the
\* chain gave the vector.
Polymarket(named, answered) ==
  IF ~Vector(answered) THEN Weak
  ELSE [Row("final", FirstLabel(named)) EXCEPT !.assumed = ~named]

-----------------------------------------------------------------------------
(* The cache. *)

\* _existing_current_rows: a row that is kept without asking again.
Current(row) == row.state \in {"final", "conflict"} /\ ~row.old
Contradicts(row, new) ==
  row.state = "final" /\ new.state = "final" /\ row.label # new.label

\* A fault: a settlement that comes later is believed.
MergedWithLatest(row, new) ==
  CASE row.state = "conflict" /\ new.state \notin {"disputed", "inconsistent"} -> row
    [] Current(row) /\ new.state = "weak" -> row
    [] OTHER -> new

\* What becomes of the row that was there when the run began.
Merged(row, new) ==
  CASE row.state = "conflict" /\ new.state \notin {"disputed", "inconsistent"} -> row
    [] Contradicts(row, new) -> Conflict
    [] Current(row) /\ new.state = "weak" -> row
    [] OTHER -> new

\* A run begins: the rows of its scope that are current are not asked for again
\* unless the run refreshes.
Resolve(scope, refresh) ==
  /\ lookup.at = "none" /\ cache.readable /\ venue.runs < MaxRuns
  /\ venue' = [venue EXCEPT !.runs = @ + 1]
  /\ lookup' =
       [at |-> "asking", live |-> Weak, named |-> FALSE,
        existing |-> Restrict(cache.rows, scope), found |-> << >>,
        asked |-> {p \in scope : refresh \/ ~Current(cache.rows[p])}]
  /\ UNCHANGED cache

Unanswered(platform) == platform \in lookup.asked \ DOMAIN lookup.found
Found(platform, record) ==
  [lookup EXCEPT !.at = "asking", !.live = Weak, !.named = FALSE,
     !.found = [p \in DOMAIN @ \cup {platform} |-> IF p = platform THEN record ELSE @[p]]]

\* Gamma first, for the condition and the labels the snapshot lacks: it may fail, or answer for
\* another market or condition, which is refused like a failure.  Without a condition nobody
\* else is asked.
AskGamma(condition, named) ==
  /\ lookup.at = "asking" /\ Unanswered("polymarket")
  /\ lookup' = IF condition THEN [lookup EXCEPT !.at = "clob", !.named = named]
               ELSE Found("polymarket", Weak)
  /\ UNCHANGED <<venue, cache>>
\* The winner of the CLOB, and prices near 0 and 1, are a hint: never a payout.
AskClob ==
  /\ lookup.at = "clob"
  /\ lookup' = [lookup EXCEPT !.at = "chain"]
  /\ UNCHANGED <<venue, cache>>
\* The chain last; with no vector what is left is open, metadata or unavailable.
AskChain(answered) ==
  /\ lookup.at = "chain"
  /\ lookup' = Found("polymarket", Polymarket(lookup.named, answered))
  /\ UNCHANGED <<venue, cache>>

\* Live first, then historical; the market may move from one to the other.
AskKalshiLive ==
  /\ lookup.at = "asking" /\ Unanswered("kalshi")
  /\ \E live \in Payload(~venue.archived) :
       lookup' = [lookup EXCEPT !.at = "historical", !.live = live]
  /\ UNCHANGED <<venue, cache>>
AskKalshiHistorical ==
  /\ lookup.at = "historical"
  /\ \E historical \in Payload(venue.archived) :
       lookup' = Found("kalshi", Kalshi(lookup.live, historical))
  /\ UNCHANGED <<venue, cache>>

\* The file is read once more for what is out of scope and written in place.
MergeRows ==
  /\ lookup.at = "asking" /\ lookup.asked = DOMAIN lookup.found
  /\ lookup' = [at |-> "writing", live |-> Weak, named |-> FALSE, rows |->
       [p \in Platforms |->
          CASE p \in lookup.asked -> Merged(lookup.existing[p], lookup.found[p])
            [] p \in DOMAIN lookup.existing \ lookup.asked -> lookup.existing[p]
            [] OTHER -> cache.rows[p]]]
  /\ cache' = [cache EXCEPT !.readable = FALSE]
  /\ UNCHANGED venue
WriteCache ==
  /\ lookup.at = "writing"
  /\ cache' = [readable |-> TRUE, rows |-> lookup.rows]
  /\ lookup' = NoLookup
  /\ UNCHANGED venue

\* A crash; one that cuts the write off leaves a file no run can read.
LookupDies ==
  /\ lookup.at # "none"
  /\ lookup' = NoLookup
  /\ UNCHANGED <<venue, cache>>

ResolutionNext ==
  \/ ChainPays \/ KalshiDisputes \/ KalshiSettles \/ KalshiArchives
  \/ \E value \in Labels : KalshiDetermines(value)
  \/ \E scope \in SUBSET Platforms, refresh \in BOOLEAN : Resolve(scope, refresh)
  \/ \E condition \in BOOLEAN, named \in BOOLEAN : AskGamma(condition, named)
  \/ AskClob \/ \E answered \in BOOLEAN : AskChain(answered)
  \/ AskKalshiLive \/ AskKalshiHistorical
  \/ MergeRows \/ WriteCache \/ LookupDies

-----------------------------------------------------------------------------
(* Properties. *)

\* A fault: an assumed mapping is good enough.
EligibleByFinality(row) == row.state = "final" /\ ~row.old
\* _eligibility_error = None, under the default policy.
Eligible(row) == row.state = "final" /\ ~row.old /\ ~row.assumed

\* A label that terminal_labels.py hands out is the true one: the name the venue
\* gives the outcome the chain paid, or a value Kalshi settled the market at,
\* whatever sources failed, and in whatever order rows were replaced, carried
\* forward or turned into conflicts.
LabelIsTrue ==
  /\ Eligible(cache.rows["polymarket"]) =>
       venue.paid /\ cache.rows["polymarket"].label = venue.first
  /\ Eligible(cache.rows["kalshi"]) => cache.rows["kalshi"].label \in venue.settled

\* No file gives a label that contradicts the label of the file before it: the
\* market loses its label first.
LabelNeverFlips ==
  [][\A p \in Platforms :
       Eligible(cache.rows[p]) /\ Eligible(cache'.rows[p])
         => cache'.rows[p].label = cache.rows[p].label]_resolutionVars
=============================================================================
