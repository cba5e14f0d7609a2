------------------------------ MODULE VenueReads ------------------------------
(***************************************************************************)
(* The bounded reads of the REST clients, over a venue that goes on while  *)
(* they run: discover_markets of both venues (a queue of partitions, one   *)
(* page at a time), market_participants and wallet_history of Polymarket   *)
(* (one walk after the other), get_candles of Kalshi (a dataset chosen by  *)
(* the archive cutoff, the other one when the market has moved).  Each     *)
(* page is a request of _http.py, tried again a bounded number of times.   *)
(*                                                                         *)
(* A listed item (market, position) is its place in the venue's order; its *)
(* lane is "open" or "closed".  A cursor is the place a page ended at.     *)
(***************************************************************************)
EXTENDS Naturals, Sequences, FiniteSets, FiniteSetsExt, SequencesExt

CONSTANTS
  Places,       \* places of the listing
  PageSize,
  MaxPages,     \* max_pages; for participants, per walk
  MaxItems,     \* max_markets
  MaxAttempts,  \* max_attempts of the request policy
  Windows       \* query windows of a candle history

\* The bounds of a read and of a page are checked to be positive (gamma.py:115, :233-234, kalshi/client.py:398-399).
ASSUME ReadBounds ==
  Places \in Nat /\ PageSize \in Nat \ {0} /\ MaxPages \in Nat \ {0} /\ MaxItems \in Nat \ {0}

VARIABLES
  site,         \* the venue
  read          \* the operation
readVars == <<site, read>>

Lanes == {"open", "closed", "absent"}
Items == 1..Places
NoRead == [kind |-> "none"]

\* `steady': items that were listed since the operation began, `kept': the ones
\* of these that did not change lanes.
ReadInit ==
  /\ \E lane \in [Items -> Lanes] :
       site = [lane |-> lane, steady |-> {}, kept |-> {}, market |-> "live"]
  /\ read = NoRead

-----------------------------------------------------------------------------
(* The venue. *)

Listed == {i \in Items : site.lane[i] # "absent"}
Forgotten == [site EXCEPT !.steady = {}, !.kept = {}]
ItemMoves(i, to) ==
  /\ read.kind \in {"discover", "participants"} /\ site.lane[i] # to
  /\ <<site.lane[i], to>> # <<"closed", "open">>
  /\ site' = [site EXCEPT !.lane[i] = to, !.kept = @ \ {i},
                !.steady = IF to = "absent" THEN @ \ {i} ELSE @]
  /\ UNCHANGED read

\* A settled market is archived, and later gone from the live endpoints.
MarketMigrates ==
  /\ read.kind = "candles" /\ site.market # "historical"
  /\ site' = [site EXCEPT !.market = IF @ = "live" THEN "both" ELSE "historical"]
  /\ UNCHANGED read

-----------------------------------------------------------------------------
(* One request. *)

\* HttpClient._request: an attempt that fails is repeated after a delay, which
\* the deadline of the operation may cut short.
AttemptFails ==
  /\ read.kind # "none" /\ read.stop = "none" /\ read.attempt < MaxAttempts
  /\ read' = [read EXCEPT !.attempt = @ + 1]
  /\ UNCHANGED site

\* The last attempt, the deadline, an envelope or a cursor that is refused: the
\* operation raises and returns nothing.
ReadRaises ==
  /\ read.kind # "none" /\ read.stop = "none"
  /\ read' = NoRead /\ site' = Forgotten

Page(partition) ==
  LET rest == {i \in Items : site.lane[i] \in partition.lanes /\ i > partition.cursor}
      rows == {i \in rest : Cardinality({j \in rest : j <= i}) <= PageSize}
  IN [rows |-> rows, more |-> rows # rest,
      cursor |-> IF rows = {} THEN partition.cursor ELSE Max(rows)]

-----------------------------------------------------------------------------
(* Discovery and walks. *)

Begin(kind, lanes) ==
  [kind |-> kind, stop |-> "none", attempt |-> 1, pages |-> 0, cut |-> FALSE, seen |-> {},
   lanes |-> UNION Range(lanes), queue |-> [n \in DOMAIN lanes |-> [lanes |-> lanes[n], cursor |-> 0]]]

\* discover_markets: one partition, or one per lane when the filter leaves it open.
Discover ==
  /\ read = NoRead
  /\ \E lanes \in {<< {"open"} >>, << {"open", "closed"} >>, << {"open"}, {"closed"} >>} :
       read' = Begin("discover", lanes)
  /\ site' = [site EXCEPT !.steady = Listed, !.kept = Listed]

\* market_participants: open positions, then closed ones.
Participants ==
  /\ read = NoRead
  /\ read' = Begin("participants", << {"open"}, {"closed"} >>)
  /\ site' = [site EXCEPT !.steady = Listed, !.kept = Listed]

\* A partition with a next cursor goes to the end of the queue.
Queue(rest, partition, page) ==
  IF page.more THEN Append(rest, [partition EXCEPT !.cursor = page.cursor]) ELSE rest

DiscoverPage ==
  /\ read.kind = "discover" /\ read.stop = "none"
  /\ read.queue # <<>> /\ read.pages < MaxPages
  /\ LET page == Page(Head(read.queue))
         found == read.seen \cup page.rows IN
     read' = [read EXCEPT !.pages = @ + 1, !.attempt = 1,
       !.seen = IF Cardinality(found) <= MaxItems THEN found
                ELSE CHOOSE some \in SUBSET found :
                       /\ read.seen \subseteq some /\ Cardinality(some) = MaxItems
                       /\ \A i \in some \ read.seen, j \in found \ some : i < j,
       !.stop = IF Cardinality(found) >= MaxItems THEN "result_limit" ELSE @,
       !.queue = Queue(Tail(@), Head(@), page)]
  /\ UNCHANGED site
DiscoverStops ==
  /\ read.kind = "discover" /\ read.stop = "none"
  /\ read.queue = <<>> \/ read.pages >= MaxPages
  /\ read' = [read EXCEPT !.stop =
                IF read.queue # <<>> THEN "page_limit" ELSE "source_exhausted"]
  /\ UNCHANGED site

\* _scan_positions, _scan_trades: a walk to its end, or to its cap of pages.
WalkPage ==
  /\ read.kind = "participants" /\ read.stop = "none"
  /\ LET page == Page(Head(read.queue))
         capped == page.more /\ read.pages + 1 = MaxPages
         over == ~page.more \/ capped IN
     read' = [read EXCEPT !.attempt = 1, !.seen = @ \cup page.rows,
       !.pages = IF over THEN 0 ELSE @ + 1,
       !.queue = IF over THEN Tail(@) ELSE [@ EXCEPT ![1].cursor = page.cursor],
       !.cut = @ \/ capped,
       !.stop = IF ~over \/ Len(read.queue) > 1 THEN @
                ELSE IF capped \/ read.cut THEN "page_limit" ELSE "source_exhausted"]
  /\ UNCHANGED site

-----------------------------------------------------------------------------
(* Candles. *)

Has(dataset) == site.market \in {dataset, "both"}
Other(dataset) == IF dataset = "live" THEN "historical" ELSE "live"

\* The dataset is the caller's, or, with source = "auto", the archive's for a
\* market without live metadata, else by a cutoff that a settled market may
\* have passed.
Candles ==
  /\ read = NoRead
  /\ \E auto \in BOOLEAN, dataset \in {"live", "historical"} :
       /\ auto /\ ~Has("live") => dataset = "historical"
       /\ read' = [kind |-> "candles", stop |-> "none", attempt |-> 1, auto |-> auto,
                   dataset |-> dataset, window |-> 1, payloads |-> {}]
  /\ UNCHANGED site

\* A fault: the other dataset is asked for the remaining windows only.
ResumedThere(r) == [r EXCEPT !.auto = FALSE, !.dataset = Other(@)]

\* A 404 in the middle: with source = "auto" the other dataset is read once, from
\* the first window on.
Restarted(r) == [r EXCEPT !.auto = FALSE, !.dataset = Other(@), !.window = 1]

CandleWindow ==
  /\ read.kind = "candles" /\ read.stop = "none" /\ Has(read.dataset)
  /\ read' = [read EXCEPT !.attempt = 1, !.window = @ + 1,
                !.payloads = @ \cup {[window |-> read.window, dataset |-> read.dataset]},
                !.stop = IF read.window = Windows THEN "returned" ELSE @]
  /\ UNCHANGED site
CandlesMissing ==
  /\ read.kind = "candles" /\ read.stop = "none" /\ ~Has(read.dataset)
  /\ read' = IF read.auto THEN Restarted([read EXCEPT !.attempt = 1]) ELSE NoRead
  /\ UNCHANGED site

ReadReturns ==
  /\ read.kind # "none" /\ read.stop # "none"
  /\ read' = NoRead /\ site' = Forgotten

ReadNext ==
  \/ \E i \in Items, to \in Lanes : ItemMoves(i, to)
  \/ MarketMigrates \/ AttemptFails \/ ReadRaises
  \/ Discover \/ DiscoverPage \/ DiscoverStops
  \/ Participants \/ WalkPage
  \/ Candles \/ CandleWindow \/ CandlesMissing \/ ReadReturns

-----------------------------------------------------------------------------
(* Properties. *)

\* What a read calls complete is complete, although the venue changed between
\* its pages: a discovery that exhausted its source saw every market of its lanes
\* that was listed all the time and stayed in its lane; two walks that ended saw
\* every position that was there all the time, also one closed between them; and
\* a candle history that is returned read every window of one dataset.
CompleteReadsAreWhole ==
  CASE read.kind = "discover" /\ read.stop = "source_exhausted" ->
         {i \in site.kept : site.lane[i] \in read.lanes} \subseteq read.seen
    [] read.kind = "participants" /\ read.stop = "source_exhausted" ->
         site.steady \subseteq read.seen
    [] read.kind = "candles" /\ read.stop = "returned" ->
         \E dataset \in {"live", "historical"} :
           \A w \in 1..Windows : [window |-> w, dataset |-> dataset] \in read.payloads
    [] OTHER -> TRUE
=============================================================================
