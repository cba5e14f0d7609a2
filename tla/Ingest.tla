-------------------------------- MODULE Ingest --------------------------------
(***************************************************************************)
(* The collections of markets (cli.ingest): a job walks a listing page by  *)
(* page while the venue goes on, and publishes a dataset, an evidence      *)
(* bundle and a manifest, each by a step of its own.  ingest-markets walks *)
(* by offset, ingest-markets-keyset lane after lane by a cursor,           *)
(* ingest-kalshi-markets one filter by a cursor, and                       *)
(* ingest-kalshi-historical-markets the archive, in segments that continue *)
(* each other.                                                             *)
(*                                                                         *)
(* A market is its place in the venue's order and a cursor the place a     *)
(* page ended at.  Place i is archived when settle[i] is before the cutoff.*)
(* A file, bundle or manifest of a target is a set of at most one value.   *)
(***************************************************************************)
EXTENDS Naturals, Sequences, FiniteSets, FiniteSetsExt, SequencesExt

CONSTANTS
  ListingSize,  \* places of a listing
  ListingPage,  \* limit
  PageCap,      \* max_pages of a capped job
  Changes,      \* changes of the listing while live jobs read it
  Targets       \* output paths of the historical segments, 1..Targets

\* limit and max_pages are checked to be at least 1 (ingest.py:469-471, :881-887).
ASSUME IngestBounds ==
  ListingSize \in Nat /\ ListingPage \in Nat \ {0} /\ PageCap \in Nat \ {0} /\ Targets \in Nat

VARIABLES
  listing,      \* the venue
  ingest,       \* the job that runs, or ended last
  outputs       \* the files of each target; live jobs write target 0
ingestVars == <<listing, ingest, outputs>>

Lots == 1..ListingSize
Filters == {{"open"}, {"open", "closed"}}
NoIngest == [phase |-> "idle"]
NoFiles == [out |-> {}, bundle |-> {}, manifest |-> {}]

\* A behaviour is about the live listing or about the archive.
IngestInit ==
  /\ \E lane \in [Lots -> {"open", "closed", "absent"}], settle \in [Lots -> 1..2],
       archive \in BOOLEAN :
       /\ IF archive THEN lane = [i \in Lots |-> "absent"] ELSE settle = [i \in Lots |-> 1]
       /\ listing = [archive |-> archive, lane |-> lane, steady |-> {}, kept |-> {}, changes |-> 0,
                     settle |-> settle, cut |-> 2, retreated |-> FALSE]
  /\ ingest = NoIngest
  /\ outputs = [p \in 0..Targets |-> NoFiles]

-----------------------------------------------------------------------------
(* The venue. *)

Live == ingest.phase # "idle" /\ ingest.kind # "history"
Held == {i \in Lots : listing.lane[i] # "absent"}
Archive == {i \in Lots : listing.settle[i] < listing.cut}

\* A market opens, closes or leaves; a closed one does not open again.
LotMoves(i, to) ==
  /\ Live /\ ingest.phase = "pages" /\ listing.lane[i] # to /\ listing.changes < Changes
  /\ <<listing.lane[i], to>> # <<"closed", "open">>
  /\ listing' = [listing EXCEPT !.lane[i] = to, !.changes = @ + 1, !.kept = @ \ {i},
                   !.steady = IF to = "absent" THEN @ \ {i} ELSE @]
  /\ UNCHANGED <<ingest, outputs>>

\* The archive's cutoff moves on; a restored venue may have lost some of it.
CutoffMoves(to) ==
  /\ listing.archive /\ to # listing.cut /\ ~listing.retreated
  /\ listing' = [listing EXCEPT !.cut = to, !.retreated = to < listing.cut]
  /\ UNCHANGED <<ingest, outputs>>

\* A published artifact is replaced by that of an empty collection.
EvidenceReplaced(p) ==
  /\ ingest.phase = "idle" /\ outputs[p].bundle # {}
  /\ outputs' = [outputs EXCEPT ![p].bundle = {[b EXCEPT !.artifact = {}] : b \in @}]
  /\ UNCHANGED <<listing, ingest>>

-----------------------------------------------------------------------------
(* Pages. *)

\* The page of the markets `from' after place `cursor', and whether a cursor follows.
PageOf(from, cursor) ==
  LET rest == {i \in from : i > cursor}
      rows == {i \in rest : Cardinality({j \in rest : j <= i}) <= ListingPage}
  IN [rows |-> rows, more |-> rows # rest,
      cursor |-> IF rows = {} THEN cursor ELSE Max(rows)]
LotsIn(lanes) == {i \in Lots : listing.lane[i] \in lanes}

\* By offset: the rows after the first `offset' ones.
OffsetPage(from, offset) ==
  LET rank(i) == Cardinality({j \in from : j <= i}) IN
  {i \in from : rank(i) > offset /\ rank(i) <= offset + ListingPage}

Reading(kind) == ingest.phase = "pages" /\ ingest.kind = kind
Capped == ingest.capped /\ ingest.pages >= PageCap
Stopped(job, reason) == [job EXCEPT !.phase = "out", !.stop = reason]

\* An exception leaves a live job without an end of its own: offset and Kalshi
\* jobs drop their temporary files, keyset jobs publish what they have.
Raised(job) ==
  IF job.kind = "keyset" THEN [Stopped(job, "error") EXCEPT !.errors = TRUE] ELSE NoIngest

\* A live job over `lanes': its partitions, or its filter.  Its evidence bundle
\* must be a new one, so that a behaviour has one such job.
Job(kind, lanes, capped) ==
  [phase |-> "pages", kind |-> kind, target |-> 0, evidence |-> TRUE, capped |-> capped,
   lanes |-> lanes, whole |-> 0, pages |-> 0, rows |-> {}, cursor |-> 0, more |-> FALSE,
   stop |-> "not_started", errors |-> FALSE]
StartLive(job) ==
  /\ ingest = NoIngest /\ ~listing.archive /\ outputs[0] = NoFiles
  /\ ingest' = job
  /\ listing' = [listing EXCEPT !.steady = Held, !.kept = Held]
  /\ UNCHANGED outputs
StartOffset == \E filter \in Filters : StartLive(Job("offset", <<filter>>, TRUE))
StartKeyset ==
  \E capped \in BOOLEAN, lanes \in {<< {"open"} >>, << {"closed"} >>, << {"open"}, {"closed"} >>} :
    StartLive(Job("keyset", lanes, capped))
StartKalshi ==
  \E filter \in Filters, complete \in BOOLEAN : StartLive(Job("kalshi", <<filter>>, ~complete))

\* ingest-markets: a short page is the end, and so is a refused offset.
OffsetRead ==
  /\ Reading("offset")
  /\ LET rows == OffsetPage(LotsIn(ingest.lanes[1]), ingest.pages * ListingPage) IN
     ingest' =
       IF ingest.pages = PageCap THEN Stopped([ingest EXCEPT !.more = TRUE], "page_limit_reached")
       ELSE LET read == [ingest EXCEPT !.rows = @ \cup rows, !.pages = @ + 1] IN
            CASE rows = {} -> Stopped(read, "empty_page")
              [] rows # {} /\ Cardinality(rows) < ListingPage -> Stopped(read, "short_page")
              [] OTHER -> read
  /\ UNCHANGED <<listing, outputs>>

OffsetRefused ==
  /\ Reading("offset") /\ ingest.pages > 0
  /\ ingest' = Stopped(ingest, "endpoint_offset_limit")
  /\ UNCHANGED <<listing, outputs>>

\* ingest-markets-keyset: partition after partition, as long as each ends whole;
\* a market that is seen again is an error.
KeysetRead ==
  /\ Reading("keyset")
  /\ LET page == PageOf(LotsIn(ingest.lanes[ingest.whole + 1]), ingest.cursor)
         read == [ingest EXCEPT !.pages = @ + 1, !.rows = @ \cup page.rows, !.more = page.more]
         done == [read EXCEPT !.whole = @ + 1, !.cursor = 0] IN
     ingest' = CASE Capped                         -> Stopped(ingest, "max_pages_reached")
                 [] ~Capped /\ page.rows \cap ingest.rows # {} ->
                      Raised([ingest EXCEPT !.pages = @ + 1])
                 [] ~Capped /\ page.rows \cap ingest.rows = {} ->
                      CASE page.more               -> [read EXCEPT !.cursor = page.cursor]
                        [] ~page.more /\ done.whole = Len(ingest.lanes)
                                                   -> Stopped(done, "cursor_exhausted")
                        [] OTHER                   -> done
  /\ UNCHANGED <<listing, outputs>>

\* ingest-kalshi-markets: an empty page is the end, also one with a cursor.
KalshiRead(empty) ==
  /\ Reading("kalshi")
  /\ LET page == PageOf(LotsIn(ingest.lanes[1]), ingest.cursor)
         read == [ingest EXCEPT !.pages = @ + 1, !.more = page.more, !.cursor = page.cursor,
                    !.rows = @ \cup page.rows] IN
     ingest' = CASE Capped -> Stopped(ingest, "max_pages_reached")
                 [] ~Capped /\ (empty \/ page.rows = {}) ->
                      Stopped([ingest EXCEPT !.pages = @ + 1, !.more = empty], "empty_page")
                 [] ~Capped /\ ~empty /\ page.rows # {} ->
                      CASE page.rows \cap ingest.rows # {} -> Raised(ingest)
                        [] page.rows \cap ingest.rows = {} /\ ~page.more ->
                             Stopped(read, "cursor_exhausted")
                        [] OTHER -> read
  /\ UNCHANGED <<listing, outputs>>

\* A request fails for good, or the job is cancelled.
LiveReadFails ==
  /\ Live /\ ingest.phase = "pages"
  /\ ingest' = Raised(ingest)
  /\ UNCHANGED <<listing, outputs>>
Cancelled ==
  /\ Reading("keyset")
  /\ ingest' = Stopped(ingest, "cancelled")
  /\ UNCHANGED <<listing, outputs>>

-----------------------------------------------------------------------------
(* The archive, in segments. *)

SettledBefore(time) == {i \in Lots : listing.settle[i] < time}

\* A segment of a chain, into a target of its own.
Segment(p, evidence, complete) ==
  [phase |-> "opening", kind |-> "history", target |-> p, evidence |-> evidence,
   capped |-> ~complete, previous |-> 0, index |-> 0, asof |-> 0, start |-> 0, cursor |-> 0,
   pages |-> 0, rows |-> {}, more |-> FALSE, stop |-> "not_started", errors |-> FALSE]
FreeTarget(p) ==
  /\ ingest = NoIngest /\ listing.archive /\ outputs[p].out = {} /\ outputs[p].manifest = {}

FirstSegment(p, evidence, complete) ==
  /\ FreeTarget(p)
  /\ ingest' = Segment(p, evidence, complete)
  /\ UNCHANGED <<listing, outputs>>

\* resume_from: it goes on at the cursor of q's manifest, with its as_of.
NextSegment(p, q, evidence, complete) ==
  /\ FreeTarget(p)
  /\ \E m \in outputs[q].manifest :
       /\ m.more
       /\ ingest' = [Segment(p, evidence, complete) EXCEPT !.previous = q, !.index = m.index + 1,
                       !.asof = m.asof, !.start = m.cursor, !.cursor = m.cursor, !.more = TRUE]
  /\ UNCHANGED <<listing, outputs>>

\* What follows an exception: everything this segment published is removed.
Undone ==
  /\ outputs' = [outputs EXCEPT ![ingest.target] = NoFiles]
  /\ ingest' = NoIngest

\* observed_start: the chain keeps the cutoff of its first segment.
AsOf(job) == IF job.asof = 0 THEN listing.cut ELSE job.asof

OpenHistory ==
  /\ ingest.phase = "opening" /\ listing.cut >= AsOf(ingest)
  /\ ingest' = [ingest EXCEPT !.phase = "pages", !.asof = AsOf(ingest)]
  /\ UNCHANGED <<listing, outputs>>

\* A page: markets settled at or after as_of are dropped.
HistoryRead ==
  /\ Reading("history")
  /\ LET page == PageOf(Archive, ingest.cursor) IN
     ingest' =
       IF Capped THEN [ingest EXCEPT !.phase = "closing", !.stop = "max_pages_reached"]
       ELSE [ingest EXCEPT !.pages = @ + 1, !.rows = @ \cup (page.rows \cap SettledBefore(ingest.asof)),
               !.cursor = page.cursor, !.more = page.more,
               !.phase = IF page.more THEN @ ELSE "closing",
               !.stop = IF page.more THEN @ ELSE "cursor_exhausted"]
  /\ UNCHANGED <<listing, outputs>>

\* observed_end, the key check on the staged file, and the exclusive link.
LinkOutput ==
  /\ ingest.phase = "closing" /\ listing.cut >= ingest.asof
  /\ outputs' = [outputs EXCEPT ![ingest.target].out = {ingest.rows}]
  /\ ingest' = [ingest EXCEPT !.phase = IF ingest.evidence THEN "bundle" ELSE "manifest"]
  /\ UNCHANGED listing

\* A failure of any step, the cutoff that moved backwards among them.
HistoryFails ==
  /\ ingest.phase # "idle" /\ ~Live
  /\ Undone /\ UNCHANGED listing

-----------------------------------------------------------------------------
(* Publication. *)

\* What must be in a whole collection: for the properties.
DueRows ==
  CASE ~Live -> SettledBefore(ingest.asof)
    [] Live /\ UNION Range(ingest.lanes) = {"open", "closed"} -> listing.steady
    [] OTHER -> listing.kept \cap LotsIn(UNION Range(ingest.lanes))

Complete(job) ==
  CASE job.kind = "offset"  -> FALSE
    [] job.kind = "keyset"  -> job.whole = Len(job.lanes)
    [] job.kind = "kalshi"  -> job.stop \in {"empty_page", "cursor_exhausted"}
    [] job.kind = "history" -> job.index = 0 /\ job.stop = "cursor_exhausted"

\* A fault: a cursor to continue from does not count.
AuthoritativeSoFar(state) ==
  state.complete /\ state.stop \in {"cursor_exhausted", "empty_page"} /\ ~state.errors

\* A collection is authoritative when it is complete, stopped at an end, has no
\* cursor to continue from and no errors.
Authoritative(state) ==
  /\ state.complete /\ state.stop \in {"cursor_exhausted", "empty_page"}
  /\ ~state.more /\ ~state.errors

\* A verified bundle is what its manifest says: `ids' and `artifact' stand for
\* the digests and the rows they were taken from.
Verified(b) == b.artifact = b.ids /\ b.authoritative = Authoritative(b)

Bundle(job) ==
  LET state == [complete |-> Complete(job), stop |-> job.stop, more |-> job.more,
                errors |-> job.errors] IN
  [complete |-> state.complete, stop |-> state.stop, more |-> state.more, errors |-> state.errors,
   authoritative |-> Authoritative(state), ids |-> job.rows, artifact |-> job.rows,
   due |-> DueRows]

\* A live job's dataset replaces the one before it.
ReplaceOutput ==
  /\ Live /\ ingest.phase = "out"
  /\ outputs' = [outputs EXCEPT ![0].out = {ingest.rows}]
  /\ ingest' = [ingest EXCEPT !.phase = IF ingest.evidence THEN "bundle" ELSE "manifest"]
  /\ UNCHANGED listing

\* The staged directory becomes the bundle: write_contract_evidence_bundle for the
\* pages an offset job has collected, else the streamed one.
BundleIs(b) ==
  /\ ingest.phase = "bundle"
  /\ outputs' = [outputs EXCEPT ![ingest.target].bundle = {b}]
  /\ ingest' = [ingest EXCEPT !.phase = "manifest"]
  /\ UNCHANGED listing
WriteBundle == ingest.phase # "idle" /\ ingest.kind = "offset" /\ BundleIs(Bundle(ingest))
FinishBundle == ingest.phase # "idle" /\ ingest.kind # "offset" /\ BundleIs(Bundle(ingest))

\* The manifests: offset jobs write none.
LiveManifest == [rows |-> ingest.rows, complete |-> Complete(ingest), stop |-> ingest.stop]
HistoryManifest ==
  [rows |-> ingest.rows, evidence |-> ingest.evidence, index |-> ingest.index,
   asof |-> ingest.asof, start |-> ingest.start, cursor |-> ingest.cursor,
   more |-> ingest.more, previous |-> ingest.previous]

ReplaceManifest ==
  /\ Live /\ ingest.phase = "manifest"
  /\ outputs' = [outputs EXCEPT ![0].manifest =
                   IF ingest.kind = "offset" THEN @ ELSE {LiveManifest}]
  /\ ingest' = NoIngest /\ UNCHANGED listing
LinkManifest ==
  /\ ~Live /\ ingest.phase = "manifest"
  /\ outputs' = [outputs EXCEPT ![ingest.target].manifest = {HistoryManifest}]
  /\ ingest' = [ingest EXCEPT !.phase = "unstaging"] /\ UNCHANGED listing

HistoryEnds ==
  /\ ingest.phase = "unstaging"
  /\ ingest' = NoIngest /\ UNCHANGED <<listing, outputs>>

\* A failing write of a live job, and the death of any: what is published stays.
JobDies ==
  /\ ingest.phase # "idle"
  /\ ingest' = NoIngest /\ UNCHANGED <<listing, outputs>>

IngestNext ==
  \/ \E i \in Lots, to \in {"open", "closed", "absent"} : LotMoves(i, to)
  \/ \E to \in 1..3 : CutoffMoves(to)
  \/ \E p \in 0..Targets : EvidenceReplaced(p)
  \/ StartOffset \/ StartKeyset \/ StartKalshi
  \/ OffsetRead \/ OffsetRefused \/ KeysetRead \/ (\E empty \in BOOLEAN : KalshiRead(empty))
  \/ LiveReadFails \/ Cancelled
  \/ \E p, q \in 1..Targets, evidence, complete \in BOOLEAN :
        FirstSegment(p, evidence, complete) \/ NextSegment(p, q, evidence, complete)
  \/ OpenHistory \/ HistoryRead \/ LinkOutput \/ HistoryFails
  \/ ReplaceOutput \/ WriteBundle \/ FinishBundle \/ ReplaceManifest \/ LinkManifest
  \/ HistoryEnds \/ JobDies

-----------------------------------------------------------------------------
(* Properties. *)

Segments == {p \in 1..Targets : outputs[p].manifest # {}}
ManifestOf(p) == CHOOSE m \in outputs[p].manifest : TRUE

\* The segments that lead to p's: the fewest that hold it and, with each, the one
\* it continues.
Chain(p) ==
  {q \in Segments :
     \A some \in SUBSET Segments :
       p \in some /\ (\A r \in some : ManifestOf(r).previous \in some \cup {0}) => q \in some}

\* A manifest of the archive is there only with the output and the bundle it
\* names, whatever step failed or died; and the segments that lead to one whose
\* cursor is exhausted hold every market that was settled before the chain's
\* as_of exactly once, although the archive grew between and during them
\* (ingest.py:854-1115).
ChainIsWhole ==
  \A p \in Segments :
    /\ outputs[p].out = {ManifestOf(p).rows}
    /\ ManifestOf(p).evidence => \E b \in outputs[p].bundle : b.ids = ManifestOf(p).rows
    /\ ~ManifestOf(p).more =>
         /\ UNION {ManifestOf(q).rows : q \in Chain(p)} = SettledBefore(ManifestOf(p).asof)
         /\ \A q, r \in Chain(p) : q # r => ManifestOf(q).rows \cap ManifestOf(r).rows = {}

\* A bundle that verifies as authoritative, whichever collection wrote it, holds
\* every market that was listed in the asked lanes all the time the job read,
\* and every market settled before as_of (contract_evidence_manifest.py:299-460).
AuthoritativeIsWhole ==
  \A p \in 0..Targets : \A b \in outputs[p].bundle :
    Verified(b) /\ b.authoritative => b.due \subseteq b.artifact

\* What a collection of markets claims to be, it is.
CollectionsAreWhole == ChainIsWhole /\ AuthoritativeIsWhole
=============================================================================
