------------------------------ MODULE Catalog ------------------------------
(***************************************************************************)
(* The market catalog of pmkt.data.market_catalog: immutable releases      *)
(* behind three pointer files.  Discovery appends the markets a stream     *)
(* created since its watermark, refresh publishes the census of open       *)
(* markets with what became of the ones that left it, promotion adds the   *)
(* discovered keys to history, compaction folds every newer row into it.   *)
(*                                                                         *)
(* Each job is a process of its own and there is no lock: jobs of          *)
(* different kinds interleave at every step and may die at any; two jobs   *)
(* of one kind (and stream) never run at once, as the catalog is operated  *)
(* by hand.  A market is the number it was created under in its stream,    *)
(* which stands for its creation time; its version stands for updated_at   *)
(* and payload, and is even while the market is closed.  Left out: the     *)
(* retained multivariate census, and rows of one time that disagree.       *)
(*                                                                         *)
(* A reference to a release holds the hash of its manifest, which names    *)
(* its predecessor by hash: it is modelled by the sequence of releases     *)
(* from the first to that one.  A release nothing refers to has no state.  *)
(***************************************************************************)
EXTENDS Naturals, Sequences, FiniteSets, FiniteSetsExt, SequencesExt, Functions

CONSTANTS
  Streams,     \* discovery streams
  TwoLanes,    \* the streams read open markets first and then closed ones
  Overlap,     \* overlap_seconds, in markets a venue can create in that time
  MaxMarkets,  \* markets per stream
  MaxEvents,   \* changes of all markets
  MaxReleases, \* releases of a discovery stream, and of the census
  MaxJobs      \* jobs at work at once

ASSUME CatalogBounds ==
  /\ TwoLanes \subseteq Streams /\ Overlap \in Nat \ {0}
  /\ MaxMarkets \in Nat \ {0} /\ MaxEvents \in Nat /\ MaxReleases \in Nat
  /\ MaxJobs \in Nat
  /\ Streams \cap {"refresh", "promote", "compact"} = {}

VARIABLES
  market,      \* the venues: the version of every market, 0 before it exists
  pointer,     \* DISCOVERY_LATEST.json, current and history LATEST.json; overtaken, not of
               \* the code: a compaction came between a promotion's check and its pointer
  job          \* what each process remembers
catalogVars == <<market, pointer, job>>

Markets == Streams \X (1..MaxMarkets)
Entry(m) == [market |-> m, version |-> market[m]]
Exists(m) == market[m] > 0
IsOpen(m) == market[m] % 2 = 1
Created(s) == {m \in Markets : m[1] = s /\ Exists(m)}
MarketsOf(rows) == {r.market : r \in rows}
Newest(rows) == {r \in rows : \A q \in rows : q.market = r.market => q.version <= r.version}
High(low, ms) == Max({low} \cup {m[2] : m \in ms})

DiscoveryJobs == Streams
Jobs == DiscoveryJobs \cup {"refresh", "promote", "compact"}
NoJob == [at |-> "idle"]
Unpublished == [s \in Streams |-> <<>>]
First == {<<s, 1>> : s \in Streams}

\* An initialized catalog: history and the census hold the first markets.
CatalogInit ==
  /\ market = [m \in Markets |-> IF m \in First THEN 1 ELSE 0]
  /\ pointer =
       [discovery |-> Unpublished,
        current |-> <<[open |-> First, new |-> {}, upserts |-> {}]>>,
        history |-> [rows |-> [market : First, version : {1}], promoted |-> Unpublished,
                     compacted |-> Unpublished, lifecycle |-> <<>>],
        overtaken |-> FALSE]
  /\ job = [j \in Jobs |-> NoJob]

-----------------------------------------------------------------------------
(* Reading what is published. *)

\* reachable_discovery_manifests, reachable_current_manifests: the releases
\* after a watermark, which must be on the chain.
Reachable(chain, after) == IsPrefix(after, chain)
After(chain, after) == Range(SubSeq(chain, Len(after) + 1, Len(chain)))
Entries(manifests) == UNION {r.new \cup r.upserts : r \in manifests}
History == pointer.history

\* ensure_known_key_index: history and every discovery, the newest version.
KnownRows ==
  Newest(History.rows \cup UNION {Entries(Range(pointer.discovery[s])) : s \in Streams})

\* discovery_cutoff; the bootstrap is at the first market.
Cutoff(s) ==
  LET chain == pointer.discovery[s]
      high == IF chain = <<>> THEN 1 ELSE Last(chain).high
  IN IF high > Overlap THEN high - Overlap ELSE 0

-----------------------------------------------------------------------------
(* The venues.  The markets created while a discovery reads its two lanes are *)
(* not further apart than the overlap, and none reopens between the lanes.    *)

Events == FoldFunction(+, 0, [m \in {n \in Markets : Exists(n)} |-> market[m] - 1])
InLanes(s) == job[s].at = "closed lane"
VenueCreates(s) ==
  LET next == <<s, Cardinality(Created(s)) + 1>> IN
  /\ next \in Markets
  /\ InLanes(s) => next[2] <= job[s].listed + Overlap + 1
  /\ market' = [market EXCEPT ![next] = 1]
  /\ UNCHANGED <<pointer, job>>

VenueChanges(m) ==
  /\ Exists(m) /\ Events < MaxEvents
  /\ ~IsOpen(m) => ~InLanes(m[1])
  /\ market' = [market EXCEPT ![m] = @ + 1]
  /\ UNCHANGED <<pointer, job>>

-----------------------------------------------------------------------------
(* What the jobs share. *)

Working(jobs) == {j \in Jobs : jobs[j] # NoJob}
Remember(j, memory) ==
  /\ Cardinality(Working([job EXCEPT ![j] = memory])) <= MaxJobs
  /\ job' = [job EXCEPT ![j] = memory]
  /\ UNCHANGED <<market, pointer>>

\* os.replace(staging, release), then the pointer file read again and replaced
\* whole.  A crash between the two leaves a release nothing refers to.
Replace(j, next) ==
  /\ pointer' = next
  /\ job' = [job EXCEPT ![j] = NoJob]
  /\ UNCHANGED market

\* A collection that is not complete, a check that fails, a crash: a staging
\* directory, or a release, is left that nothing refers to.
JobFails(j) == job[j].at # "idle" /\ Remember(j, NoJob)

-----------------------------------------------------------------------------
(* discover *)

FirstLane(s, cutoff) ==
  {m \in Created(s) : m[2] >= cutoff /\ (s \in TwoLanes => IsOpen(m))}

\* The predecessor is settled before the venue is read.
Collect(s) ==
  /\ job[s].at = "idle" /\ Len(pointer.discovery[s]) < MaxReleases
  /\ LET cutoff == Cutoff(s)
         lane == FirstLane(s, cutoff) IN
     Remember(s, [at |-> IF s \in TwoLanes THEN "closed lane" ELSE "collected",
                  predecessor |-> pointer.discovery[s], cutoff |-> cutoff,
                  rows |-> {Entry(m) : m \in lane}, listed |-> Cardinality(Created(s)),
                  high |-> High(cutoff, lane)])

\* The lane of closed markets; of a market in both, the newer row.
ReadClosedLane(s) ==
  /\ job[s].at = "closed lane"
  /\ LET lane == {m \in Created(s) : m[2] >= job[s].cutoff /\ ~IsOpen(m)} IN
     Remember(s, [job[s] EXCEPT !.at = "collected",
                    !.rows = Newest(@ \cup {Entry(m) : m \in lane}),
                    !.high = High(@, lane)])

\* _split_new_and_upserts: unknown markets, and known ones with a newer row.
NewIn(rows) == {r \in rows : r.market \notin MarketsOf(KnownRows)}
UpsertsIn(rows) ==
  {r \in rows : \E k \in KnownRows : k.market = r.market /\ k.version < r.version}

\* The release continues the chain of the predecessor that was settled at the start.
DiscoveryRelease(s) ==
  [new |-> NewIn(job[s].rows), upserts |-> UpsertsIn(job[s].rows), high |-> job[s].high]
PublishDiscovery(s) ==
  /\ job[s].at = "collected"
  /\ Replace(s, [pointer EXCEPT !.discovery[s] = Append(job[s].predecessor, DiscoveryRelease(s))])

-----------------------------------------------------------------------------
(* refresh_current *)

Census == {m \in Markets : IsOpen(m)}

\* The census, beside the pointer read before it.
Refresh ==
  /\ job["refresh"].at = "idle" /\ Len(pointer.current) < MaxReleases
  /\ Remember("refresh", [at |-> "census", predecessor |-> pointer.current, open |-> Census])

Missing ==
  Last(job["refresh"].predecessor).open \ job["refresh"].open

\* The census with what reopened, and a correction for what is over.
Reconciled(read) ==
  [open |-> job["refresh"].open \cup {m \in read : IsOpen(m)},
   new |-> {}, upserts |-> {Entry(m) : m \in {m \in read : ~IsOpen(m)}}]
PublishCurrent(release) ==
  Replace("refresh", [pointer EXCEPT !.current = Append(job["refresh"].predecessor, release)])

\* Every market that left the census is read by itself: it reopened, it is
\* over, or it stays unresolved (not found, or beyond 500 reads).
Reconcile(unresolved) ==
  /\ job["refresh"].at = "census"
  /\ unresolved \subseteq Missing
  /\ LET read == Missing \ unresolved IN
     PublishCurrent(Reconciled(read))

-----------------------------------------------------------------------------
(* promote_history and compact_history.  The pointers are read before the    *)
(* manifests they lead to: what is gathered may go beyond the watermarks      *)
(* that are kept, never stop short of them.                                   *)

Promote ==
  /\ job["promote"].at = "idle"
  /\ \A s \in Streams : pointer.discovery[s] # <<>>
  /\ Remember("promote", [at |-> "watermarked", parent |-> History,
                          promoted |-> pointer.discovery])

\* _discovery_artifact_frames: what the discoveries after its watermarks announced as new.
Announced(parent) ==
  UNION {r.new : r \in UNION {
    After(pointer.discovery[s], parent.promoted[s]) : s \in Streams}}

\* A fault: a promotion moves the watermarks of compaction too.
GatherPromotionOfBoth ==
  /\ job["promote"].at = "watermarked"
  /\ LET parent == job["promote"].parent
         found == Announced(parent) IN
     Remember("promote", [at |-> "staged", parent |-> parent,
       release |-> [parent EXCEPT !.promoted = job["promote"].promoted,
                      !.compacted = job["promote"].promoted,
                      !.rows = @ \cup Newest({r \in found : r.market \notin MarketsOf(@)})]])

\* Keys the parent does not have, the newest row of each.
Promotable(parent, found) == Newest({r \in found : r.market \notin MarketsOf(parent.rows)})

GatherPromotion ==
  /\ job["promote"].at = "watermarked"
  /\ LET parent == job["promote"].parent IN
     /\ \A s \in Streams : Reachable(pointer.discovery[s], parent.promoted[s])
     /\ Remember("promote", [at |-> "staged", parent |-> parent,
          release |-> [parent EXCEPT !.promoted = job["promote"].promoted,
                         !.rows = @ \cup Promotable(parent, Announced(parent))]])

\* The pointer is read again and what it leads to is hashed: it must still be the parent.
CheckParent ==
  /\ job["promote"].at = "staged" /\ History = job["promote"].parent
  /\ Remember("promote", [job["promote"] EXCEPT !.at = "checked"])

\* By now a compaction may have published another history, which is lost unseen.
PublishPromotion ==
  /\ job["promote"].at = "checked"
  /\ Replace("promote", [pointer EXCEPT !.history = job["promote"].release])

\* The newest row of every market, out of the parent, the discoveries and the
\* corrections after its watermarks (read in the same order as above, here in
\* one step; no two rows of a market are equally new).
Compacted ==
  Newest(History.rows \cup Entries(After(pointer.current, History.lifecycle))
           \cup UNION {Entries(After(pointer.discovery[s], History.compacted[s])) : s \in Streams})

Compact ==
  /\ job["compact"].at = "idle"
  /\ Reachable(pointer.current, History.lifecycle)
  /\ \A s \in Streams : Reachable(pointer.discovery[s], History.compacted[s])
  /\ Remember("compact", [at |-> "staged", release |->
       [History EXCEPT !.compacted = pointer.discovery, !.lifecycle = pointer.current,
                       !.rows = Compacted]])

\* The parent is not looked at again.
PublishCompaction ==
  /\ job["compact"].at = "staged"
  /\ Replace("compact", [pointer EXCEPT !.history = job["compact"].release,
                           !.overtaken = @ \/ job["promote"].at = "checked"])

CatalogNext ==
  \/ \E s \in Streams :
       VenueCreates(s) \/ Collect(s) \/ ReadClosedLane(s) \/ PublishDiscovery(s)
  \/ \E m \in Markets : VenueChanges(m)
  \/ Refresh \/ \E unresolved \in SUBSET Markets : Reconcile(unresolved)
  \/ Promote \/ GatherPromotion \/ CheckParent \/ PublishPromotion
  \/ Compact \/ PublishCompaction
  \/ \E j \in Jobs : JobFails(j)

-----------------------------------------------------------------------------
(* Properties. *)

\* Published history holds every market its promotion watermarks stand for: all
\* that their stream created up to the last watermark but one, and all that the
\* discoveries up to the last announced as new; and it never falls behind a
\* correction its compaction watermarks cover: of every row of a discovery or a
\* refresh up to them it has that market at that version or a later one.  All
\* this although a discovery reads its lanes while markets appear and close, a
\* promotion reads the pointer and the manifests at two moments, a compaction may
\* overwrite a promotion, and each of them may die before its pointer is written
\* (service.py:347, history.py:65).  Only once a compaction came between the check
\* and the pointer of a promotion, which overwrites it (history.py:343, 363, 690),
\* can a market be missing, one that only a correction had brought into history:
\* that correction is then among those of the next compaction.
StandsFor(s, m) ==
  LET promoted == History.promoted[s] IN
  m[1] = s /\ Len(promoted) > 1 /\ m[2] <= promoted[Len(promoted) - 1].high
StillToCompact == MarketsOf(Entries(After(pointer.current, History.lifecycle)))
HistoryIsWhole ==
  /\ \A s \in Streams : \A m \in Markets :
       StandsFor(s, m) => \/ m \in MarketsOf(History.rows)
                          \/ pointer.overtaken /\ m \in StillToCompact
  /\ \A s \in Streams : \A r \in Range(History.promoted[s]) :
       MarketsOf(r.new) \subseteq MarketsOf(History.rows)
  /\ \A r \in Entries(Range(History.lifecycle) \cup UNION {Range(History.compacted[s]) : s \in Streams}) :
       \E h \in History.rows : h.market = r.market /\ h.version >= r.version
=============================================================================
