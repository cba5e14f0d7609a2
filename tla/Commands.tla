------------------------------ MODULE Commands ------------------------------
(***************************************************************************)
(* The commands of pmkt beside the live feeds.  They share no state: a     *)
(* process runs one command, so a behaviour is one command of the program  *)
(* together with the venue it reads and the files it leaves, and the other *)
(* components keep their first state.  (The jobs of the catalog are        *)
(* several processes over one data root: they are one component.)          *)
(***************************************************************************)
EXTENDS LegacyCapture, Catalog, ResolutionCache, FeedSupervisor, VenueReads, BookTape, RunReaders,
        Ingest, Polling, CatalogReader, CaptureEvidence, TopBookEmission,
        StreamSink, ResolutionBatch, FeedPlan, MarketSocket

VARIABLE command
commandVars ==
  <<legacyVars, catalogVars, resolutionVars, supervisorVars, readVars, tapeVars,
    readerVars, ingestVars, pollVars, catalogReaderVars, evidenceVars, emissionVars,
    streamVars, batchVars, planVars, socketVars, command>>

\* A venue differs only where a command reads it.
Init ==
  /\ command \in {"capture", "catalog", "resolve", "supervise", "read", "tape", "use", "ingest",
                  "poll", "open", "evidence", "emit", "stream", "batch", "plan", "socket"}
  /\ LegacyInit /\ CatalogInit /\ SupervisorInit /\ ReaderInit /\ PollInit /\ ReaderOfCatalogInit
  /\ ResolutionInit
  /\ command # "resolve" => venue.first = "yes" /\ venue.value = "yes" /\ cache.rows.kalshi = Weak
  /\ ReadInit /\ (command # "read" => Listed = {})
  /\ TapeInit /\ (command # "tape" => feed.venue = "kalshi")
  /\ IngestInit
  /\ command # "ingest" => listing.archive /\ listing.settle = [i \in Lots |-> 1]
  /\ EvidenceInit
  /\ command # "evidence" =>
       tracker.integrity /\ tracker.sources = [i \in RequestedIds |-> ListedSource]
  /\ EmissionInit /\ StreamInit /\ BatchInit /\ SocketInit
  /\ PlanInit
  /\ command # "plan" =>
       plan = [venue |-> "kalshi", entries |-> <<>>, legacy |-> <<>>] /\ selection = <<>>

\* cli.streaming and cli.recovery on one run.
Capture ==
  /\ command = "capture" /\ LegacyNext
  /\ UNCHANGED <<catalogVars, resolutionVars, supervisorVars, readVars, tapeVars,
                 readerVars, ingestVars, pollVars, catalogReaderVars, evidenceVars,
                 emissionVars, streamVars, batchVars, planVars, socketVars, command>>
\* cli.catalog: discover, refresh, promote and compact.
RunJobs ==
  /\ command = "catalog" /\ CatalogNext
  /\ UNCHANGED <<legacyVars, resolutionVars, supervisorVars, readVars, tapeVars,
                 readerVars, ingestVars, pollVars, catalogReaderVars, evidenceVars,
                 emissionVars, streamVars, batchVars, planVars, socketVars, command>>
\* resolve_polymarket_markets, resolve_kalshi_markets over one cache.
ResolveMarkets ==
  /\ command = "resolve" /\ ResolutionNext
  /\ UNCHANGED <<legacyVars, catalogVars, supervisorVars, readVars, tapeVars, readerVars,
                 ingestVars, pollVars, catalogReaderVars, evidenceVars, emissionVars,
                 streamVars, batchVars, planVars, socketVars, command>>
\* The health of one shard of a feed.
SuperviseShard ==
  /\ command = "supervise" /\ SupervisorNext
  /\ UNCHANGED <<legacyVars, catalogVars, resolutionVars, readVars, tapeVars, readerVars,
                 ingestVars, pollVars, catalogReaderVars, evidenceVars, emissionVars,
                 streamVars, batchVars, planVars, socketVars, command>>
\* The REST reads.
ReadVenue ==
  /\ command = "read" /\ ReadNext
  /\ UNCHANGED <<legacyVars, catalogVars, resolutionVars, supervisorVars, tapeVars,
                 readerVars, ingestVars, pollVars, catalogReaderVars, evidenceVars,
                 emissionVars, streamVars, batchVars, planVars, socketVars, command>>
\* A shard with a book tape, and the reconstruction of its books.
ReplayTape ==
  /\ command = "tape" /\ TapeNext
  /\ UNCHANGED <<legacyVars, catalogVars, resolutionVars, supervisorVars, readVars,
                 readerVars, ingestVars, pollVars, catalogReaderVars, evidenceVars,
                 emissionVars, streamVars, batchVars, planVars, socketVars, command>>
\* Reconstruction and archive of a finalized run.
UseRun ==
  /\ command = "use" /\ ReaderNext
  /\ UNCHANGED <<legacyVars, catalogVars, resolutionVars, supervisorVars, readVars,
                 tapeVars, ingestVars, pollVars, catalogReaderVars, evidenceVars,
                 emissionVars, streamVars, batchVars, planVars, socketVars, command>>
\* cli.collections: one listing, or the segments of a historical one.
IngestMarkets ==
  /\ command = "ingest" /\ IngestNext
  /\ UNCHANGED <<legacyVars, catalogVars, resolutionVars, supervisorVars, readVars,
                 tapeVars, readerVars, pollVars, catalogReaderVars, evidenceVars,
                 emissionVars, streamVars, batchVars, planVars, socketVars, command>>
\* The polling recorder, the collectors and the historical backfill.
PollVenue ==
  /\ command = "poll" /\ PollNext
  /\ UNCHANGED <<legacyVars, catalogVars, resolutionVars, supervisorVars, readVars,
                 tapeVars, readerVars, ingestVars, catalogReaderVars, evidenceVars,
                 emissionVars, streamVars, batchVars, planVars, socketVars, command>>
\* A reader of a published catalog.
OpenCatalog ==
  /\ command = "open" /\ CatalogReaderNext
  /\ UNCHANGED <<legacyVars, catalogVars, resolutionVars, supervisorVars, readVars,
                 tapeVars, readerVars, ingestVars, pollVars, evidenceVars, emissionVars,
                 streamVars, batchVars, planVars, socketVars, command>>
\* The evidence that a capture observed its instruments.
ObserveShard ==
  /\ command = "evidence" /\ CaptureEvidenceNext
  /\ UNCHANGED <<legacyVars, catalogVars, resolutionVars, supervisorVars, readVars,
                 tapeVars, readerVars, ingestVars, pollVars, catalogReaderVars,
                 emissionVars, streamVars, batchVars, planVars, socketVars, command>>
\* The top-of-book rows of one instrument.
EmitQuotes ==
  /\ command = "emit" /\ EmissionNext
  /\ UNCHANGED <<legacyVars, catalogVars, resolutionVars, supervisorVars, readVars,
                 tapeVars, readerVars, ingestVars, pollVars, catalogReaderVars,
                 evidenceVars, streamVars, batchVars, planVars, socketVars, command>>
\* The sinks of streaming runs over the same directories.
StreamDatasets ==
  /\ command = "stream" /\ StreamNext
  /\ UNCHANGED <<legacyVars, catalogVars, resolutionVars, supervisorVars, readVars,
                 tapeVars, readerVars, ingestVars, pollVars, catalogReaderVars,
                 evidenceVars, emissionVars, batchVars, planVars, socketVars, command>>
\* One batch of resolutions, its workers and its budget.
ResolveBatch ==
  /\ command = "batch" /\ BatchNext
  /\ UNCHANGED <<legacyVars, catalogVars, resolutionVars, supervisorVars, readVars,
                 tapeVars, readerVars, ingestVars, pollVars, catalogReaderVars,
                 evidenceVars, emissionVars, streamVars, planVars, socketVars, command>>
\* A supervisor built from a subscription plan.
PlanFeed ==
  /\ command = "plan" /\ PlanNext
  /\ UNCHANGED <<legacyVars, catalogVars, resolutionVars, supervisorVars, readVars,
                 tapeVars, readerVars, ingestVars, pollVars, catalogReaderVars,
                 evidenceVars, emissionVars, streamVars, batchVars, socketVars, command>>
\* The tasks inside a Polymarket websocket client.
ReadSocket ==
  /\ command = "socket" /\ SocketNext
  /\ UNCHANGED <<legacyVars, catalogVars, resolutionVars, supervisorVars, readVars,
                 tapeVars, readerVars, ingestVars, pollVars, catalogReaderVars,
                 evidenceVars, emissionVars, streamVars, batchVars, planVars, command>>

Next ==
  Capture \/ RunJobs \/ ResolveMarkets \/ SuperviseShard \/ ReadVenue \/ ReplayTape
  \/ UseRun \/ IngestMarkets \/ PollVenue \/ OpenCatalog \/ ObserveShard
  \/ EmitQuotes \/ StreamDatasets \/ ResolveBatch \/ PlanFeed \/ ReadSocket
Spec == Init /\ [][Next]_commandVars
=============================================================================
