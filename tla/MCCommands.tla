---------------------------- MODULE MCCommands ----------------------------
EXTENDS Commands
CONSTANTS b1, b2, token, ticker
\* One instrument of each venue.
OneOfEach == <<token, ticker>>

-----------------------------------------------------------------------------
\* Properties of one concern, that runs check together.

\* What a tape holds can be replayed, and the replay finds the books there were.
TapeIsFaithful == TapeIsReplayable /\ ReplayIsFaithful

\* What is made of a finalized run is made of what it committed: reconstructed books are
\* published of bound files only, and a source is removed after its archive holds it.
RunFilesAreTrusted == PublishedIsCommitted /\ SourceIsArchived

\* What a stream hands over is kept: quotes are emitted so that a reader of the rows finds each
\* one in force when it was seen, and segments hold the rows their sinks accepted.
StreamRowsAreKept == EmissionReplays /\ SegmentsAreKept

\* A resolution is what the venue said, in the cache and in the batch that asked for it.
ResolutionIsTrue == LabelIsTrue /\ BatchIsWhole

\* A shard has the instruments it was asked for, and counts them as they are.
ShardsAreTrue == CountsAreTrue /\ EveryPlannedBookHasAShard

\* What a venue has to say arrives: the pages of a bounded read, the frames of a connection.
ReadsAreWhole == CompleteReadsAreWhole /\ StreamIsWhole
=============================================================================
