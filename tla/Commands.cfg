\* One command at a time over a small venue.  A command may end, and a run of
\* commands stops at its bounds.
SPECIFICATION Spec
CONSTANTS
    b1 = b1
    b2 = b2
    MaxRows = 3
    MaxDeaths = 2
    Streams = {"pm"}
    TwoLanes = {"pm"}
    Overlap = 1
    MaxMarkets = 2
    MaxEvents = 1
    MaxReleases = 2
    MaxJobs = 2
    MaxMoves = 4
    MaxRuns = 3
    Instruments = {b1, b2}
    MaxAge = 1
    Sla = 1
    MaxReports = 3
    Places = 3
    PageSize = 1
    MaxPages = 4
    MaxItems = 3
    MaxAttempts = 2
    Windows = 2
    MaxMessages = 3
    MaxGroup = 2
    MaxEdits = 2
    ListingSize = 3
    ListingPage = 1
    PageCap = 2
    Changes = 1
    Targets = 2
    token = token
    ticker = ticker
    Legs <- OneOfEach
    MaxPolls = 2
    MaxCycles = 2
    FlushRows = 2
    MaxBatchRows = 3
    TradePages = 2
    MaxPublished = 2
    MaxTampers = 2
    Requested = 2
    MaxTries = 2
    MaxNotes = 3
    LastTick = 1
    EligibleAge = 0
    InitialSla = 0
    RowBatch = 3
    Fingerprints = {b1, b2}
    LastReceived = 2
    LastMono = 2
    Interval = 1
    MaxStored = 4
    SinkCount = 2
    FlushEvery = 2
    SegmentRows = 3
    MaxGiven = 4
    MaxStreams = 2
    BatchSize = 4
    Concurrency = 2
    Tokens = {b1, b2}
    MaxEntries = 2
    QueueSize = 1
    MaxFrames = 3
    MaxSockets = 2
    MaxRetries = 2
INVARIANTS
    CommittedIsRecovered
    FinalizedIsWhole
    HistoryIsWhole
    ResolutionIsTrue
    NoStaleBookSurvives
    ShardsAreTrue
    ReadsAreWhole
    TapeIsFaithful
    RunFilesAreTrusted
    CollectionsAreWhole
    PolledIsKept
    SnapshotIsOneRelease
    EvidenceIsHonest
    StreamRowsAreKept
PROPERTIES
    LabelNeverFlips
CHECK_DEADLOCK FALSE
