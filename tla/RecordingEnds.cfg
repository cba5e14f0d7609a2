\* One instrument, awaits that are answered and a deadline that comes.
\* The model stops when the run is over.
SPECIFICATION FairSpec
CONSTANTS
    i1 = i1
    i2 = i2
    m1 = m1
    m2 = m2
    t1 = t1
    t2 = t2
    None = None
    Instruments = {i1}
    Markets = {m1, m2}
    Tables = {t1}
    MaxExports = 0
    MaxMessages = 3
    MaxReconnects = 2
    MaxFollowup = 2
    MaxCommits = 1
PROPERTIES
    RecordingEnds
    ReconnectsEnd
CHECK_DEADLOCK FALSE
