\* Two instruments of one connection, any storage error, crash and export.
\* The model stops when the run and the exports are over.
SPECIFICATION Spec
CONSTANTS
    i1 = i1
    i2 = i2
    m1 = m1
    m2 = m2
    t1 = t1
    t2 = t2
    None = None
    Instruments = {i1, i2}
    Markets = {m1, m2}
    Tables = {t1, t2}
    MaxExports = 1
    MaxMessages = 3
    MaxReconnects = 1
    MaxFollowup = 1
    MaxCommits = 1
SYMMETRY Symmetric
INVARIANTS
    RecordedTopIsTrue
    VerdictIsHonest
PROPERTIES
    GraceIsBounded
    KeepsRecording
CHECK_DEADLOCK FALSE
