\* A cancellation while the finally block of record_feed closes its pump.
SPECIFICATION Spec
CONSTANTS
    i1 = i1
    i2 = i2
    m1 = m1
    m2 = m2
    t1 = t1
    t2 = t2
    None = None
    Instruments = {i1}
    Markets = {m1, m2}
    Tables = {t1}
    MaxExports = 0
    MaxMessages = 2
    MaxReconnects = 1
    MaxFollowup = 1
    MaxCommits = 1
INVARIANTS
    CancellationIsRecorded
CHECK_DEADLOCK FALSE
