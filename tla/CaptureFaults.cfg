\* Kalshi: a storage error anywhere, disk pauses, crashes.
SPECIFICATION Spec
CONSTANTS
    Venue = "kalshi"
    Instruments = {a}
    MaxGeneration = 2
    MaxFrames = 2
    MaxFaults = 1
INVARIANTS
    ChainHolds
    LossIsMarked
    FinalIsHonest
