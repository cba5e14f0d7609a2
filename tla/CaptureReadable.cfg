\* A pair is readable: refuted by a write that the disk refused.
SPECIFICATION Spec
CONSTANTS
    Venue = "polymarket"
    Instruments = {a}
    MaxGeneration = 1
    MaxFrames = 2
    MaxFaults = 1
INVARIANTS
    PairsAreReadable
