\* Polymarket, a sound disk that fills up and empties: every run ends, every pause is healed.
SPECIFICATION FairSpec
CONSTANTS
    Venue = "polymarket"
    Instruments = {a}
    MaxGeneration = 2
    MaxFrames = 2
    MaxFaults = 0
INVARIANTS
    ReadyIsBacked
PROPERTIES
    RunEnds
    PauseIsHealed
