\* A control frame that could not be stored is reported: refuted at the deadline.
SPECIFICATION Spec
CONSTANTS
    Venue = "polymarket"
    Instruments = {a}
    MaxGeneration = 1
    MaxFrames = 2
    MaxFaults = 1
INVARIANTS
    ControlErrorIsReported
