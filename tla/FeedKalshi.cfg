\* Kalshi, two instruments: subscription acknowledgement, sequence, probe; fair tasks and timers.
SPECIFICATION FairSpec
CONSTANTS
    Venue = "kalshi"
    Markets = {m1}
    NoMarket = NoMarket
    FrameMarkets = {m1}
    Instruments = {a, b}
    MaxGeneration = 2
    MaxSeq = 3
    MaxRev = 0
PROPERTIES
    StallIsLatched
    DepthIsContiguous
