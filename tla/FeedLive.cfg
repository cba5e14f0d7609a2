\* Polymarket, one instrument, with fair tasks and timers and a venue that answers.
SPECIFICATION AnsweringSpec
CONSTANTS
    Venue = "polymarket"
    Markets = {m1, m2}
    NoMarket = NoMarket
    FrameMarkets = {m1, m2}
    Instruments = {a}
    MaxGeneration = 2
    MaxSeq = 1
    MaxRev = 0
PROPERTIES
    Reopens
    CloseCompletes
    DarkBookIsRequested
    RequestedBookRecovers
