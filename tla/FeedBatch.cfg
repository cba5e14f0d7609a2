\* Polymarket, two instruments of one market: batches and market-scoped events.
SPECIFICATION Spec
CONSTANTS
    Venue = "polymarket"
    Markets = {m1}
    NoMarket = NoMarket
    FrameMarkets = {m1}
    Instruments = {a, b}
    MaxGeneration = 2
    MaxSeq = 1
    MaxRev = 0
SYMMETRY Symmetry
INVARIANTS
    ResolvedIsAtRest
    TasksAreOwned
