\* Polymarket, one instrument that two markets claim.
SPECIFICATION Spec
CONSTANTS
    Venue = "polymarket"
    Markets = {m1, m2}
    NoMarket = NoMarket
    FrameMarkets = {m1, m2, NoMarket}
    Instruments = {a}
    MaxGeneration = 2
    MaxSeq = 1
    MaxRev = 1
SYMMETRY Symmetry
INVARIANTS
    ServedIsCurrent
    AnsweredIsIntact
    BadBookIsRecovering
PROPERTIES
    ConflictNeedsProof
    KeepsContract
