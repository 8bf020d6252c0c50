CONSTANTS
    N = 3
    Names = {a, b}
    Modes <- BothStores
    Jobs <- PairsAndTriples
    MaxSplit = 1
    MaxRow = 2
    VcModes <- SomeVcModes
    Programs <- SomePrograms
SPECIFICATION ExchangeSpec
INVARIANTS
    NoCrossTalk
    ResultsCorrect
    NeverStuck
    NotifiedHaveLanded
    CompleteHaveLanded
    CtrlMatches
    PolledIsKnown
PROPERTY ExchangeEnds
CHECK_DEADLOCK FALSE
