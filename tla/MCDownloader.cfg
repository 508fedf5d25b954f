CONSTANTS
    Peers = {a, b, c}
    Pieces = {p, q}
    Workers <- Goroutines
    MaxWorkers = 2
    Limit = 2
    Nil = Nil
SPECIFICATION FairSpec
INVARIANTS
    OnePerPeer
    ResultsNeverBlock
    NoWorkerOutlives
    VerdictTruthful
PROPERTY
    MainReturns
CHECK_DEADLOCK FALSE
