CONSTANTS
    Peers = {a, b}
    Pieces = {p, q}
    Workers <- Goroutines
    MaxWorkers = 1
    Limit = 2
    Nil = Nil
SPECIFICATION IdleSpec
PROPERTY
    IdleTimeoutHonest
CHECK_DEADLOCK FALSE
