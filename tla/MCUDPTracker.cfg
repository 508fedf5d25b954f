CONSTANTS
    Transactions = {t1, t2}
    OldTransactions = {old}
    ConnectionIDs = {c1, c2}
    MaxInFlight = 3
    Nil = Nil
SPECIFICATION FairSpec
INVARIANTS
    AnswerIsOurs
    LateCancelHeard
PROPERTIES
    ExchangeEnds
    WatcherEnds
CHECK_DEADLOCK FALSE
