CONSTANTS
    NumPieces = 2
    TotalLength = 5
    PieceLength = 3
    BlockSize = 2
    Workers = {w1, w2}
    Waiters = {w1, w2}
    Nil = Nil
SPECIFICATION FairSpec
INVARIANTS
    TypeOK
    ReservationOwned
    CompleteIsStored
    DeadlineMatchesPiece
    HonestBlockAccepted
PROPERTIES
    CompleteIsFinal
    ImplementsPieceExchange
    ReservationResolved
    CancelStops
CHECK_DEADLOCK FALSE
