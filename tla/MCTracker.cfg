CONSTANTS
    HTTPTrackers = {h1, h2}
    UDPTrackers = {u}
    OtherURLs = {x}
    Empty = Empty
    IPs = {a, b}
    MaxPort = 1
    MaxInterval = 2
    AnnounceLists <- MCAnnounceLists
    HTTPAnswers <- MCHTTPAnswers
    UDPAnswers <- MCUDPAnswers
    Nil = Nil
SPECIFICATION Spec
INVARIANTS
    PeersNotHidden
    ToldOnce
CHECK_DEADLOCK FALSE
