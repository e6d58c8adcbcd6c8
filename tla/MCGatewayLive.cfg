CONSTANTS
    Conns = {c1}
    Names <- OneDevice
    Tools <- OneTool
    Offers <- OneOffer
    FullName <- OneFullName
    Called <- OneCalled
    MaxFaults = 2
    NoConn = NoConn
    NoName = NoName
    NoService = NoService
SPECIFICATION FairSpec
INVARIANTS
    DeadConnectionLeaves
PROPERTIES
    LoopReleased
    FailedReaderLeaves
CHECK_DEADLOCK FALSE
