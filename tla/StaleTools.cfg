CONSTANTS
    Conns = {c1, c2}
    Names <- OneDevice
    Tools <- OneTool
    Offers <- OneOffer
    FullName <- OneFullName
    Called <- OneCalled
    MaxFaults = 0
    NoConn = NoConn
    NoName = NoName
    NoService = NoService
SPECIFICATION Spec
INVARIANTS
    OldToolsCleared
CHECK_DEADLOCK FALSE
