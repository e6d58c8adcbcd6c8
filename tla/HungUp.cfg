CONSTANTS
    Conns = {c1}
    Names <- OneDevice
    Tools <- OneTool
    Offers <- OneOffer
    FullName <- OneFullName
    Called <- OneCalled
    MaxFaults = 1
    NoConn = NoConn
    NoName = NoName
    NoService = NoService
SPECIFICATION FairSpec
PROPERTIES
    HungUpLeaves
CHECK_DEADLOCK FALSE
