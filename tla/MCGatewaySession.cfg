CONSTANTS
    Conns = {c1, c2}
    Names <- TwoDevices
    Tools <- TwoTools
    Offers <- CollidingOffers
    FullName <- CollidingFullNames
    Called <- CollidingCalled
    MaxFaults = 0
    NoConn = NoConn
    NoName = NoName
    NoService = NoService
SPECIFICATION Spec
SYMMETRY ConnSymmetry
INVARIANTS
    TypeOK
    RouteFidelity
    ClosedByOwnReader
    DeadConnectionLeaves
PROPERTIES
    ImplementsDirectory
CHECK_DEADLOCK FALSE
