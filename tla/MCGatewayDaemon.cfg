CONSTANTS
    p1 = p1
    p2 = p2
    shell = shell
    None = None
    Other = Other
    Procs <- MCProcs
    Commands <- MCCommands
    MaxCrashes = 2
SPECIFICATION FairSpec
INVARIANTS
    TypeOK
    ServerOwnsPorts
    ServerKnown
    NothingInTheWay
    SummaryTells
    NoSecondGateway
PROPERTIES
    StopStops
    StartTells
    CommandsEnd
CHECK_DEADLOCK FALSE
