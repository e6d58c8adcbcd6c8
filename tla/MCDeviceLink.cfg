CONSTANTS
    Callers = {sync, loop}
    MaxCalls = 3
    MaxLines = 2
    StrayIds <- MCStrayIds
    Bodies = {ok, err}
    NoLine = NoLine
SPECIFICATION LinkFairSpec
INVARIANTS
    TypeOK
    EventAfterResponse
    OwnResponse
    NoLeak
    LinkTypeOK
    NoAnswerDropped
PROPERTIES
    AnsweredOnce
    ImplementsRpcCalls
CHECK_DEADLOCK FALSE
