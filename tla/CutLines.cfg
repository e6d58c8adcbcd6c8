CONSTANTS
    Callers = {sync, loop}
    MaxCalls = 2
    MaxLines = 3
    StrayIds <- MCStrayIds
    Bodies = {result}
    NoLine = NoLine
SPECIFICATION LinkSpec
INVARIANTS
    EveryLineHandled
CHECK_DEADLOCK FALSE
