CONSTANTS
    p1 = p1
    p2 = p2
    shell = shell
    None = None
    Other = Other
    Procs <- MCProcs
    Commands <- NoCommands
    MaxCrashes = 0
SPECIFICATION Spec
INVARIANTS
    StatusTells
CHECK_DEADLOCK FALSE
