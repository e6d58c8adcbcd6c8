CONSTANTS
    Markers <- MCMarkers
    MaxChanges = 2
    MaxExports = 3
    MaxErrors = 2
SPECIFICATION FairSpec
INVARIANTS
    TypeOK
    OneExportWaits
    NoLostChange
    WholeFile
PROPERTIES
    FileAdvances
    FileFollows
    ImplementsMirror
CHECK_DEADLOCK FALSE
