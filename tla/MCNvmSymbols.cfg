CONSTANTS
    Scripts = {1, 2}
    MapFiles <- MCMapFiles
    Sources <- MCSources
SPECIFICATION Spec
INVARIANTS
    TypeOK
    TableMatchesMap
CHECK_DEADLOCK FALSE
