SPECIFICATION MCSpec
CONSTANTS
    east = east
    west = west
SYMMETRY Symmetry
INVARIANTS
    PathsSound
    CheckSound
    HistorySound
    CountsSound
PROPERTIES
    ChoicesAccepted
CHECK_DEADLOCK FALSE
