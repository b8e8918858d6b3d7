SPECIFICATION Spec
CONSTANTS
    GRID_SIZE = 5
    Boards <- ManyBoards
INVARIANTS
    ScanFindsLines
    OnlyRulesExplode
    FirstLevelExplodes
    DropKeepsColumns
    ClickSelectsCube
CHECK_DEADLOCK FALSE
