SPECIFICATION Spec
CONSTANTS
    GRID_SIZE = 3
    Selectable = {"RED", "ROCK", "PAPER"}
    NUMBER_OF_MOVES = 3
    MaxMoves = 2
    Rolls <- FewRolls
    MaxGames = 1
    Exposures = TRUE
    Exits = {}
    NoPoint = NoPoint
INVARIANT EmptySlotsAreRefilled
CHECK_DEADLOCK FALSE
