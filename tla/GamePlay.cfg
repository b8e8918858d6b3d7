SPECIFICATION Spec
CONSTANTS
    GRID_SIZE = 3
    Selectable = {"RED", "ROCK", "PAPER"}
    NUMBER_OF_MOVES = 2
    MaxMoves = 3
    Rolls <- FewRolls
    MaxGames = 2
    Exposures = TRUE
    Exits = {0}
    NoPoint = NoPoint
INVARIANTS
    TypeOK
    LinesOnlyDuringReset
    GameOverAfterMoves
    MarksFollowSelection
CHECK_DEADLOCK FALSE
