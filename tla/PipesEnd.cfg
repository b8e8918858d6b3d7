SPECIFICATION FairSpec
CONSTANTS
    Labs = {"lab8_2", "lab8_3", "lab8_5"}
    Numbers <- FewNumbers
    INT_MAX = 7
    Capacity = 2
    MayBeKilled = TRUE
    NaN = NaN
    Garbage = Garbage
    MaxRounds = 6
INVARIANTS
    TypeOK
    FileHoldsWhatWasSent
    EachAddedOnce
    ReportIsTrue
PROPERTIES
    EndingEnds
    NobodyLeftAlone
CHECK_DEADLOCK FALSE
