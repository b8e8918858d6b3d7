SPECIFICATION FairSpec
CONSTANTS
    Main = main
    Producer = producer
    Consumers = {c1, c2}
    NoThread = NoThread
    Destroyed = Destroyed
    MainFirst = FALSE
    MaxSignals = 2
    MaxSessions = 2
    MaxAnswers = 1
INVARIANTS
    TypeOK
    NothingLost
    ReportIsConsistent
    StatisticsExclusive
    EndsInOrder
PROPERTY
    OnlyBlockedHandlersPreventEnd
CHECK_DEADLOCK FALSE
