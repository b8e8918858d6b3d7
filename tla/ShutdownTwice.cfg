SPECIFICATION FairSpec
CONSTANTS
    Main = main
    Producer = producer
    Consumers = {c1, c2}
    NoThread = NoThread
    Destroyed = Destroyed
    MainFirst = TRUE
    MaxSignals = 2
    MaxSessions = 1
    MaxAnswers = 1
PROPERTY SignalEndsServer
CHECK_DEADLOCK FALSE
