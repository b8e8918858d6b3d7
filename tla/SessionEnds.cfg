SPECIFICATION FairSpec
CONSTANTS
    Clients = {s1, s2}
    Consumers = {c1, c2}
    None = None
    MAX_STATION_ID = 1
    Readings = {"7"}
    Modes = {"manyPuts", "manyGets", "MALFORMED", "FOREIGN"}
    Iterations = {}
    StackBytes = {0}
    ClientsMayDie = TRUE
    PutsMayFail = TRUE
    MaxStray = 1
INVARIANT AnswersTheQuestion
PROPERTIES
    ImplementsStore
    SessionsEnd
CHECK_DEADLOCK FALSE
