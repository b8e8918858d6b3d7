SPECIFICATION Spec
CONSTANTS
    Clients = {s1, s2, s3}
    Consumers = {c1, c2}
    None = None
    MAX_STATION_ID = 1
    Readings = {"7", "8"}
    Modes = {"MANUAL_PUT", "AUTO_GET_REQUEST"}
    Iterations = {0, 2}
    StackBytes = {0}
    ClientsMayDie = FALSE
    PutsMayFail = FALSE
    MaxStray = 1
SYMMETRY SessionSymmetry
INVARIANTS
    TypeOK
    AnswersTheQuestion
    StoredIsFound
PROPERTY ImplementsStore
CHECK_DEADLOCK FALSE
