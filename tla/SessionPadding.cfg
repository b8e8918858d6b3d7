SPECIFICATION Spec
CONSTANTS
    Clients = {s1, s2}
    Consumers = {c1, c2}
    None = None
    MAX_STATION_ID = 1
    Readings = {"7"}
    Modes = {"manyPuts", "manyGets"}
    Iterations = {}
    StackBytes = {0, 1}
    ClientsMayDie = FALSE
    PutsMayFail = FALSE
    MaxStray = 1
INVARIANT StoredIsFound
CHECK_DEADLOCK FALSE
