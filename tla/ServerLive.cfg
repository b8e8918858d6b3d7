SPECIFICATION FairSpec
CONSTANTS
    Producer = producer
    Consumers = {c1, c2}
    NoThread = NoThread
    MAX_PENDING_CONNECTIONS = 2
    MaxConnections = 5
    SpuriousWakeups = FALSE
INVARIANT ExitOnlyAfterSpuriousWakeup
PROPERTIES
    EveryConnectionServed
    ProducerResumes
CHECK_DEADLOCK FALSE
