SPECIFICATION Spec
CONSTANTS
    Producer = producer
    Consumers = {c1, c2, c3}
    NoThread = NoThread
    MAX_PENDING_CONNECTIONS = 2
    MaxConnections = 6
    SpuriousWakeups = TRUE
SYMMETRY ConsumerSymmetry
INVARIANTS
    TypeOK
    MutualExclusion
    QueueIsBacklog
    EachTakenOnce
    ProducerSleepsOnFullQueue
    LightLoadWakesConsumers
PROPERTY ImplementsDispatch
CHECK_DEADLOCK FALSE
