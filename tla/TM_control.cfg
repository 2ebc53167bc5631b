SPECIFICATION Spec
CONSTANTS
    NbVNs = 2
    Weight <- EqualWeights
    Q = 1
    Tau = 0
    DefaultRate = 8
    MaxSize = 1
    IdleTimeout = 1
    MaxAge = 1
    Ports = {1}
    Workers = {"w1"}
    WorkerOf <- OneWorker
    DefaultCapacity = 2
    Arrivals <- SentinelAndYellow
    Capacities = {1, 2}
    Rates = {0, 8}
    MaxCredit = 0
    MaxDeficit = 1
INVARIANT
    LevelBounded
PROPERTY
    ImplementsVNFifo
