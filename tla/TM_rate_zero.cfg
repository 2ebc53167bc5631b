SPECIFICATION Spec
CONSTANTS
    NbVNs = 1
    Weight <- EqualWeights
    Q = 2
    Tau = 0
    DefaultRate = 5
    MaxSize = 2
    IdleTimeout = 1
    MaxAge = 4
    Ports = {1, 2}
    Workers = {"w1"}
    WorkerOf <- OneWorker
    DefaultCapacity = 1
    Arrivals <- YellowOnly
    Capacities = {}
    Rates = {0}
    MaxCredit = 0
    MaxDeficit = 2
INVARIANT
    ZeroRateIsUnlimited
