SPECIFICATION FairSpec
CONSTANTS
    NbVNs = 2
    Weight <- RisingWeights
    Q = 2
    Tau = 0
    DefaultRate = 8
    MaxSize = 2
    IdleTimeout = 1
    MaxAge = 2
    Ports = {1}
    Workers = {"w1"}
    WorkerOf <- OneWorker
    DefaultCapacity = 1
    Arrivals <- GreenAndYellow
    Capacities = {}
    Rates = {}
    MaxCredit = 2
    MaxDeficit = 4
PROPERTIES
    GuaranteeServed
    SharingServed
