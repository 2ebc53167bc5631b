SPECIFICATION FairSpec
CONSTANTS
    r1 = r1
    r2 = r2
    Receivers = {r1}
    Ports <- TwoPorts
    VNs <- OneVN
    NbEgressThreads = 2
    CapacityLo = 1
    CapacityHi = 1
    QueueCapacity = 1
    OutputCapacity = 1
    Group <- ToBoth
    Sessions <- OneSession
    IngressVerdicts <- IngressAll
    EgressVerdicts <- EgressAll
    MayStop = FALSE
    MaxPackets <- Two
    MaxHops = 1
INVARIANT
    TypeOK
PROPERTY
    Drains
CHECK_DEADLOCK FALSE
