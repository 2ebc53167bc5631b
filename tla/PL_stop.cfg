SPECIFICATION FairSpec
CONSTANTS
    r1 = r1
    r2 = r2
    Receivers = {r1, r2}
    Ports <- TwoPorts
    VNs <- OneVN
    NbEgressThreads = 2
    CapacityLo = 1
    CapacityHi = 1
    QueueCapacity = 1
    OutputCapacity = 3
    Group <- ToBoth
    Sessions <- NoSessions
    IngressVerdicts <- IngressRound
    EgressVerdicts <- EgressOutput
    MayStop = TRUE
    MaxPackets <- TwoAndOne
    MaxHops = 1
INVARIANTS
    InOrder
    NoLostWakeup
PROPERTY
    ShutdownEnds
CHECK_DEADLOCK FALSE
