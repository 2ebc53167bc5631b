SPECIFICATION FairSpec
CONSTANTS
    r1 = r1
    r2 = r2
    Receivers = {r1}
    Ports <- TwoPorts
    VNs <- OneVN
    NbEgressThreads = 2
    CapacityLo = 1
    CapacityHi = 1
    QueueCapacity = 2
    OutputCapacity = 1
    Group <- ToBoth
    Sessions <- NoSessions
    IngressVerdicts <- IngressForward
    EgressVerdicts <- EgressOutput
    MayStop = TRUE
    MaxPackets <- Three
    MaxHops = 0
PROPERTY
    ShutdownEnds
CHECK_DEADLOCK FALSE
