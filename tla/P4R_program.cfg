SPECIFICATION FairSpec

CONSTANTS
    Switches = {"s1", "s2"}
    Programs <- MCPrograms
    Chatter = {"packet", "unknown"}
    MaxJobs = 3
    MaxChatter = 2
    MaxFaults = 1

INVARIANTS
    TypeOK
    TablesAreConfigured
    ValuesExact
    AtMostOneLate
    FinallyClosed
    TestsIsolated

PROPERTY StreamsReleased
PROPERTY ArbitrationAnswered
PROPERTY ProgramsEnd

CHECK_DEADLOCK FALSE
