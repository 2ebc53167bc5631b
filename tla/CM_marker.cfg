SPECIFICATION WSpec
CONSTANTS
    Receivers = {r1, r2}
    Flows <- MCFlows
    NonIP <- MCNonIP
    Route <- MCRoute
    Class <- MCClass
    Rate <- MCRate
    NbVNs = 3
    Tau = 8
    MaxSize = 2
    Sizes = {1, 2}
    MaxTime = 3
    Half = 256
INVARIANTS
    TypeOK
    NoLockout
    GreenWithinGuarantee
PROPERTIES
    BucketsIndependent
SYMMETRY ReceiversAlike
