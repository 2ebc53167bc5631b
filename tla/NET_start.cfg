SPECIFICATION FairSpec

CONSTANTS
    Scripts <- MCScripts
    MaxSwitches = 3
    MaxPolls = 3
    MaxFaults = 1
    MaxHosts = 3

INVARIANTS
    TypeOK
    GrpcPortIsOwn
    CommandsReachTheirSwitch
    ExitReportsFailure
    CommandsReaped
    RoutesLead

PROPERTY StartDecided
PROPERTY AppEnds

CHECK_DEADLOCK FALSE
