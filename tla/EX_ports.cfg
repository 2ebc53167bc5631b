SPECIFICATION Spec

CONSTANTS
    Scripts <- Programs
    MaxSwitches = 2
    MaxPolls = 3
    MaxFaults = 0
    MaxHosts = 3

INVARIANT ThriftPortsUnique

CHECK_DEADLOCK FALSE
