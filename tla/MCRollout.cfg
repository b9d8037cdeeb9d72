SPECIFICATION Spec
CONSTANTS
    Members = {1, 2, 3}
    Attr <- MCAttr
    Anywhere = Anywhere
    None = None
    Services <- MCServices
    Cases <- MCCases
    Scales <- MCScales
    Entry = {2, 3}
    MaxIndex = 3
    MaxUps = 2
    MaxEvents = 1
    MaxFaults = 1
    Workers = 2
INVARIANTS Available Settled Placed WaitsNamed
CHECK_DEADLOCK FALSE
