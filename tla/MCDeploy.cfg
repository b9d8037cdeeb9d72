SPECIFICATION LiveSpec
CONSTANTS
    Services <- MCServices
    Networks <- MCNetworks
    Volumes <- MCVolumes
    Resources <- MCResources
    NoResource = "none"
    Levels = 3
    Priority <- MCPriority
    ResourcesOf <- MCResourcesOf
    DependsOn <- Chain
    Watched <- MCServices
    Policy <- MCServices
    Late = {"app"}
    Workers = {w1, w2}
    Plans = {"up", "down", "purge", "recreate", "rebuild", "restart"}
    Faults <- CallsFail
    MaxFaults = 1
INVARIANTS
    NeverWaitsBehind
    InOrder
    TrueSuccess
PROPERTIES
    
    DataKept
    Completes
