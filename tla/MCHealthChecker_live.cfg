CONSTANTS
    Instances = {web}
    TaskIds = {1, 2}
    NoTask = 0
    DefaultRestartDelay = 1
    MaxRestartDelay = 1
    MaxFailures = 2
    RawConfigs <- JustPolicy
    InitialServers <- JustUp
    Operations = {"crash"}
    MaxOps = 1
    MaxLine = 2
SPECIFICATION LiveSpec
PROPERTIES KeepsChecking ComesBack
CHECK_DEADLOCK FALSE
