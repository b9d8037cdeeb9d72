CONSTANTS
    Instances = {web}
    TaskIds = {1, 2}
    NoTask = 0
    DefaultRestartDelay = 1
    MaxRestartDelay = 2
    MaxFailures = 2
    RawConfigs <- AllConfigs
    InitialServers <- AsIntended
    Operations = {"crash", "update", "delete", "create", "stop", "start", "pause", "unpause", "fault"}
    MaxOps = 1
    MaxLine = 2
SPECIFICATION Spec
INVARIANTS TypeOK OwnedSlots
PROPERTIES BackoffKept
CHECK_DEADLOCK FALSE
