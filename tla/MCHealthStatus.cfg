CONSTANTS
    TaskIds = {1}
    NoTask = 0
    DefaultRestartDelay = 1
    MaxRestartDelay = 1
    MaxFailures = 2
    Writers = {1, 2}
    Raws <- KeptOrWatched
    Left = {"healthy"}
    Operations = {"stop", "start", "sicken", "heal", "fault"}
    MaxOps = 1
    MaxLine = 2
SPECIFICATION AnsweringSpec
PROPERTIES VerdictConverges StopConverges
CHECK_DEADLOCK FALSE
