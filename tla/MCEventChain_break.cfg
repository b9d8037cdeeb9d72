SPECIFICATION LiveSpec
CONSTANTS
    Instances = {i1}
    Net = net
    Prj = prj
    Workers = {w1}
    None = none
    Contents = {1, 2}
    Kinds = {"update"}
    InboxSize = 1
    CommandBuffer = 1
    MaxLine = 1
    DueCap = 1
    MaxChanges = 1
    MaxTroubles = 1
PROPERTIES
    ServesWhatIsThere
    BecomesReady
