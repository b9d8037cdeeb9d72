SPECIFICATION Spec
CONSTANTS
    Instances = {i1}
    Net = net
    Prj = prj
    Workers = {w1, w2}
    None = none
    Contents = {1, 2}
    Kinds = {"start", "restart", "update", "delete", "profile", "subnet"}
    InboxSize = 2
    CommandBuffer = 1
    MaxLine = 1
    DueCap = 1
    MaxChanges = 1
    MaxTroubles = 0
INVARIANTS
    ReadsAccounted
    WholeBeforeReady
    ProjectFirst
