SPECIFICATION Spec
CONSTANTS
    i1 = "i1"
    i2 = "i2"
    n1 = "n1"
    n2 = "n2"
    None = None
    Ambiguous = Ambiguous
    Instances <- MCInstances
    Nets <- MCNets
    Subnet <- MCSubnet
    Events <- MCEvents
    Clients <- MCClients
    QNames <- MCQNames
    InboxSize = 1
    MaxTold = 4
    MaxRestarts = 1
INVARIANTS Rebuilt OnlyReachable StoredLast WindowArmed
PROPERTIES SerialMoves
CHECK_DEADLOCK FALSE
