CONSTANTS
    Procs = {p1, p2}
    p1 = p1
    p2 = p2
    X = X
    Y = Y
    amd64 = amd64
    armv6 = armv6
    armv7 = armv7
    Projects = {X, Y}
    Archs = {amd64, armv6, armv7}
    Fold <- MCFold
    Protocols = {"oci", "native", "none"}
    Jobs <- MCJobs
    Seeds = {{}, {amd64, Y}}
    MaxRev = 2
    MaxTroubles = 1
    None = None
SPECIFICATION Spec
INVARIANTS  HopAStable Configured
PROPERTY Ends
