SPECIFICATION Spec
CONSTANTS
    p1 = p1
    p2 = p2
    v1 = v1
    v2 = v2
    Meta = Meta
    None = None
    Procs <- MCProcs
    Vols <- MCVols
    Locks <- MCLocks
    Jobs <- MCJobs
    Times = {1, 2, 3}
    MaxContent = 3
    MaxTroubles = 1
    MaxLate = 0
    MaxCrashes = 1
INVARIANTS Restorable CutKept
PROPERTIES RestoredWhole IsMutex Finishes
CHECK_DEADLOCK FALSE
