------------------------------ MODULE MCBackup ------------------------------
EXTENDS Backup, TLC

CONSTANTS p1, p2, v1, v2

MCProcs == {p1, p2}
MCVols == {v1, v2}
MCLocks == {v1, v2, Meta}

(* The pairs that meet over a lock, a run or a volume; which process runs  *)
(* which command does not matter.                                          *)
MCJobs ==
    {p1 :> a @@ p2 :> "create" : a \in {"create", "live", "restore", "delete"}}
    \union {p1 :> "restore" @@ p2 :> b : b \in {"restore", "delete"}}
=============================================================================
