------------------------------- MODULE Mutex -------------------------------
(***************************************************************************)
(* What a volume lock promises: at any time at most one process has it, it *)
(* is taken only when nobody has it, and only its holder gives it up, by   *)
(* releasing it or by dying.                                               *)
(***************************************************************************)
CONSTANTS Procs, Locks, None

VARIABLE holder      \* Locks -> Procs \union {None}

MutexInit == holder = [l \in Locks |-> None]

Acquire(p, l) ==
    /\ holder[l] = None
    /\ holder' = [holder EXCEPT ![l] = p]

Release(p, l) ==
    /\ holder[l] = p
    /\ holder' = [holder EXCEPT ![l] = None]

Die(p) == holder' = [l \in Locks |-> IF holder[l] = p THEN None ELSE holder[l]]

MutexNext ==
    \/ \E p \in Procs, l \in Locks : Acquire(p, l) \/ Release(p, l)
    \/ \E p \in Procs : Die(p)

MutexSpec == MutexInit /\ [][MutexNext]_holder

=============================================================================
