----------------------------- MODULE VolumeLock -----------------------------
(***************************************************************************)
(* The advisory lock on a file inside a storage volume: created with       *)
(* O_EXCL, stamped by its holder and stamped again at a third of the stale *)
(* time, reaped by a waiter that finds the stamp too old, removed by       *)
(* Unlock if it still names the holder.  Every SFTP call is a step of its  *)
(* own, and the processes are on different machines: nothing else orders   *)
(* them.                                                                   *)
(*                                                                         *)
(* A file is [by, stale]: who wrote the record last, None before the first *)
(* write has landed (its mtime stands in), and whether the stale time has  *)
(* passed since.  It passes when the process that stamps it is dead, and   *)
(* for a live one whose heartbeat is late, MaxLate times.                  *)
(***************************************************************************)
EXTENDS Integers, FiniteSets

CONSTANTS Procs, Locks, None, MaxLate, MaxCrashes

(* A lock file: who wrote it last, and whether its stamp is too old. *)
LockFiles == [by : Procs \union {None}, stale : BOOLEAN]

ASSUME LockAssumption == MaxLate \in Nat /\ MaxCrashes \in Nat /\ None \notin Procs \union LockFiles

VARIABLES
    file,     \* Locks -> the lock file, None when there is none
    lock,     \* Procs -> Locks -> where the process stands with the lock
    dead,     \* processes that were killed
    late      \* heartbeats that came too late so far

lockVars == <<file, lock, dead, late>>

LockStates == {"no", "waiting", "reaping", "created", "held", "releasing"}

(* The states in which a process relies on the lock. *)
Owning == {"created", "held", "releasing"}

LockInit ==
    /\ file = [l \in Locks |-> None]
    /\ lock = [p \in Procs |-> [l \in Locks |-> "no"]]
    /\ dead = {} /\ late = 0

Goes(p, l, state) == lock' = [lock EXCEPT ![p][l] = state]

Is(p, l, states) == p \notin dead /\ lock[p][l] \in states

(* Lock begins: the directories are made, and the retries start. *)
AskLock(p, l) == Is(p, l, {"no"}) /\ Goes(p, l, "waiting") /\ UNCHANGED <<file, dead, late>>

(* Mutant: the file is opened without O_EXCL. *)
CreateShared(p, l) ==
    /\ Is(p, l, {"waiting"})
    /\ file' = [file EXCEPT ![l] = [by |-> None, stale |-> FALSE]]
    /\ Goes(p, l, "created") /\ UNCHANGED <<dead, late>>

(* OpenFile with O_CREATE and O_EXCL: exactly one create wins. *)
Create(p, l) ==
    /\ Is(p, l, {"waiting"}) /\ file[l] = None
    /\ file' = [file EXCEPT ![l] = [by |-> None, stale |-> FALSE]]
    /\ Goes(p, l, "created") /\ UNCHANGED <<dead, late>>

(* The first record lands... *)
Stamp(p, l) ==
    /\ Is(p, l, {"created"})
    /\ file' = [file EXCEPT ![l] = [by |-> p, stale |-> FALSE]]
    /\ Goes(p, l, "held") /\ UNCHANGED <<dead, late>>

(* ...or its write fails, and the file is taken back before the next try.  *)
StampFails(p, l) ==
    /\ Is(p, l, {"created"})
    /\ file' = [file EXCEPT ![l] = None]
    /\ Goes(p, l, "waiting") /\ UNCHANGED <<dead, late>>

(* Mutant: a stale lock is waited for like any other. *)
SeeStaleNever(p, l) == FALSE /\ UNCHANGED lockVars

(* A waiter whose create failed reads a stamp that is too old... *)
SeeStale(p, l) ==
    /\ Is(p, l, {"waiting"}) /\ file[l] # None /\ file[l].stale
    /\ Goes(p, l, "reaping") /\ UNCHANGED <<file, dead, late>>

(* ...and removes the file that is there by then. *)
Reap(p, l) ==
    /\ Is(p, l, {"reaping"})
    /\ file' = [file EXCEPT ![l] = None]
    /\ Goes(p, l, "waiting") /\ UNCHANGED <<dead, late>>

(* The heartbeat writes in place whatever file is there. *)
Refresh(p, l) ==
    /\ Is(p, l, {"held"}) /\ file[l] # None
    /\ file' = [file EXCEPT ![l] = [by |-> p, stale |-> FALSE]]
    /\ UNCHANGED <<lock, dead, late>>

(* Unlock stops the heartbeat and reads the owner: another's is left. *)
ReadOwner(p, l) ==
    /\ Is(p, l, {"held"})
    /\ Goes(p, l, IF file[l] # None /\ file[l].by = p THEN "releasing" ELSE "no")
    /\ UNCHANGED <<file, dead, late>>

Remove(p, l) ==
    /\ Is(p, l, {"releasing"})
    /\ file' = [file EXCEPT ![l] = None]
    /\ Goes(p, l, "no") /\ UNCHANGED <<dead, late>>

(* The stale time passes since the last stamp. *)
Ages(l) ==
    /\ file[l] # None /\ ~file[l].stale
    /\ \/ \E p \in dead : /\ lock[p][l] \in Owning /\ file[l].by \in {p, None}
                          /\ \A q \in Procs \ dead : lock[q][l] \notin Owning
          /\ UNCHANGED late
       \/ late < MaxLate /\ late' = late + 1
    /\ file' = [file EXCEPT ![l].stale = TRUE]
    /\ UNCHANGED <<lock, dead>>

Crash(p) ==
    /\ p \notin dead /\ Cardinality(dead) < MaxCrashes
    /\ dead' = dead \union {p}
    /\ UNCHANGED <<file, lock, late>>

(* What a waiter does by itself until it has the lock. *)
Acquiring(p, l) == Create(p, l) \/ Stamp(p, l) \/ SeeStale(p, l) \/ Reap(p, l)

LockNext ==
    \/ \E p \in Procs, l \in Locks :
          \/ AskLock(p, l) \/ Acquiring(p, l) \/ StampFails(p, l) \/ Refresh(p, l)
          \/ ReadOwner(p, l) \/ Remove(p, l)
    \/ \E l \in Locks : Ages(l)
    \/ \E p \in Procs : Crash(p)

LockSpec == LockInit /\ [][LockNext]_lockVars

(* The types of the variables. *)
LockTypeOK ==
    /\ file \in [Locks -> LockFiles \union {None}]
    /\ lock \in [Procs -> [Locks -> LockStates]]
    /\ dead \subseteq Procs /\ late \in 0..MaxLate

-----------------------------------------------------------------------------
(* Who has it, for the abstract lock: a process that is alive and relies   *)
(* on it.                                                                  *)
Holder(l) ==
    LET owners == {p \in Procs \ dead : lock[p][l] \in Owning}
    IN  IF owners = {} THEN None ELSE CHOOSE p \in owners : TRUE

(* Two reapers racing is benign, exactly one O_EXCL create wins            *)
(* (resource_storage_volume_lock.go:86): one live process at a time relies *)
(* on a lock, also behind a holder that was killed.                        *)
OneWins ==
    \A l \in Locks : \A p, q \in Procs : Is(p, l, Owning) /\ Is(q, l, Owning) => p = q

Abstract == INSTANCE Mutex WITH holder <- [l \in Locks |-> Holder(l)]

=============================================================================
