------------------------------- MODULE Backup -------------------------------
(***************************************************************************)
(* backup create, restore, delete and verify, run by processes that share  *)
(* nothing but the server: the source volumes, their mirrors in the backup *)
(* project with one snapshot per run, the manifests, and the locks on the  *)
(* manifest volume.  create and delete hold the metadata lock throughout;  *)
(* a volume is copied either way under a lock of its own.                  *)
(*                                                                         *)
(* The content of a volume is the number of the transaction it has seen:   *)
(* the services write one transaction to every volume, one after another,  *)
(* and finish it when they are stopped.  0 is what a failed copy leaves.   *)
(***************************************************************************)
EXTENDS VolumeLock, FiniteSetsExt

CONSTANTS
    Vols,
    Meta,            \* the metadata lock
    Jobs,            \* the commands that are run
    Times,           \* timestamps of runs
    MaxContent,
    MaxTroubles      \* crashes and calls that fail, together

Kinds == {"create", "live", "restore", "delete"}

ASSUME BackupAssumption ==
    /\ Locks = Vols \union {Meta} /\ Meta \notin Vols
    /\ IsFiniteSet(Procs) /\ Jobs \subseteq [Procs -> Kinds]

VARIABLES
    job,             \* Procs -> [kind, pc, time, rest, cut, result]
    task,            \* Procs -> Vols -> where the volume's action stands
    running,         \* the services are up
    content,         \* Vols -> what the volume holds
    mirror,          \* Vols -> what its copy holds, None before the first
    snaps,           \* Vols -> time -> content: the restore points
    manifests,       \* time -> [live, vols, beside], of those that are whole
    torn,            \* times whose manifest is there, but not all of it
    doomed,          \* runs a delete has begun on
    beside,          \* processes that had another restore or a start beside them
    faults

data == <<running, content, mirror, snaps, manifests, torn, doomed, beside>>
vars == <<lockVars, job, task, data, faults>>

(* What is kept by time, with x under t. *)
With(f, t, x) == [u \in DOMAIN f \union {t} |-> IF u = t THEN x ELSE f[u]]

NewJob(kind) == [kind |-> kind, pc |-> "begin", time |-> 0, rest |-> {},
                 cut |-> FALSE, result |-> "none"]

(* One run has been made already, and the services have written since. *)
Init ==
    /\ LockInit
    /\ job \in {[p \in Procs |-> NewJob(k[p])] : k \in Jobs}
    /\ task = [p \in Procs |-> [v \in Vols |-> "todo"]]
    /\ running \in BOOLEAN /\ content = [v \in Vols |-> 2]
    /\ mirror = [v \in Vols |-> 1] /\ snaps = [v \in Vols |-> [t \in {1} |-> 1]]
    /\ manifests = [t \in {1} |-> [live |-> FALSE, vols |-> Vols, beside |-> FALSE]]
    /\ torn = {} /\ doomed = {} /\ beside = {} /\ faults = 0

At(p, pc) == p \notin dead /\ job[p].pc = pc
Kind(p, kinds) == job[p].kind \in kinds
Creates == {"create", "live"}
To(p, pc) == job' = [job EXCEPT ![p].pc = pc]
Ends(p, result) == job' = [job EXCEPT ![p].pc = "unlock", ![p].result = result]
Fault == faults + Cardinality(dead) < MaxTroubles /\ faults' = faults + 1
Fine == UNCHANGED faults
Lasting == UNCHANGED lockVars

-----------------------------------------------------------------------------
(* The services: a transaction is written to one volume after another. *)

Write(v) ==
    /\ running /\ content[v] < MaxContent /\ content[v] = Min({content[w] : w \in Vols})
    /\ content' = [content EXCEPT ![v] = @ + 1]
    /\ UNCHANGED <<lockVars, job, task, running, mirror, snaps, manifests, torn, doomed, beside, faults>>

(* The volumes hold what one moment left, and nobody is half way through   *)
(* putting something else there.                                           *)
OneCut(held) == \A v, w \in Vols : held[v] = held[w]
Restoring(p) == \E q \in Procs \ {p} : job[q].pc = "volumes" /\ Kind(q, {"restore"})

(* The processes a start of the services, or a restore, comes in between.  *)
Disturbs(p) ==
    beside \union {q \in Procs \ {p} : job[q].pc \in {"volumes", "manifest", "writing"}}

-----------------------------------------------------------------------------
(* The metadata lock, for create and delete. *)

(* Later than every run there has been. *)
Now == 1 + Max({1} \union DOMAIN manifests \union doomed \union {job[q].time : q \in Procs})

(* create takes its timestamp before it waits for the lock. *)
Begin(p) ==
    /\ At(p, "begin") /\ Kind(p, Creates \union {"delete"})
    /\ AskLock(p, Meta)
    /\ job' = [job EXCEPT ![p].pc = "locking",
                          ![p].time = IF Kind(p, Creates) THEN Now ELSE 0]
    /\ UNCHANGED <<task, data, faults>>

Locked(p) ==
    /\ At(p, "locking") /\ lock[p][Meta] = "held" /\ Lasting /\ Fine
    /\ To(p, IF Kind(p, {"delete"}) THEN "pick"
             ELSE IF Kind(p, {"live"}) THEN "stopped" ELSE "stop")
    /\ UNCHANGED <<task, data>>

(* Mutant: a service that is not stopped in time is no error. *)
StopLoose(p) ==
    /\ At(p, "stop") /\ Lasting
    /\ Fine /\ To(p, "stopped")
    /\ UNCHANGED <<task, running, content, mirror, snaps, manifests, torn, doomed, beside>>

(* create stops the services in scope, unless it is --live. *)
StopServices(p) ==
    /\ At(p, "stop") /\ Lasting
    /\ \/ /\ Fine /\ running' = FALSE /\ To(p, "stopped")
          /\ content' = [v \in Vols |-> IF running THEN Max({content[w] : w \in Vols})
                                        ELSE content[v]]
       \/ Fault /\ Ends(p, "failed") /\ UNCHANGED <<running, content>>
    /\ UNCHANGED <<task, mirror, snaps, manifests, torn, doomed, beside>>

(* The volumes are ensured. *)
Ensured(p) ==
    /\ At(p, "stopped") /\ Lasting /\ Fine /\ To(p, "volumes")
    /\ beside' = IF Restoring(p) \/ ~OneCut(content) THEN beside \union {p} ELSE beside \ {p}
    /\ UNCHANGED <<task, running, content, mirror, snaps, manifests, torn, doomed>>

-----------------------------------------------------------------------------
(* StorageVolume.Backup and Restore, one task for each volume, in parallel.*)

TaskAt(p, v, state) == At(p, "volumes") /\ task[p][v] = state
TaskTo(p, v, state) == task' = [task EXCEPT ![p][v] = state]

LockVolume(p, v) ==
    /\ TaskAt(p, v, "todo") /\ AskLock(p, v) /\ TaskTo(p, v, "locking")
    /\ UNCHANGED <<job, data, faults>>

(* The mirror is made, or refreshed where there is one. *)
CopyToMirror(p, v) ==
    /\ TaskAt(p, v, "locking") /\ lock[p][v] = "held" /\ Kind(p, Creates) /\ Lasting
    /\ \/ Fine /\ TaskTo(p, v, "copied") /\ mirror' = [mirror EXCEPT ![v] = content[v]]
       \/ Fault /\ TaskTo(p, v, "failed") /\ mirror' = [mirror EXCEPT ![v] = 0]
    /\ UNCHANGED <<job, running, content, snaps, manifests, torn, doomed, beside>>

TakeSnapshot(p, v) ==
    /\ TaskAt(p, v, "copied") /\ Lasting
    /\ \/ /\ Fine /\ TaskTo(p, v, "done")
          /\ snaps' = [snaps EXCEPT ![v] = With(@, job[p].time, mirror[v])]
       \/ Fault /\ TaskTo(p, v, "failed") /\ UNCHANGED snaps
    /\ UNCHANGED <<job, running, content, mirror, manifests, torn, doomed, beside>>

(* Mutant: a volume without the restore point is left as it is. *)
CopyBackLoose(p, v) ==
    /\ TaskAt(p, v, "locking") /\ lock[p][v] = "held" /\ Kind(p, {"restore"}) /\ Lasting
    /\ Fine /\ TaskTo(p, v, "done") /\ beside' = Disturbs(p)
    /\ content' = [content EXCEPT ![v] = IF job[p].time \in DOMAIN snaps[v]
                                         THEN snaps[v][job[p].time] ELSE @]
    /\ UNCHANGED <<job, running, mirror, snaps, manifests, torn, doomed>>

(* The restore point must still be there; a refused copy leaves the volume *)
(* as it is, one that breaks off does not.                                 *)
CopyBack(p, v) ==
    /\ TaskAt(p, v, "locking") /\ lock[p][v] = "held" /\ Kind(p, {"restore"}) /\ Lasting
    /\ \/ /\ job[p].time \notin DOMAIN snaps[v] /\ Fine
          /\ TaskTo(p, v, "failed") /\ UNCHANGED <<content, beside>>
       \/ /\ job[p].time \in DOMAIN snaps[v] /\ Fine /\ beside' = Disturbs(p)
          /\ TaskTo(p, v, "done") /\ content' = [content EXCEPT ![v] = snaps[v][job[p].time]]
       \/ /\ job[p].time \in DOMAIN snaps[v] /\ Fault /\ beside' = Disturbs(p)
          /\ TaskTo(p, v, "failed") /\ content' = [content EXCEPT ![v] = 0]
    /\ UNCHANGED <<job, running, mirror, snaps, manifests, torn, doomed>>

UnlockVolume(p, v) ==
    /\ p \notin dead /\ task[p][v] \in {"done", "failed"}
    /\ ReadOwner(p, v) \/ Remove(p, v)
    /\ UNCHANGED <<job, task, data, faults>>

Settled(p) == \A v \in Vols : task[p][v] \in {"done", "failed"} /\ lock[p][v] = "no"

(* Mutant: the manifest is written although a volume failed. *)
VolumesLoose(p) ==
    /\ At(p, "volumes") /\ Lasting /\ Fine /\ Settled(p)
    /\ IF Kind(p, {"restore"}) THEN Ends(p, "ok") ELSE To(p, "manifest")
    /\ UNCHANGED <<task, data>>

(* One task that failed fails the command: no manifest, no restart. *)
VolumesDone(p) ==
    /\ At(p, "volumes") /\ Lasting /\ Fine /\ Settled(p)
    /\ IF \E v \in Vols : task[p][v] = "failed" THEN Ends(p, "failed")
       ELSE IF Kind(p, {"restore"}) THEN Ends(p, "ok") ELSE To(p, "manifest")
    /\ UNCHANGED <<task, data>>

(* The file <time>.json is made, empty, under its own name... *)
OpenManifest(p) ==
    /\ At(p, "manifest") /\ Lasting
    /\ \/ Fine /\ To(p, "writing") /\ torn' = torn \union {job[p].time}
       \/ Fault /\ Ends(p, "failed") /\ UNCHANGED torn
    /\ UNCHANGED <<task, running, content, mirror, snaps, manifests, doomed, beside>>

(* ...and the run is copied into it.  A copy that breaks off leaves what   *)
(* there is of it; when only the mode cannot be set, the manifest is whole *)
(* and the command fails all the same.                                     *)
CopyManifest(p) ==
    /\ At(p, "writing") /\ Lasting
    /\ \/ /\ (Fine /\ To(p, "restart")) \/ (Fault /\ Ends(p, "failed"))
          /\ torn' = torn \ {job[p].time}
          /\ manifests' = With(manifests, job[p].time,
                               [live |-> Kind(p, {"live"}), vols |-> Vols, beside |-> p \in beside])
       \/ Fault /\ Ends(p, "failed") /\ UNCHANGED <<torn, manifests>>
    /\ UNCHANGED <<task, running, content, mirror, snaps, doomed, beside>>

(* A start that fails is a warning. *)
RestartServices(p) ==
    /\ At(p, "restart") /\ Lasting /\ Ends(p, "ok")
    /\ \/ Kind(p, {"create"}) /\ Fine /\ running' = TRUE /\ beside' = Disturbs(p)
       \/ Kind(p, {"create"}) /\ Fault /\ UNCHANGED <<running, beside>>
       \/ Kind(p, {"live"}) /\ Fine /\ UNCHANGED <<running, beside>>
    /\ UNCHANGED <<task, content, mirror, snaps, manifests, torn, doomed>>

(* Everything is given back on every way out. *)
Unlocked(p) ==
    /\ At(p, "unlock") /\ UNCHANGED <<task, data, faults>>
    /\ \/ /\ lock[p][Meta] = "held" /\ ReadOwner(p, Meta) /\ UNCHANGED job
       \/ /\ lock[p][Meta] = "releasing" /\ Remove(p, Meta) /\ UNCHANGED job
       \/ /\ lock[p][Meta] = "no" /\ Lasting /\ To(p, "done")

-----------------------------------------------------------------------------
(* restore: the manifests are read, one is picked, and nothing that runs   *)
(* is restored into.  No lock is held until a volume's own.                *)

(* One manifest that is not whole fails the reading of them all. *)
ManifestsRead == torn = {}

PickRestore(p) ==
    /\ At(p, "begin") /\ Kind(p, {"restore"}) /\ Lasting /\ Fine
    /\ \/ (~ManifestsRead \/ DOMAIN manifests = {}) /\ Ends(p, "failed")
       \/ /\ ManifestsRead
          /\ \E t \in DOMAIN manifests :
                job' = [job EXCEPT
                    ![p].pc = "check", ![p].time = t, ![p].cut = ~manifests[t].live /\ ~manifests[t].beside]
    /\ UNCHANGED <<task, data>>

runningInstances == IF running THEN {"service"} ELSE {}
CheckRunning(p) ==
    /\ At(p, "check") /\ Lasting /\ Fine
    /\ IF runningInstances # {} THEN Ends(p, "refused") ELSE To(p, "volumes")
    /\ beside' = beside \ {p}
    /\ UNCHANGED <<task, running, content, mirror, snaps, manifests, torn, doomed>>

-----------------------------------------------------------------------------
(* delete: one run, or all but the newest; restore points before manifest. *)

BackupsToDelete == {{t} : t \in DOMAIN manifests}
    \union {{t \in DOMAIN manifests : Cardinality({u \in DOMAIN manifests : u > t}) >= keep} :
               keep \in 0..Cardinality(DOMAIN manifests)}

PickDelete(p) ==
    /\ At(p, "pick") /\ Lasting /\ Fine
    /\ \/ ~ManifestsRead /\ Ends(p, "failed")
       \/ /\ ManifestsRead
          /\ \E ts \in BackupsToDelete :
                job' = [job EXCEPT ![p].pc = "delete", ![p].rest = ts]
    /\ UNCHANGED <<task, data>>

(* The newest of what is left; its restore points, one after another. *)
DeleteSnapshot(p) ==
    /\ At(p, "delete") /\ job[p].rest # {} /\ Lasting
    /\ LET t == Max(job[p].rest)
       IN  \/ /\ Fine /\ doomed' = doomed \union {t} /\ UNCHANGED job
              /\ \E v \in Vols : /\ t \in DOMAIN snaps[v]
                                 /\ snaps' = [snaps EXCEPT ![v] =
                                       [u \in DOMAIN @ \ {t} |-> @[u]]]
           \/ /\ Fault /\ Ends(p, "failed") /\ UNCHANGED snaps
              /\ doomed' = doomed \union {t}
    /\ UNCHANGED <<task, running, content, mirror, manifests, torn, beside>>

DeleteManifest(p) ==
    /\ At(p, "delete") /\ job[p].rest # {} /\ Lasting /\ Fine
    /\ LET t == Max(job[p].rest)
       IN  /\ \A v \in Vols : t \notin DOMAIN snaps[v]
           /\ manifests' = [u \in DOMAIN manifests \ {t} |-> manifests[u]]
           /\ job' = [job EXCEPT ![p].rest = @ \ {t}]
    /\ UNCHANGED <<task, running, content, mirror, snaps, torn, doomed, beside>>

Deleted(p) ==
    /\ At(p, "delete") /\ job[p].rest = {} /\ Lasting /\ Fine /\ Ends(p, "ok")
    /\ UNCHANGED <<task, data>>

-----------------------------------------------------------------------------
Command(p) ==
    \/ Begin(p) \/ Locked(p) \/ StopServices(p) \/ Ensured(p)
    \/ \E v \in Vols : \/ LockVolume(p, v) \/ CopyToMirror(p, v) \/ TakeSnapshot(p, v)
                       \/ CopyBack(p, v) \/ UnlockVolume(p, v)
    \/ VolumesDone(p) \/ OpenManifest(p) \/ CopyManifest(p) \/ RestartServices(p) \/ Unlocked(p)
    \/ PickRestore(p) \/ CheckRunning(p)
    \/ PickDelete(p) \/ DeleteSnapshot(p) \/ DeleteManifest(p) \/ Deleted(p)

Beside == UNCHANGED <<job, task, data, faults>>

Waiting(p) == \E l \in Locks : Acquiring(p, l) /\ Beside

Next ==
    \/ \E p \in Procs :
          \/ Command(p) \/ Waiting(p)
          \/ Crash(p) /\ Beside /\ faults + Cardinality(dead) < MaxTroubles
          \/ \E l \in Locks :
                \/ Refresh(p, l) /\ Beside
                \/ StampFails(p, l) /\ Fault /\ UNCHANGED <<job, task, data>>
    \/ \E l \in Locks : Ages(l) /\ Beside
    \/ \E v \in Vols : Write(v)

(* A process that lives keeps going and keeps asking for its lock; time    *)
(* passes over the record of a dead one.                                   *)
Spec ==
    /\ Init /\ [][Next]_vars
    /\ \A p \in Procs : WF_vars(Command(p)) /\ WF_vars(Waiting(p))
    /\ \A l \in Locks : WF_vars(Ages(l) /\ Beside)

-----------------------------------------------------------------------------
(* The types of the variables; a run has a time of those there are. *)
TypeOK ==
    /\ LockTypeOK
    /\ \A p \in Procs : job[p].result \in {"none", "ok", "failed", "refused"}
    /\ \A p \in Procs, v \in Vols : task[p][v] \in {"todo", "locking", "copied", "done", "failed"}
    /\ content \in [Vols -> 0..MaxContent] /\ running \in BOOLEAN
    /\ DOMAIN manifests \subseteq Times /\ torn \union doomed \subseteq Times

(* backup verify: what a run's restore points look like. *)
VerifyStatus(t, v) ==
    IF DOMAIN snaps[v] = {} THEN "backup volume missing"
    ELSE IF t \notin DOMAIN snaps[v] THEN "restore point missing" ELSE "ok"

(* What is in a run's manifest can be restored: every volume it names has  *)
(* its restore point, whatever failed or was killed on the way, as long as *)
(* no delete of it has begun.  It says nothing of a manifest that is not   *)
(* whole, which keeps every run from being read: that is ListsRuns.        *)
Restorable ==
    \A t \in DOMAIN manifests \ doomed : \A v \in manifests[t].vols : VerifyStatus(t, v) = "ok"

(* What a run without --live holds is of one cut across the volumes,       *)
(* unless something was restored or started beside it.                     *)
CutKept ==
    \A t \in DOMAIN manifests \ doomed :
        ~manifests[t].live /\ ~manifests[t].beside => OneCut([v \in Vols |-> snaps[v][t]])

(* readBackupManifests returns every recorded run (backup.go:97): a        *)
(* restore or a delete that finds runs recorded reads them, except while   *)
(* one is being written.                                                   *)
ListsRuns ==
    [][\A p \in Procs :
        /\ At(p, "pick") \/ (At(p, "begin") /\ Kind(p, {"restore"}))
        /\ job'[p].result = "failed" /\ DOMAIN manifests # {}
        => \E q \in Procs : At(q, "writing")]_vars

(* A restore that says it is done has put back every volume of the run,    *)
(* and not some: when nothing else was restored or started meanwhile, the  *)
(* volumes hold one cut again, of whichever run, even if a delete took     *)
(* restore points away under it.                                           *)
RestoredWhole ==
    [][\A p \in Procs :
        /\ job[p].pc = "volumes" /\ Kind(p, {"restore"}) /\ job[p].cut
        /\ job'[p].result = "ok" /\ p \notin beside
        => OneCut(content)]_vars

(* Every lock is one process's at a time: the lock on a file is the lock   *)
(* of Mutex, through crashes and staleness, as long as a live holder's     *)
(* heartbeat is in time and one waiter at a time finds a dead one's.       *)
IsMutex == Abstract!MutexSpec

(* Every command ends: nobody waits for ever behind a process that was     *)
(* killed with a lock, or behind one that waits itself.                    *)
Finishes == \A p \in Procs : <>(job[p].pc = "done" \/ p \in dead)

=============================================================================
