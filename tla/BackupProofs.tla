---------------------------- MODULE BackupProofs ----------------------------
(***************************************************************************)
(* A run that is listed has its restore points, for every set of volumes,  *)
(* processes and commands, and whatever the locks do; that its volumes are *)
(* of one cut, and that a restore is whole, needs the locks to be a Mutex. *)
(***************************************************************************)
EXTENDS Backup, FiniteSetTheorems, WellFoundedInduction, TLAPS

-----------------------------------------------------------------------------
(* The lock on a file implements Mutex, for every set of processes and of  *)
(* locks, where a stale record cannot be found by two waiters at once:     *)
(* every live holder's heartbeat is in time, and either nobody is killed,  *)
(* or there are two processes and so one waiter behind a dead one.  With   *)
(* three processes and a crash it does not: MCVolumeLock shows it.         *)
Unraced ==
    /\ MaxLate = 0
    /\ MaxCrashes = 0 \/ \A p, q, r \in Procs : p = q \/ q = r \/ p = r

(* A live process relies on the lock; a live waiter is about to remove it. *)
Owns(p, l) == Is(p, l, Owning)
Reaps(p, l) == Is(p, l, {"reaping"})

(* What a step is safe under: no heartbeat was late, and one waiter at     *)
(* most has found the record stale.                                        *)
InTime == late = 0
OneReaper == \A l \in Locks : \A p, q \in Procs : Reaps(p, l) /\ Reaps(q, l) => p = q

(* The inductive invariant: a live owner is alone and its record is fresh, *)
(* a waiter that reaps still has the stale record before it, and a record  *)
(* goes stale only behind a process that died.                             *)
Alone(l) == \A p, q \in Procs : Owns(p, l) /\ Owns(q, l) => p = q
Fresh(l) == \A p \in Procs : Owns(p, l) => file[l] # None /\ ~file[l].stale
Found(l) == \A p \in Procs : Reaps(p, l) => file[l] # None /\ file[l].stale
Mourned(l) == file[l] # None /\ file[l].stale => dead # {}
Sound(l) == Alone(l) /\ Fresh(l) /\ Found(l) /\ Mourned(l)
LockInv == LockTypeOK /\ \A l \in Locks : Sound(l)

(* Initially there is no file and nobody asks. *)
LEMMA InitLockInv == LockInit => LockInv
<1> SUFFICES ASSUME LockInit PROVE LockInv
  OBVIOUS
<1>1. LockTypeOK
  BY LockAssumption DEF LockInit, LockTypeOK, LockStates
<1>2. ASSUME NEW l \in Locks, NEW p \in Procs PROVE ~Owns(p, l) /\ ~Reaps(p, l)
  BY DEF LockInit, Owns, Reaps, Is, Owning
<1>3. QED
  BY <1>1, <1>2 DEF LockInv, Sound, Alone, Fresh, Found, Mourned, LockInit

(* A step of one process moves it at one lock, and leaves every other pair. *)
LEMMA GoesAlone ==
    ASSUME LockTypeOK, NEW p \in Procs, NEW l \in Locks, NEW s \in LockStates, Goes(p, l, s)
    PROVE  /\ lock' \in [Procs -> [Locks -> LockStates]]
           /\ lock'[p][l] = s
           /\ \A q \in Procs, m \in Locks : q # p \/ m # l => lock'[q][m] = lock[q][m]
BY DEF LockTypeOK, Goes

(* A lock nobody moves at stays sound, though processes may die. *)
LEMMA SoundAlone ==
    ASSUME NEW l \in Locks, Sound(l), file'[l] = file[l], dead \subseteq dead',
           \A p \in Procs : lock'[p][l] = lock[p][l]
    PROVE  Sound(l)'
<1>1. ASSUME NEW p \in Procs
      PROVE  (Owns(p, l)' => Owns(p, l)) /\ (Reaps(p, l)' => Reaps(p, l))
  BY DEF Owns, Reaps, Is
<1>2. QED
  BY <1>1 DEF Sound, Alone, Fresh, Found, Mourned

(* A step of one process at one lock keeps the invariant if it keeps that  *)
(* lock sound.                                                             *)
LEMMA OneLock ==
    ASSUME LockInv, NEW p \in Procs, NEW l \in Locks, NEW s \in LockStates, Goes(p, l, s),
           NEW f \in LockFiles \union {None}, file' = [file EXCEPT ![l] = f], UNCHANGED <<dead, late>>,
           Sound(l)'
    PROVE  LockInv'
<1>1. LockTypeOK'
  BY GoesAlone DEF LockInv, LockTypeOK
<1>2. ASSUME NEW m \in Locks, m # l PROVE Sound(m)'
  <2>1. file'[m] = file[m] /\ \A q \in Procs : lock'[q][m] = lock[q][m]
    BY <1>2, GoesAlone DEF LockInv, LockTypeOK
  <2>2. QED
    BY <2>1, SoundAlone DEF LockInv
<1>3. QED
  BY <1>1, <1>2 DEF LockInv

(* Who owns and who reaps the lock after a step of p at it. *)
LEMMA Column ==
    ASSUME LockTypeOK, NEW p \in Procs, NEW l \in Locks, NEW s \in LockStates, Goes(p, l, s),
           dead' = dead
    PROVE  /\ Owns(p, l)' <=> p \notin dead /\ s \in Owning
           /\ Reaps(p, l)' <=> p \notin dead /\ s = "reaping"
           /\ \A q \in Procs : q # p => (Owns(q, l)' <=> Owns(q, l)) /\ (Reaps(q, l)' <=> Reaps(q, l))
BY GoesAlone DEF Owns, Reaps, Is

(* Every step keeps it, while the heartbeats are in time and at most one   *)
(* waiter reaps.                                                           *)
LEMMA NextLockInv ==
    ASSUME LockInv, InTime, InTime', OneReaper, [LockNext]_lockVars
    PROVE  LockInv'
<1>1. /\ file \in [Locks -> LockFiles \union {None}]
      /\ lock \in [Procs -> [Locks -> LockStates]] /\ LockTypeOK
      /\ None \notin Procs \union LockFiles /\ dead \subseteq Procs
      /\ LockStates = {"no", "waiting", "reaping", "created", "held", "releasing"}
  BY LockAssumption DEF LockInv, LockTypeOK, LockStates
<1>2. ASSUME NEW p \in Procs \union {None}
      PROVE  [by |-> p, stale |-> FALSE] \in LockFiles /\ [by |-> p, stale |-> FALSE] # None
  <2>1. [by |-> p, stale |-> FALSE] \in LockFiles
    BY DEF LockFiles
  <2>2. QED
    BY <1>1, <2>1
(* A process that owns after the step owned before it, unless the lock was *)
(* free; and the file is left, written by an owner, or freed.              *)
<1>3. ASSUME NEW p \in Procs, NEW l \in Locks, NEW s \in LockStates, Goes(p, l, s),
             UNCHANGED <<file, dead, late>>,
             s \in Owning => Owns(p, l),
             s = "reaping" => file[l] # None /\ file[l].stale
      PROVE  LockInv'
  <2>1. Sound(l)'
    BY <1>1, <1>3, Column DEF LockInv, Sound, Alone, Fresh, Found, Mourned
  <2>2. file' = [file EXCEPT ![l] = file[l]] /\ file[l] \in LockFiles \union {None}
    BY <1>1, <1>3
  <2>3. QED
    BY <1>3, <2>1, <2>2, OneLock
<1>4. ASSUME NEW p \in Procs, NEW l \in Locks, NEW s \in Owning, Goes(p, l, s),
             NEW q \in Procs \union {None}, UNCHANGED <<dead, late>>,
             file' = [file EXCEPT ![l] = [by |-> q, stale |-> FALSE]],
             p \notin dead, file[l] = None \/ Owns(p, l)
      PROVE  LockInv'
  <2>1. file'[l] = [by |-> q, stale |-> FALSE] /\ ~file'[l].stale /\ s \in LockStates
    BY <1>1, <1>4 DEF Owning
  <2>2. s # "reaping"
    BY DEF Owning
  <2>3. \A r \in Procs : r # p => ~Owns(r, l) /\ ~Reaps(r, l)
    BY <1>4 DEF LockInv, Sound, Alone, Fresh, Found
  <2>4. Sound(l)'
    BY <1>1, <1>2, <1>4, <2>1, <2>2, <2>3, Column DEF Sound, Alone, Fresh, Found, Mourned
  <2>5. QED
    BY <1>2, <1>4, <2>1, <2>4, OneLock
<1>5. ASSUME NEW p \in Procs, NEW l \in Locks, NEW s \in {"no", "waiting"}, Goes(p, l, s),
             UNCHANGED <<dead, late>>, file' = [file EXCEPT ![l] = None],
             Owns(p, l) \/ Reaps(p, l)
      PROVE  LockInv'
  <2>1. \A r \in Procs : r # p => ~Owns(r, l) /\ ~Reaps(r, l)
    BY <1>5 DEF LockInv, Sound, Alone, Fresh, Found, OneReaper
  <2>2. s \in LockStates /\ s \notin Owning /\ s # "reaping" /\ file'[l] = None
    BY <1>1, <1>5 DEF Owning
  <2>3. Sound(l)'
    BY <1>1, <1>5, <2>1, <2>2, Column DEF Sound, Alone, Fresh, Found, Mourned
  <2>4. QED
    BY <1>5, <2>2, <2>3, OneLock
<1>6. CASE UNCHANGED lockVars
  BY <1>6, SoundAlone DEF lockVars, LockInv, LockTypeOK
<1>7. ASSUME NEW p \in Procs, NEW l \in Locks,
             \/ AskLock(p, l) \/ Acquiring(p, l) \/ StampFails(p, l) \/ Refresh(p, l)
             \/ ReadOwner(p, l) \/ Remove(p, l)
      PROVE  LockInv'
  <2>1. CASE AskLock(p, l)
    BY <1>1, <1>3, <2>1 DEF AskLock, Owning
  <2>2. CASE Create(p, l)
    BY <1>4, <2>2 DEF Create, Owning, Is
  <2>3. CASE Stamp(p, l)
    BY <1>4, <2>3 DEF Stamp, Owning, Is, Owns
  <2>4. CASE SeeStale(p, l)
    BY <1>1, <1>3, <2>4 DEF SeeStale, Owning
  <2>5. CASE Reap(p, l)
    BY <1>5, <2>5 DEF Reap, Reaps
  <2>6. CASE StampFails(p, l)
    BY <1>5, <2>6 DEF StampFails, Is, Owns, Owning
  <2>7. CASE Refresh(p, l)
    <3>1. Goes(p, l, "held")
      BY <1>1, <2>7 DEF Refresh, Is, Goes
    <3>2. QED
      BY <1>4, <2>7, <3>1 DEF Refresh, Is, Owns, Owning
  <2>8. CASE ReadOwner(p, l)
    BY <1>1, <1>3, <2>8 DEF ReadOwner, Is, Owns, Owning
  <2>9. CASE Remove(p, l)
    BY <1>5, <2>9 DEF Remove, Is, Owns, Owning
  <2>10. QED
    BY <1>7, <2>1, <2>2, <2>3, <2>4, <2>5, <2>6, <2>7, <2>8, <2>9 DEF Acquiring
<1>8. ASSUME NEW l \in Locks, Ages(l) PROVE LockInv'
  <2>1. \A p \in Procs : ~Owns(p, l)
    BY <1>8 DEF Ages, InTime, Owns, Is
  <2>2. dead # {}
    BY <1>8 DEF Ages, InTime
  <2>3. /\ file' = [file EXCEPT ![l].stale = TRUE] /\ file[l] \in LockFiles
        /\ UNCHANGED <<lock, dead, late>>
    BY <1>1, <1>8 DEF Ages, InTime
  <2>4. file'[l] \in LockFiles /\ file'[l].stale /\ file'[l] # None
    BY <1>1, <2>3 DEF LockFiles
  <2>5. Sound(l)'
    BY <2>1, <2>2, <2>3, <2>4 DEF Sound, Alone, Fresh, Found, Mourned, Owns, Reaps, Is
  <2>6. ASSUME NEW m \in Locks, m # l PROVE Sound(m)'
    <3>1. file'[m] = file[m]
      BY <1>1, <2>3, <2>6
    <3>2. QED
      BY <2>3, <3>1, SoundAlone DEF LockInv
  <2>7. LockTypeOK'
    BY <1>1, <2>3, <2>4 DEF LockTypeOK
  <2>8. QED
    BY <2>5, <2>6, <2>7 DEF LockInv
<1>9. ASSUME NEW p \in Procs, Crash(p) PROVE LockInv'
  BY <1>1, <1>9, SoundAlone DEF Crash, LockInv, LockTypeOK
<1>10. QED
  BY <1>6, <1>7, <1>8, <1>9 DEF LockNext

-----------------------------------------------------------------------------
(* The abstract lock: the live owner has it, if there is one. *)
Held == \A l \in Locks :
    /\ \A p \in Procs : Owns(p, l) => Holder(l) = p
    /\ (\A p \in Procs : ~Owns(p, l)) => Holder(l) = None

(* The choice that Holder makes is the owner's, who is alone. *)
LEMMA HolderAlone == LockInv => Held
<1> SUFFICES ASSUME LockInv, NEW l \in Locks
             PROVE  /\ \A p \in Procs : Owns(p, l) => Holder(l) = p
                    /\ (\A p \in Procs : ~Owns(p, l)) => Holder(l) = None
  BY DEF Held
<1> DEFINE owners == {p \in Procs \ dead : lock[p][l] \in Owning}
<1>1. \A p \in Procs : p \in owners <=> Owns(p, l)
  BY DEF Owns, Is
<1>2. Holder(l) = IF owners = {} THEN None ELSE CHOOSE p \in owners : TRUE
  BY DEF Holder
<1>3. ASSUME NEW p \in Procs, Owns(p, l) PROVE Holder(l) = p
  <2>1. owners = {p}
    BY <1>1, <1>3 DEF LockInv, Sound, Alone
  <2> HIDE DEF owners
  <2>2. QED
    BY <1>2, <2>1
<1>4. ASSUME \A p \in Procs : ~Owns(p, l) PROVE Holder(l) = None
  BY <1>1, <1>2, <1>4
<1>5. QED
  BY <1>3, <1>4

(* Every step is a step of the abstract lock or leaves it alone. *)
LEMMA NextMutex ==
    ASSUME LockInv, LockInv', Held, Held', [LockNext]_lockVars
    PROVE  [Abstract!MutexNext]_([l \in Locks |-> Holder(l)])
<1> DEFINE h == [l \in Locks |-> Holder(l)]
<1>1. /\ \A l \in Locks : h[l] = Holder(l) /\ h'[l] = Holder(l)'
      /\ DOMAIN h = Locks /\ DOMAIN h' = Locks
      /\ h = [l \in Locks |-> h[l]] /\ h' = [l \in Locks |-> h'[l]]
  OBVIOUS
<1> HIDE DEF h
<1>2. ASSUME NEW l \in Locks, \A p \in Procs : Owns(p, l)' <=> Owns(p, l)
      PROVE  h'[l] = h[l]
  BY <1>1, <1>2 DEF Held
<1>3. ASSUME \A l \in Locks, p \in Procs : Owns(p, l)' <=> Owns(p, l)
      PROVE  h' = h
  BY <1>1, <1>2, <1>3
<1>4. ASSUME NEW p \in Procs, NEW l \in Locks, NEW s \in LockStates, Goes(p, l, s),
             dead' = dead, (p \notin dead /\ s \in Owning) <=> Owns(p, l)
      PROVE  h' = h
  <2>1. \A m \in Locks, q \in Procs : Owns(q, m)' <=> Owns(q, m)
    BY <1>4, GoesAlone, Column DEF LockInv, Owns, Is
  <2>2. QED
    BY <1>3, <2>1
<1>5. ASSUME NEW p \in Procs, NEW l \in Locks, NEW s \in LockStates, Goes(p, l, s),
             dead' = dead
      PROVE  /\ \A m \in Locks : m # l => h'[m] = h[m]
             /\ \A q \in Procs : q # p => (Owns(q, l)' <=> Owns(q, l))
             /\ Owns(p, l)' <=> p \notin dead /\ s \in Owning
  <2>1. ASSUME NEW m \in Locks, m # l PROVE h'[m] = h[m]
    <3>1. \A q \in Procs : Owns(q, m)' <=> Owns(q, m)
      BY <1>5, <2>1, GoesAlone DEF LockInv, Owns, Is
    <3>2. QED
      BY <1>2, <3>1
  <2>2. QED
    BY <1>5, <2>1, Column DEF LockInv
<1>6. ASSUME NEW p \in Procs, NEW l \in Locks, Create(p, l)
      PROVE  Abstract!Acquire(p, l)
  <2>1. Goes(p, l, "created") /\ "created" \in LockStates /\ "created" \in Owning
        /\ dead' = dead /\ p \notin dead /\ file[l] = None
    BY <1>6 DEF Create, LockStates, Owning, Is
  <2>2. Owns(p, l)' /\ \A m \in Locks : m # l => h'[m] = h[m]
    BY <1>5, <2>1
  <2>3. \A q \in Procs : ~Owns(q, l)
    BY <2>1 DEF LockInv, Sound, Fresh
  <2>4. h[l] = None /\ h'[l] = p
    BY <1>1, <2>2, <2>3 DEF Held
  <2>5. h' = [h EXCEPT ![l] = p]
    BY <1>1, <2>2, <2>4
  <2>6. QED
    BY <2>4, <2>5 DEF Abstract!Acquire, h
<1>7. ASSUME NEW p \in Procs, NEW l \in Locks, NEW s \in LockStates \ Owning, Goes(p, l, s),
             dead' = dead, Owns(p, l)
      PROVE  Abstract!Release(p, l)
  <2>1. ~Owns(p, l)' /\ \A m \in Locks : m # l => h'[m] = h[m]
    BY <1>5, <1>7
  <2>2. \A q \in Procs : ~Owns(q, l)'
    <3>1. \A q \in Procs : q # p => ~Owns(q, l)
      BY <1>7 DEF LockInv, Sound, Alone
    <3>2. QED
      BY <1>5, <1>7, <2>1, <3>1
  <2>3. h[l] = p /\ h'[l] = None
    BY <1>1, <1>7, <2>2 DEF Held
  <2>4. h' = [h EXCEPT ![l] = None]
    BY <1>1, <2>1, <2>3
  <2>5. QED
    BY <2>3, <2>4 DEF Abstract!Release, h
<1>8. ASSUME NEW p \in Procs, Crash(p)
      PROVE  Abstract!Die(p)
  <2>1. \A l \in Locks, q \in Procs : Owns(q, l)' <=> Owns(q, l) /\ q # p
    BY <1>8 DEF Crash, Owns, Is
  <2>2. ASSUME NEW l \in Locks
        PROVE  h'[l] = IF h[l] = p THEN None ELSE h[l]
    <3>1. CASE \E q \in Procs : Owns(q, l)
      <4>1. PICK q \in Procs : Owns(q, l)
        BY <3>1
      <4>2. h[l] = q /\ \A r \in Procs : r # q => ~Owns(r, l)
        BY <1>1, <4>1 DEF Held, LockInv, Sound, Alone
      <4>3. QED
        BY <1>1, <2>1, <4>1, <4>2 DEF Held
    <3>2. CASE \A q \in Procs : ~Owns(q, l)
      BY <1>1, <2>1, <3>2 DEF Held
    <3>3. QED
      BY <3>1, <3>2
  <2>3. h' = [l \in Locks |-> IF h[l] = p THEN None ELSE h[l]]
    BY <1>1, <2>2
  <2>4. QED
    BY <2>3 DEF Abstract!Die, h
<1>9. CASE UNCHANGED lockVars
  BY <1>3, <1>9 DEF lockVars, Owns, Is, h
<1>10. ASSUME NEW l \in Locks, Ages(l)
       PROVE  h' = h
  BY <1>3, <1>10 DEF Ages, Owns, Is
<1>11. ASSUME NEW p \in Procs, NEW l \in Locks,
              \/ AskLock(p, l) \/ Acquiring(p, l) \/ StampFails(p, l) \/ Refresh(p, l)
              \/ ReadOwner(p, l) \/ Remove(p, l)
       PROVE  h' = h \/ Abstract!Acquire(p, l) \/ Abstract!Release(p, l)
  <2> USE DEF LockStates, Owning, Owns, Is
  <2>1. CASE AskLock(p, l)
    BY <1>4, <2>1 DEF AskLock
  <2>2. CASE Create(p, l)
    BY <1>6, <2>2
  <2>3. CASE Stamp(p, l)
    BY <1>4, <2>3 DEF Stamp
  <2>4. CASE SeeStale(p, l)
    BY <1>4, <2>4 DEF SeeStale
  <2>5. CASE Reap(p, l)
    BY <1>4, <2>5 DEF Reap
  <2>6. CASE StampFails(p, l)
    BY <1>7, <2>6 DEF StampFails
  <2>7. CASE Refresh(p, l)
    BY <1>3, <2>7 DEF Refresh
  <2>8. CASE ReadOwner(p, l)
    BY <1>4, <1>7, <2>8 DEF ReadOwner
  <2>9. CASE Remove(p, l)
    BY <1>7, <2>9 DEF Remove
  <2>10. QED
    BY <1>11, <2>1, <2>2, <2>3, <2>4, <2>5, <2>6, <2>7, <2>8, <2>9 DEF Acquiring
<1>12. QED
  BY <1>8, <1>9, <1>3, <1>10, <1>11 DEF LockNext, Abstract!MutexNext, h

(* Nobody owns a lock to begin with. *)
LEMMA InitMutex == LockInit => Abstract!MutexInit
<1> SUFFICES ASSUME LockInit PROVE Abstract!MutexInit
  OBVIOUS
<1>1. \A l \in Locks, p \in Procs : ~Owns(p, l)
  BY DEF LockInit, Owns, Is, Owning
<1>2. \A l \in Locks : Holder(l) = None
  BY <1>1, InitLockInv, HolderAlone DEF Held
<1>3. QED
  BY <1>2 DEF Abstract!MutexInit

(* Nobody dies where nobody is killed. *)
Spares == MaxCrashes = 0 => dead = {}

(* Then no heartbeat is late and one waiter reaps: for two of them to find *)
(* a record stale, a third process must have died.                         *)
LEMMA OneFinds ==
    ASSUME Unraced, LockInv, Spares
    PROVE  InTime /\ OneReaper
<1>1. InTime
  BY DEF Unraced, LockInv, LockTypeOK, InTime
<1>2. ASSUME NEW l \in Locks, NEW p \in Procs, NEW q \in Procs, Reaps(p, l), Reaps(q, l)
      PROVE  p = q
  <2>1. dead # {} /\ dead \subseteq Procs
    BY <1>2 DEF LockInv, LockTypeOK, Sound, Found, Mourned
  <2>2. QED
    BY <1>2, <2>1 DEF Unraced, Spares, Reaps, Is
<1>3. QED
  BY <1>1, <1>2 DEF OneReaper

(* Every step keeps the locks sound. *)
LEMMA UnracedNext ==
    ASSUME Unraced, LockInv, Spares, [LockNext]_lockVars
    PROVE  LockInv' /\ Spares'
<1>1. InTime /\ OneReaper
  BY OneFinds
<1>2. late' = late
  <2>1. ASSUME NEW l \in Locks, Ages(l) PROVE late' = late
    BY <1>1, <2>1 DEF Ages, InTime, Unraced
  <2>2. QED
    BY <2>1 DEF LockNext, lockVars, AskLock, Acquiring, Create, Stamp, SeeStale, Reap,
                StampFails, Refresh, ReadOwner, Remove, Crash
<1>3. Spares'
  <2>1. ASSUME NEW p \in Procs, Crash(p) PROVE dead # {} \/ MaxCrashes # 0
    BY <2>1, FS_EmptySet DEF Crash
  <2>2. dead' = dead \/ \E p \in Procs : Crash(p)
    BY DEF LockNext, lockVars, AskLock, Acquiring, Create, Stamp, SeeStale, Reap,
           StampFails, Refresh, ReadOwner, Remove, Ages
  <2>3. QED
    BY <2>1, <2>2 DEF Spares
<1>4. QED
  BY <1>1, <1>2, <1>3, NextLockInv DEF InTime

LEMMA InitSpares == LockInit => Spares
BY DEF LockInit, Spares

(* Where no two waiters can find the same dead holder's record, the locks  *)
(* are a Mutex: whatever fails or races, the abstract lock is taken only   *)
(* when it is free and given up only by its holder, or by its death.       *)
THEOREM LocksExclude ==
    ASSUME Unraced
    PROVE  LockSpec => Abstract!MutexSpec
<1>1. LockInv => Held
  BY HolderAlone
<1>2. LockInv /\ Spares /\ [LockNext]_lockVars => LockInv' /\ Spares'
  BY UnracedNext
<1>3. LockInv /\ LockInv' /\ Held /\ Held' /\ [LockNext]_lockVars
         => [Abstract!MutexNext]_([l \in Locks |-> Holder(l)])
  BY NextMutex
<1>4. QED
  BY InitLockInv, InitSpares, InitMutex, <1>1, <1>2, <1>3, PTL DEF LockSpec, Abstract!MutexSpec

-----------------------------------------------------------------------------

PCs == {"begin", "locking", "stop", "stopped", "volumes", "manifest", "writing", "restart",
        "unlock", "check", "pick", "delete", "done"}
TaskStates == {"todo", "locking", "copied", "done", "failed"}

Jobbing == [kind : Kinds, pc : PCs, time : Nat, rest : SUBSET Nat, cut : BOOLEAN,
            result : {"none", "ok", "failed", "refused"}]

FiniteTimes(S) == S \subseteq Nat /\ IsFiniteSet(S)

(* The types. *)
Typed ==
    /\ job \in [Procs -> Jobbing]
    /\ task \in [Procs -> [Vols -> TaskStates]]
    /\ running \in BOOLEAN
    /\ content = [v \in Vols |-> content[v]]
    /\ mirror = [v \in Vols |-> mirror[v]]
    /\ snaps = [v \in Vols |-> snaps[v]]
    /\ FiniteTimes(DOMAIN manifests) /\ FiniteTimes(doomed)

(* A live process of these kinds, at one of these places. *)
In(p, kinds, pcs) == p \notin dead /\ Kind(p, kinds) /\ job[p].pc \in pcs

(* Who does what: a command is only where its kind goes, ... *)
InPlace(p) ==
    /\ job[p].pc \in {"stopped", "manifest", "writing", "restart"} => Kind(p, Creates)
    /\ job[p].pc = "locking" => Kind(p, Creates \union {"delete"})
    /\ job[p].pc = "stop" => Kind(p, {"create"})
    /\ job[p].pc = "volumes" => Kind(p, Creates \union {"restore"})
    /\ job[p].pc = "check" => Kind(p, {"restore"})
    /\ job[p].pc \in {"pick", "delete"} => Kind(p, {"delete"})

(* ...and one that writes or removes runs has the metadata lock. *)
Critical(p) ==
    \/ In(p, Creates, {"stop", "stopped", "volumes", "manifest", "writing", "restart"})
    \/ In(p, {"delete"}, {"pick", "delete"})
Guarded(p) == Critical(p) => lock[p][Meta] = "held"

(* The tasks of a command begin with its volumes, and end before its       *)
(* manifest; the time of a run in the making is no other's.                *)
Tasked(p) ==
    /\ job[p].pc \in {"begin", "locking", "stop", "stopped", "check"} => \A v \in Vols : task[p][v] = "todo"
    /\ \A v \in Vols : task[p][v] = "copied" => Kind(p, Creates)
    /\ In(p, Creates, {"manifest", "writing"}) => \A v \in Vols : task[p][v] = "done"

Making == {"locking", "stop", "stopped", "volumes", "manifest", "writing"}
OwnTime(p) == Kind(p, Creates) /\ job[p].pc # "begin" =>
    /\ \A q \in Procs \ {p} : Kind(q, Creates) /\ job[q].pc # "begin" => job[q].time # job[p].time
    /\ job[p].pc \in Making => job[p].time \notin DOMAIN manifests \union doomed

(* What is being deleted is listed. *)
Deleting(p) == In(p, {"delete"}, {"delete"}) => FiniteTimes(job[p].rest) /\ job[p].rest \subseteq DOMAIN manifests

(* The services are down from the moment they are stopped, and what the    *)
(* volumes hold stays one cut, as long as nothing comes in between.        *)
Quiet(p) == In(p, {"create"}, {"volumes", "manifest", "writing"}) /\ p \notin beside
Stopped(p) ==
    /\ In(p, {"create"}, {"stopped"}) \/ Quiet(p) => ~running
    /\ Quiet(p) => OneCut(content)

(* What a task has copied. *)
Copied(p) ==
    \A v \in Vols :
        /\ In(p, Creates, {"volumes", "manifest", "writing"}) /\ task[p][v] = "done"
              => job[p].time \in DOMAIN snaps[v]
        /\ Quiet(p) /\ task[p][v] = "copied" => mirror[v] = content[v]
        /\ Quiet(p) /\ task[p][v] = "done" => snaps[v][job[p].time] = content[v]

Works(p) ==
    /\ InPlace(p) /\ Guarded(p) /\ Tasked(p) /\ OwnTime(p) /\ Deleting(p) /\ Stopped(p) /\ Copied(p)

(* A listed run, unless a delete has begun on it. *)
Listed(t) ==
    /\ manifests[t].vols = Vols
    /\ \A v \in Vols : t \in DOMAIN snaps[v]
    /\ ~manifests[t].live /\ ~manifests[t].beside => OneCut([v \in Vols |-> snaps[v][t]])

IInv ==
    /\ LockInv
    /\ Typed
    /\ \A p \in Procs : Works(p)
    /\ \A t \in DOMAIN manifests \ doomed : Listed(t)

-----------------------------------------------------------------------------
(* A finite set of numbers that is not empty has a greatest member, which  *)
(* is what Max chooses: a set without one would have a smallest subset     *)
(* without one.                                                            *)
LEMMA MaxIs ==
    ASSUME NEW S, S \subseteq Int, IsFiniteSet(S), S # {}
    PROVE  Max(S) \in S /\ \A x \in S : x <= Max(S)
<1> DEFINE Greatest(T, x) == x \in T /\ \A y \in T : x >= y
           Without == {T \in FiniteSubsetsOf(Int) : T # {} /\ \A x \in T : ~Greatest(T, x)}
<1>1. Without = {}
  <2>1. SUFFICES ASSUME Without # {} PROVE FALSE
    OBVIOUS
  <2>2. PICK T \in Without : \A U \in Without : <<U, T>> \notin StrictSubsetOrdering(Int)
    <3>1. IsWellFoundedOn(StrictSubsetOrdering(Int), FiniteSubsetsOf(Int))
      BY FS_StrictSubsetOrderingWellFounded
    <3>2. Without \subseteq FiniteSubsetsOf(Int)
      OBVIOUS
    <3> HIDE DEF Without
    <3>3. QED
      BY <2>1, <3>1, <3>2, WFMin
  <2>3. T \subseteq Int /\ IsFiniteSet(T) /\ T # {} /\ \A x \in T : ~Greatest(T, x)
    BY DEF FiniteSubsetsOf
  <2>4. PICK x : x \in T
    BY <2>3
  <2> DEFINE U == T \ {x}
  <2>5. U \subseteq Int /\ IsFiniteSet(U) /\ <<U, T>> \in StrictSubsetOrdering(Int)
    BY <2>3, <2>4, FS_RemoveElement DEF StrictSubsetOrdering
  <2>6. U = {} \/ \E y \in U : Greatest(U, y)
    BY <2>2, <2>5 DEF FiniteSubsetsOf
  <2>7. CASE U = {}
    BY <2>3, <2>4, <2>7
  <2>8. CASE \E y \in U : Greatest(U, y)
    <3>1. PICK y \in U : \A z \in U : y >= z
      BY <2>8
    <3>2. Greatest(T, IF x >= y THEN x ELSE y)
      BY <2>3, <2>4, <3>1
    <3>3. QED
      BY <2>3, <3>2
  <2>9. QED
    BY <2>6, <2>7, <2>8
<1>2. S \in FiniteSubsetsOf(Int)
  BY DEF FiniteSubsetsOf
<1>3. PICK m \in S : \A y \in S : m >= y
  BY <1>1, <1>2
<1>4. Max(S) \in S /\ \A y \in S : Max(S) >= y
  BY <1>3 DEF Max
<1>5. QED
  BY <1>4

-----------------------------------------------------------------------------
(* The commands take and give back their locks by the protocol: every step *)
(* is one of the locks' or leaves them alone.                              *)
LEMMA NextLocks == [Next]_vars => [LockNext]_lockVars
<1> SUFFICES ASSUME [Next]_vars PROVE [LockNext]_lockVars
  OBVIOUS
<1>1. Vols \subseteq Locks /\ Meta \in Locks
  BY BackupAssumption
<1>2. CASE UNCHANGED vars
  BY <1>2 DEF vars
<1>3. CASE \E v \in Vols : Write(v)
  BY <1>3 DEF Write
<1>4. CASE \E l \in Locks : Ages(l) /\ Beside
  BY <1>4 DEF LockNext
<1>5. ASSUME NEW p \in Procs, Command(p)
      PROVE  [LockNext]_lockVars
  <2>1. CASE \E v \in Vols : LockVolume(p, v) \/ UnlockVolume(p, v)
    BY <1>1, <2>1 DEF LockVolume, UnlockVolume, LockNext
  <2>2. CASE Begin(p) \/ Unlocked(p)
    BY <1>1, <2>2 DEF Begin, Unlocked, LockNext, Lasting
  <2>3. CASE \E v \in Vols : CopyToMirror(p, v) \/ TakeSnapshot(p, v) \/ CopyBack(p, v)
    BY <2>3 DEF CopyToMirror, TakeSnapshot, CopyBack, Lasting
  <2>4. CASE \/ Locked(p) \/ StopServices(p) \/ Ensured(p) \/ VolumesDone(p)
             \/ OpenManifest(p) \/ CopyManifest(p) \/ RestartServices(p) \/ PickRestore(p) \/ CheckRunning(p)
             \/ PickDelete(p) \/ DeleteSnapshot(p) \/ DeleteManifest(p) \/ Deleted(p)
    <3>1. UNCHANGED lockVars
      BY <2>4 DEF Locked, StopServices, Ensured, VolumesDone, OpenManifest, CopyManifest, RestartServices,
                  PickRestore, CheckRunning, PickDelete, DeleteSnapshot, DeleteManifest,
                  Deleted, Lasting
    <3>2. QED
      BY <3>1
  <2>5. QED
    BY <1>5, <2>1, <2>2, <2>3, <2>4 DEF Command
<1>6. ASSUME NEW p \in Procs,
             \/ Waiting(p) \/ Crash(p)
             \/ \E l \in Locks : Refresh(p, l) \/ StampFails(p, l)
      PROVE  [LockNext]_lockVars
  BY <1>6 DEF Waiting, LockNext
<1>7. QED
  BY <1>2, <1>3, <1>4, <1>5, <1>6 DEF Next

(* What one process takes to be its own lock nobody else relies on: the    *)
(* locks of the backup commands are those of Mutex, where no two waiters   *)
(* can find the same dead holder's record.                                 *)
THEOREM LocksAreMutex ==
    ASSUME Unraced
    PROVE  Spec => IsMutex
<1>1. Init => LockInit
  BY DEF Init
<1>2. QED
  BY <1>1, NextLocks, LocksExclude, PTL DEF Spec, LockSpec, IsMutex

-----------------------------------------------------------------------------
(* Where a command goes, and what it keeps on the way. *)
Moved(p, pc) ==
    /\ job' \in [Procs -> Jobbing]
    /\ \A q \in Procs \ {p} : job'[q] = job[q]
    /\ job'[p].kind = job[p].kind /\ job'[p].pc = pc

Keeps(p, pc) == Moved(p, pc) /\ job'[p].time = job[p].time /\ job'[p].rest = job[p].rest

(* A command that is sent elsewhere, or to its end, keeps its time and its *)
(* rest.                                                                   *)
LEMMA Moves ==
    ASSUME Typed, NEW p \in Procs, NEW pc \in PCs
    PROVE  /\ To(p, pc) => Keeps(p, pc)
           /\ \A result \in {"ok", "failed", "refused"} : Ends(p, result) => Keeps(p, "unlock")
<1>1. job \in [Procs -> Jobbing] /\ job[p] \in Jobbing
  BY DEF Typed
<1>2. ASSUME NEW r, r \in Jobbing, job' = [job EXCEPT ![p] = r],
             r.kind = job[p].kind, r.time = job[p].time, r.rest = job[p].rest
      PROVE  Keeps(p, r.pc)
  BY <1>1, <1>2 DEF Keeps, Moved
<1>3. ASSUME To(p, pc) PROVE Keeps(p, pc)
  <2> DEFINE r == [job[p] EXCEPT !.pc = pc]
  <2>1. r \in Jobbing /\ r.kind = job[p].kind /\ r.time = job[p].time /\ r.rest = job[p].rest /\ r.pc = pc
    BY <1>1 DEF Jobbing
  <2>2. job' = [job EXCEPT ![p] = r]
    BY <1>1, <1>3 DEF To
  <2> HIDE DEF r
  <2>3. QED
    BY <1>2, <2>1, <2>2
<1>4. ASSUME NEW result \in {"ok", "failed", "refused"}, Ends(p, result) PROVE Keeps(p, "unlock")
  <2> DEFINE r == [job[p] EXCEPT !.pc = "unlock", !.result = result]
  <2>1. r \in Jobbing /\ r.kind = job[p].kind /\ r.time = job[p].time /\ r.rest = job[p].rest /\ r.pc = "unlock"
    BY <1>1 DEF Jobbing, PCs
  <2>2. job' = [job EXCEPT ![p] = r]
    BY <1>1, <1>4 DEF Ends
  <2> HIDE DEF r
  <2>3. QED
    BY <1>2, <2>1, <2>2
<1>5. QED
  BY <1>3, <1>4

(* Only the command whose step it is moves. *)
LEMMA OnlyOne ==
    ASSUME Typed, NEW p \in Procs, Command(p), NEW q \in Procs, q # p
    PROVE  job'[q] = job[q] /\ task'[q] = task[q]
<1>1. job \in [Procs -> Jobbing] /\ task \in [Procs -> [Vols -> TaskStates]]
  BY DEF Typed
<1>2. task'[q] = task[q]
  BY <1>1 DEF Command, Begin, Locked, StopServices, Ensured, LockVolume, CopyToMirror, TakeSnapshot,
     CopyBack, UnlockVolume, VolumesDone, OpenManifest, CopyManifest, RestartServices, Unlocked, PickRestore,
     CheckRunning, PickDelete, DeleteSnapshot, DeleteManifest, Deleted, TaskTo
<1>3. job'[q] = job[q]
  BY <1>1 DEF Command, Begin, Locked, StopServices, Ensured, LockVolume, CopyToMirror, TakeSnapshot,
     CopyBack, UnlockVolume, VolumesDone, OpenManifest, CopyManifest, RestartServices, Unlocked, PickRestore,
     CheckRunning, PickDelete, DeleteSnapshot, DeleteManifest, Deleted, To, Ends
<1>4. QED
  BY <1>2, <1>3

(* A command keeps its kind; one that makes a run begins, with a new time, *)
(* or goes on with the time it has, and never back to the making.          *)
LEMMA Makes ==
    ASSUME Typed, NEW p \in Procs, InPlace(p), Command(p)
    PROVE  /\ job'[p].kind = job[p].kind
           /\ Kind(p, Creates) =>
                 \/ Begin(p) /\ job'[p].time = Now /\ job'[p].pc = "locking"
                 \/ /\ job'[p].time = job[p].time
                    /\ job[p].pc = "begin" <=> job'[p].pc = "begin"
                    /\ job'[p].pc \in Making => job[p].pc \in Making
<1> DEFINE Goes_on == /\ job'[p].time = job[p].time
                      /\ job[p].pc = "begin" <=> job'[p].pc = "begin"
                      /\ job'[p].pc \in Making => job[p].pc \in Making
<1>1. job \in [Procs -> Jobbing] /\ job[p] \in Jobbing
  BY DEF Typed
<1>2. ASSUME NEW pc \in PCs, Keeps(p, pc), job[p].pc # "begin", pc # "begin",
             Kind(p, Creates) /\ pc \in Making => job[p].pc \in Making
      PROVE  job'[p].kind = job[p].kind /\ (Kind(p, Creates) => Goes_on)
  BY <1>2 DEF Keeps, Moved
<1>3. ASSUME UNCHANGED job
      PROVE  job'[p].kind = job[p].kind /\ Goes_on
  BY <1>3
<1>4. CASE Begin(p)
  BY <1>1, <1>4 DEF Begin, Jobbing
<1>5. CASE \E v \in Vols : LockVolume(p, v) \/ CopyToMirror(p, v) \/ TakeSnapshot(p, v)
                           \/ CopyBack(p, v) \/ UnlockVolume(p, v)
  BY <1>3, <1>5 DEF LockVolume, CopyToMirror, TakeSnapshot, CopyBack, UnlockVolume
<1>6. CASE PickRestore(p) \/ PickDelete(p) \/ DeleteManifest(p)
  <2>1. ~Kind(p, Creates)
    BY <1>1, <1>6 DEF PickRestore, PickDelete, DeleteManifest, InPlace, Kind, Creates, At
  <2>2. job'[p].kind = job[p].kind
    <3>1. CASE PickRestore(p)
      <4>1. CASE Ends(p, "failed")
        BY <4>1, Moves DEF PCs, Keeps, Moved
      <4>2. CASE ~Ends(p, "failed")
        <5>1. PICK t, cut : job' = [job EXCEPT ![p].pc = "check", ![p].time = t, ![p].cut = cut]
          BY <3>1, <4>2 DEF PickRestore
        <5>2. QED
          BY <1>1, <5>1 DEF Jobbing
      <4>3. QED
        BY <4>1, <4>2
    <3>2. CASE PickDelete(p)
      <4>1. CASE Ends(p, "failed")
        BY <4>1, Moves DEF PCs, Keeps, Moved
      <4>2. CASE \E ts : job' = [job EXCEPT ![p].pc = "delete", ![p].rest = ts]
        BY <1>1, <4>2 DEF Jobbing
      <4>3. QED
        BY <3>2, <4>1, <4>2 DEF PickDelete
    <3>3. CASE DeleteManifest(p)
      BY <1>1, <3>3 DEF DeleteManifest, Jobbing
    <3>4. QED
      BY <1>6, <3>1, <3>2, <3>3
  <2>3. QED
    BY <2>1, <2>2
<1>7. CASE Locked(p) \/ StopServices(p) \/ Ensured(p) \/ VolumesDone(p) \/ OpenManifest(p) \/ CopyManifest(p)
  <2>1. \E pc \in PCs \ {"begin"} : Keeps(p, pc)
    BY <1>7, Moves DEF Locked, StopServices, Ensured, VolumesDone, OpenManifest, CopyManifest, PCs
  <2>2. job[p].pc \in Making /\ job[p].pc # "begin"
    BY <1>7 DEF Locked, StopServices, Ensured, VolumesDone, OpenManifest, CopyManifest, At, Making
  <2>3. QED
    BY <1>2, <2>1, <2>2
<1>8. CASE RestartServices(p) \/ Deleted(p) \/ Unlocked(p) \/ CheckRunning(p) \/ DeleteSnapshot(p)
  <2>1. UNCHANGED job \/ \E pc \in PCs : Keeps(p, pc) /\ pc \in {"unlock", "done", "volumes"}
                                           /\ (pc = "volumes" => ~Kind(p, Creates))
    BY <1>1, <1>8, Moves DEF RestartServices, Deleted, Unlocked, CheckRunning, DeleteSnapshot, PCs,
       InPlace, At, Kind, Creates
  <2>2. job[p].pc # "begin"
    BY <1>8 DEF RestartServices, Deleted, Unlocked, CheckRunning, DeleteSnapshot, At
  <2>3. QED
    BY <1>2, <1>3, <2>1, <2>2 DEF Making
<1>9. QED
  BY <1>4, <1>5, <1>6, <1>7, <1>8 DEF Command

(* A new time is later than every run's and every command's. *)
LEMMA NowIsLater ==
    ASSUME Typed
    PROVE  /\ Now \in Nat /\ Now # 1
           /\ \A t \in DOMAIN manifests \union doomed : t # Now
           /\ \A q \in Procs : job[q].time # Now
<1> DEFINE times == {1} \union DOMAIN manifests \union doomed \union {job[q].time : q \in Procs}
<1>1. times \subseteq Nat /\ times # {}
  BY DEF Typed, FiniteTimes, Jobbing
<1>2. IsFiniteSet({job[q].time : q \in Procs})
  <2> DEFINE f == [q \in Procs |-> job[q].time]
             R == {job[q].time : q \in Procs}
  <2>1. f \in Surjection(Procs, R)
    BY DEF Surjection
  <2>2. QED
    BY <2>1, BackupAssumption, FS_Surjection
<1>3. IsFiniteSet(times)
  <2>1. IsFiniteSet({1}) /\ IsFiniteSet(DOMAIN manifests) /\ IsFiniteSet(doomed)
    BY FS_Singleton DEF Typed, FiniteTimes
  <2>2. QED
    BY <1>2, <2>1, FS_Union
<1>4. Now = 1 + Max(times) /\ \A q \in Procs : job[q].time \in times
  BY DEF Now
<1>5. DOMAIN manifests \union doomed \subseteq times /\ times \subseteq Int /\ 1 \in times
  BY <1>1
<1> HIDE DEF times
<1>6. Max(times) \in times /\ \A t \in times : t <= Max(times)
  BY <1>1, <1>3, <1>5, MaxIs
<1>7. Max(times) \in Nat
  BY <1>1, <1>6
<1>8. \A t \in times : t \in Nat /\ t # 1 + Max(times)
  BY <1>1, <1>6, <1>7
<1>9. QED
  BY <1>4, <1>5, <1>7, <1>8

-----------------------------------------------------------------------------
(* Initially no command has begun, and one run is listed, which is whole. *)
LEMMA InitIInv == Init => IInv
<1> SUFFICES ASSUME Init PROVE IInv
  OBVIOUS
<1>1. LockInv
  BY InitLockInv DEF Init
<1>2. PICK k \in Jobs : job = [p \in Procs |-> NewJob(k[p])]
  BY DEF Init
<1>3. \A p \in Procs : k[p] \in Kinds
  BY BackupAssumption
<1>4. \A p \in Procs : job[p] \in Jobbing /\ job[p].pc = "begin"
  BY <1>2, <1>3 DEF NewJob, Jobbing, PCs
<1>5. DOMAIN manifests = {1} /\ doomed = {} /\ manifests[1] = [live |-> FALSE, vols |-> Vols, beside |-> FALSE]
  BY DEF Init
<1>6. /\ \A v \in Vols : 1 \in DOMAIN snaps[v] /\ snaps[v][1] = 1
      /\ snaps = [v \in Vols |-> snaps[v]]
  BY DEF Init
<1>7. Typed
  <2>1. FiniteTimes({1}) /\ FiniteTimes({})
    <3>1. IsFiniteSet({}) /\ IsFiniteSet({1})
      BY FS_Singleton, FS_EmptySet
    <3>2. QED
      BY <3>1 DEF FiniteTimes
  <2>2. /\ job \in [Procs -> Jobbing] /\ task \in [Procs -> [Vols -> TaskStates]]
        /\ running \in BOOLEAN
    BY <1>2, <1>4 DEF Init, TaskStates
  <2>3. content = [v \in Vols |-> content[v]] /\ mirror = [v \in Vols |-> mirror[v]]
    BY DEF Init
  <2>4. QED
    BY <1>5, <1>6, <2>1, <2>2, <2>3 DEF Typed
<1>8. ASSUME NEW p \in Procs PROVE Works(p)
  <2>1. job[p].pc = "begin" /\ \A v \in Vols : task[p][v] = "todo"
    BY <1>4 DEF Init
  <2>2. QED
    BY <2>1 DEF Works, InPlace, Guarded, Critical, In, Tasked, OwnTime, Deleting, Stopped,
                Quiet, Copied
<1>9. Listed(1)
  BY <1>5, <1>6 DEF Listed, OneCut
<1>10. QED
  BY <1>1, <1>5, <1>7, <1>8, <1>9 DEF IInv

(* The metadata lock is one command's at a time. *)
LEMMA OneCritical ==
    ASSUME IInv, NEW p \in Procs, NEW q \in Procs, Critical(p), Critical(q)
    PROVE  p = q
<1>1. p \notin dead /\ q \notin dead /\ lock[p][Meta] = "held" /\ lock[q][Meta] = "held"
  BY DEF IInv, Works, Guarded, Critical, In
<1>2. QED
  BY <1>1, BackupAssumption DEF IInv, LockInv, Sound, Alone, Owns, Is, Owning

(* What a step of another process, or of the world, leaves to p: its own   *)
(* state and the metadata lock, and what it is in the middle of.           *)
Spared(p) ==
    /\ job'[p] = job[p] /\ task'[p] = task[p] /\ (p \in dead => p \in dead')
    /\ Critical(p) /\ lock[p][Meta] = "held" => lock'[p][Meta] = "held"
    /\ In(p, {"create"}, {"stopped"}) => ~running'
    /\ Quiet(p)' => Quiet(p) /\ ~running' /\ content' = content
    /\ In(p, Creates, {"volumes"}) => mirror' = mirror
    /\ In(p, Creates, {"volumes", "manifest", "writing"}) =>
          \A v \in Vols : job[p].time \in DOMAIN snaps[v] =>
              job[p].time \in DOMAIN snaps'[v] /\ snaps'[v][job[p].time] = snaps[v][job[p].time]
    /\ In(p, {"delete"}, {"delete"}) => DOMAIN manifests \subseteq DOMAIN manifests'

(* What has been spared still stands as it did. *)
LEMMA SparedWorks ==
    ASSUME NEW p \in Procs, Works(p), Spared(p), OwnTime(p)'
    PROVE  Works(p)'
<1>2. Critical(p)' => Critical(p)
  BY DEF Spared, Critical, In, Kind
<1>3. InPlace(p)' /\ Guarded(p)'
  BY <1>2 DEF Works, Spared, InPlace, Guarded, Kind
<1>4. Tasked(p)'
  BY DEF Works, Spared, Tasked, In, Kind
<1>5. Deleting(p)'
  BY DEF Works, Spared, Deleting, In, Kind
<1>6. Stopped(p)'
  BY DEF Works, Spared, Stopped, In, Kind
<1>7. Copied(p)'
  <2>1. Quiet(p) => In(p, Creates, {"volumes", "manifest", "writing"})
    BY DEF Quiet, In, Kind, Creates
  <2>2. ASSUME NEW v \in Vols, Quiet(p), task[p][v] = "copied"
        PROVE  In(p, Creates, {"volumes"})
    BY <2>1, <2>2 DEF Works, Tasked, In
  <2>3. In(p, Creates, {"volumes", "manifest", "writing"})' => In(p, Creates, {"volumes", "manifest", "writing"})
    BY DEF Spared, In, Kind
  <2>4. QED
    BY <2>1, <2>2, <2>3 DEF Works, Spared, Copied
<1>8. QED
  BY <1>3, <1>4, <1>5, <1>6, <1>7 DEF Works

(* A step that leaves what p is working on alone, but for a p that counts  *)
(* as disturbed, spares it.                                                *)
LEMMA SparedMost ==
    ASSUME IInv, NEW p \in Procs, NEW q \in Procs, q # p,
           job'[q] = job[q], task'[q] = task[q], dead \subseteq dead', lock'[q][Meta] = lock[q][Meta],
           UNCHANGED <<running, content, mirror, snaps, manifests>>, beside \ {p} \subseteq beside'
    PROVE  Spared(q)
<1>1. Quiet(q)' => Quiet(q)
  BY DEF Quiet, In, Kind
<1>2. Quiet(q) => ~running /\ In(q, {"create"}, {"volumes", "manifest", "writing"})
  BY DEF IInv, Works, Stopped, Quiet
<1>3. In(q, {"create"}, {"stopped"}) => ~running
  BY DEF IInv, Works, Stopped
<1>4. QED
  BY <1>1, <1>2, <1>3 DEF Spared

(* The times of runs stay their own while no command begins, no run is     *)
(* listed and none that is not listed is deleted.                          *)
LEMMA TimesKept ==
    ASSUME IInv,
           \A q \in Procs :
              /\ job'[q].kind = job[q].kind
              /\ Kind(q, Creates) =>
                    /\ job'[q].time = job[q].time
                    /\ job[q].pc = "begin" => job'[q].pc = "begin"
                    /\ job'[q].pc = "begin" => job[q].pc = "begin"
                    /\ job'[q].pc \in Making => job[q].pc \in Making,
           DOMAIN manifests' \union doomed' \subseteq DOMAIN manifests \union doomed
    PROVE  \A p \in Procs : OwnTime(p)'
BY DEF IInv, Works, OwnTime, Kind

(* A step of one command keeps the invariant, if it does its own part and  *)
(* spares the others.                                                      *)
LEMMA OneCommand ==
    ASSUME IInv, LockInv', Typed', NEW p \in Procs,
           \A q \in Procs \ {p} : Spared(q),
           \A q \in Procs : OwnTime(q)',
           (InPlace(p) /\ Guarded(p) /\ Tasked(p) /\ Deleting(p) /\ Stopped(p) /\ Copied(p))',
           (\A t \in DOMAIN manifests \ doomed : Listed(t))'
    PROVE  IInv'
<1>1. ASSUME NEW q \in Procs PROVE Works(q)'
  <2>1. CASE q = p
    BY <2>1 DEF Works
  <2>2. CASE q # p
    BY <2>2, SparedWorks DEF IInv
  <2>3. QED
    BY <2>1, <2>2
<1>2. QED
  BY <1>1 DEF IInv

(* A step of the locks alone keeps it, if whoever is in a critical section *)
(* keeps the metadata lock.                                                *)
LEMMA LocksAlone ==
    ASSUME IInv, LockInv', UNCHANGED <<job, task, data>>, dead \subseteq dead',
           \A p \in Procs : Critical(p) /\ lock[p][Meta] = "held" => lock'[p][Meta] = "held"
    PROVE  IInv'
<1>1. Typed'
  BY DEF IInv, Typed, data
<1>2. ASSUME NEW p \in Procs PROVE Works(p)'
  <2>1. OwnTime(p)'
    BY TimesKept DEF data
  <2>2. Quiet(p)' => Quiet(p)
    BY DEF Quiet, In, Kind, data
  <2>3. Spared(p)
    BY <2>2 DEF IInv, Works, Stopped, Spared, data
  <2>4. QED
    BY <2>1, <2>3, SparedWorks DEF IInv
<1>3. QED
  BY <1>1, <1>2 DEF IInv, Listed, data

(* A waiter, a heartbeat, time, a crash: no metadata lock is given up. *)
LEMMA LockStepsIInv ==
    ASSUME IInv, LockInv',
           \/ \E p \in Procs, l \in Locks : Acquiring(p, l) \/ Refresh(p, l) \/ StampFails(p, l)
           \/ \E l \in Locks : Ages(l)
           \/ \E p \in Procs : Crash(p),
           UNCHANGED <<job, task, data>>
    PROVE  IInv'
<1>1. lock \in [Procs -> [Locks -> LockStates]] /\ Meta \in Locks
  BY BackupAssumption DEF IInv, LockInv, LockTypeOK
<1>2. ASSUME NEW p \in Procs, NEW l \in Locks, NEW s, lock[p][l] # "held", Goes(p, l, s)
      PROVE  \A q \in Procs : lock[q][Meta] = "held" => lock'[q][Meta] = "held"
  BY <1>1, <1>2 DEF Goes
<1>3. ASSUME NEW p \in Procs, NEW l \in Locks,
             Acquiring(p, l) \/ Refresh(p, l) \/ StampFails(p, l)
      PROVE  dead' = dead /\ \A q \in Procs : lock[q][Meta] = "held" => lock'[q][Meta] = "held"
  BY <1>2, <1>3 DEF Acquiring, Create, Stamp, SeeStale, Reap, Refresh, StampFails, Is
<1>4. dead \subseteq dead'
  BY <1>3 DEF Ages, Crash
<1>5. \A q \in Procs : lock[q][Meta] = "held" => lock'[q][Meta] = "held"
  BY <1>3 DEF Ages, Crash
<1>6. QED
  BY <1>4, <1>5, LocksAlone

-----------------------------------------------------------------------------
(* A command that ends, unlocks or is done has nothing left to keep. *)
LEMMA EndedKeeps ==
    ASSUME IInv, NEW p \in Procs, job'[p].pc \in {"unlock", "done"},
           job'[p].kind = job[p].kind, task'[p] = task[p]
    PROVE  (InPlace(p) /\ Guarded(p) /\ Tasked(p) /\ Deleting(p) /\ Stopped(p) /\ Copied(p))'
BY DEF IInv, Works, InPlace, Guarded, Critical, Tasked, Deleting, Stopped, Quiet, Copied, In, Kind

(* A step of a command that changes no more than its own state keeps the   *)
(* invariant if it keeps the command's part of it.                         *)
LEMMA Calm ==
    ASSUME IInv, LockInv', NEW p \in Procs, NEW pc, Moved(p, pc),
           Kind(p, Creates) => /\ job'[p].time = job[p].time
                               /\ (pc = "begin") = (job[p].pc = "begin")
                               /\ pc \in Making => job[p].pc \in Making,
           task' \in [Procs -> [Vols -> TaskStates]], \A q \in Procs \ {p} : task'[q] = task[q],
           dead' = dead, \A q \in Procs \ {p} : lock'[q][Meta] = lock[q][Meta],
           UNCHANGED <<running, content, mirror, snaps, manifests, doomed>>,
           beside \ {p} \subseteq beside',
           (InPlace(p) /\ Guarded(p) /\ Tasked(p) /\ Deleting(p) /\ Stopped(p) /\ Copied(p))'
    PROVE  IInv'
<1>1. Typed'
  BY DEF IInv, Typed, Moved
<1>2. ASSUME NEW q \in Procs \ {p} PROVE Spared(q)
  BY <1>2, SparedMost DEF Moved
<1>3. \A q \in Procs : OwnTime(q)'
  <2>1. ASSUME NEW q \in Procs
        PROVE  /\ job'[q].kind = job[q].kind
               /\ Kind(q, Creates) =>
                     /\ job'[q].time = job[q].time
                     /\ job[q].pc = "begin" => job'[q].pc = "begin"
                     /\ job'[q].pc = "begin" => job[q].pc = "begin"
                     /\ job'[q].pc \in Making => job[q].pc \in Making
    BY DEF Moved
  <2>2. QED
    BY <2>1, TimesKept
<1>4. (\A t \in DOMAIN manifests \ doomed : Listed(t))'
  BY DEF IInv, Listed
<1>5. QED
  BY <1>1, <1>2, <1>3, <1>4, OneCommand

(* The lock is taken, the volumes are ensured, the last of them is done,   *)
(* the command is over.                                                    *)
LEMMA LockedIInv ==
    ASSUME IInv, LockInv', NEW p \in Procs, Locked(p)
    PROVE  IInv'
<1>1. PICK pc \in {"pick", "stopped", "stop"} :
         /\ To(p, pc)
         /\ pc = "pick" <=> Kind(p, {"delete"})
         /\ pc = "stopped" <=> Kind(p, {"live"})
  BY DEF Locked, Kind
<1>2. Keeps(p, pc)
  BY <1>1, Moves DEF IInv, PCs
<1>3. /\ UNCHANGED <<task, data, lockVars>> /\ p \notin dead /\ job[p].pc = "locking"
      /\ lock[p][Meta] = "held"
  BY DEF Locked, Lasting, At
<1>4. Kind(p, Creates \union {"delete"})
  BY <1>3 DEF IInv, Works, InPlace
<1>5. InPlace(p)'
  BY <1>1, <1>2, <1>4 DEF Keeps, Moved, InPlace, Kind, Creates
<1>6. (Guarded(p) /\ Tasked(p) /\ Deleting(p) /\ Stopped(p) /\ Copied(p))'
  BY <1>1, <1>2, <1>3 DEF IInv, Works, Guarded, Tasked, Deleting, Stopped, Quiet, Copied, Keeps,
     Moved, In, Kind, data, lockVars, Creates
<1>7. QED
  BY <1>1, <1>2, <1>3, <1>5, <1>6, Calm DEF Keeps, Making, IInv, Typed, data, lockVars

(* A create that has its volumes ready goes on to copy them. *)
LEMMA EnsuredIInv ==
    ASSUME IInv, LockInv', NEW p \in Procs, Ensured(p)
    PROVE  IInv'
<1>1. Keeps(p, "volumes")
  BY Moves DEF Ensured, IInv, PCs
<1>2. /\ UNCHANGED <<task, running, content, mirror, snaps, manifests, doomed, lockVars>>
      /\ p \notin dead /\ job[p].pc = "stopped"
      /\ p \notin beside' => OneCut(content)
      /\ beside \ {p} \subseteq beside'
  BY DEF Ensured, Lasting, At
<1>3. /\ Kind(p, Creates) /\ lock[p][Meta] = "held" /\ \A v \in Vols : task[p][v] = "todo"
      /\ Kind(p, {"create"}) => ~running
  BY <1>2 DEF IInv, Works, InPlace, Guarded, Critical, Tasked, Stopped, In
<1>4. (InPlace(p) /\ Guarded(p) /\ Tasked(p) /\ Deleting(p))'
  BY <1>1, <1>2, <1>3 DEF InPlace, Guarded, Tasked, Deleting, Keeps, Moved, In, Kind, lockVars, Creates
<1>5. (Stopped(p) /\ Copied(p))'
  BY <1>1, <1>2, <1>3 DEF Stopped, Quiet, Copied, OneCut, Keeps, Moved, In, Kind
<1>6. QED
  BY <1>1, <1>2, <1>4, <1>5, Calm DEF Keeps, Making, IInv, Typed, lockVars

(* When every volume's task is over the command ends, or writes its        *)
(* manifest.                                                               *)
LEMMA VolumesDoneIInv ==
    ASSUME IInv, LockInv', NEW p \in Procs, VolumesDone(p)
    PROVE  IInv'
<1>1. /\ UNCHANGED <<task, data, lockVars>> /\ p \notin dead /\ job[p].pc = "volumes" /\ Settled(p)
  BY DEF VolumesDone, Lasting, At
<1>2. ASSUME Keeps(p, "unlock") PROVE IInv'
  <2>1. (InPlace(p) /\ Guarded(p) /\ Tasked(p) /\ Deleting(p) /\ Stopped(p) /\ Copied(p))'
    BY <1>1, <1>2, EndedKeeps DEF Keeps, Moved
  <2>2. QED
    BY <1>1, <1>2, <2>1, Calm DEF Keeps, Making, IInv, Typed, data, lockVars
<1>3. ASSUME Keeps(p, "manifest"), ~Kind(p, {"restore"}), \A v \in Vols : task[p][v] # "failed"
      PROVE  IInv'
  <2>1. Kind(p, Creates) /\ lock[p][Meta] = "held" /\ \A v \in Vols : task[p][v] = "done"
    BY <1>1, <1>3 DEF IInv, Works, InPlace, Guarded, Critical, In, Settled, Kind
  <2>2. (InPlace(p) /\ Guarded(p) /\ Tasked(p) /\ Deleting(p))'
    BY <1>1, <1>3, <2>1 DEF InPlace, Guarded, Tasked, Deleting, Keeps, Moved, In, Kind, lockVars, Creates
  <2>3. (Stopped(p) /\ Copied(p))'
    BY <1>1, <1>3, <2>1 DEF IInv, Works, Stopped, Quiet, Copied, Keeps, Moved, In, Kind, data, lockVars
  <2>4. QED
    BY <1>1, <1>3, <2>2, <2>3, Calm DEF Keeps, Making, IInv, Typed, data, lockVars
<1>4. QED
  BY <1>2, <1>3, Moves DEF VolumesDone, IInv, PCs

(* A delete that has nothing more to delete ends. *)
LEMMA DeletedIInv ==
    ASSUME IInv, LockInv', NEW p \in Procs, Deleted(p)
    PROVE  IInv'
<1>1. Keeps(p, "unlock")
  BY Moves DEF Deleted, IInv, PCs
<1>2. UNCHANGED <<task, data, lockVars>> /\ job[p].pc = "delete"
  BY DEF Deleted, Lasting, At
<1>3. (InPlace(p) /\ Guarded(p) /\ Tasked(p) /\ Deleting(p) /\ Stopped(p) /\ Copied(p))'
  BY <1>1, <1>2, EndedKeeps DEF Keeps, Moved
<1>4. QED
  BY <1>1, <1>2, <1>3, Calm DEF Keeps, Making, IInv, Typed, data, lockVars

(* A restore picks its run, and looks whether anything runs. *)
LEMMA PickRestoreIInv ==
    ASSUME IInv, LockInv', NEW p \in Procs, PickRestore(p)
    PROVE  IInv'
<1>1. /\ UNCHANGED <<task, data, lockVars>> /\ p \notin dead /\ job[p].pc = "begin"
      /\ Kind(p, {"restore"})
  BY DEF PickRestore, Lasting, At
<1>2. CASE Ends(p, "failed")
  <2>1. Keeps(p, "unlock")
    BY <1>2, Moves DEF IInv, PCs
  <2>2. (InPlace(p) /\ Guarded(p) /\ Tasked(p) /\ Deleting(p) /\ Stopped(p) /\ Copied(p))'
    BY <1>1, <2>1, EndedKeeps DEF Keeps, Moved
  <2>3. QED
    BY <1>1, <2>1, <2>2, Calm DEF Keeps, Making, IInv, Typed, Kind, Creates, data, lockVars
<1>3. ASSUME NEW t \in DOMAIN manifests, NEW cut \in BOOLEAN,
             job' = [job EXCEPT ![p].pc = "check", ![p].time = t, ![p].cut = cut]
      PROVE  IInv'
  <2> DEFINE r == [job[p] EXCEPT !.pc = "check", !.time = t, !.cut = cut]
  <2>1. job \in [Procs -> Jobbing] /\ job[p] \in Jobbing /\ t \in Nat
    BY DEF IInv, Typed, FiniteTimes
  <2>2. r \in Jobbing /\ r.pc = "check" /\ r.kind = job[p].kind
    BY <2>1 DEF Jobbing, PCs
  <2>3. job' = [job EXCEPT ![p] = r]
    BY <1>3, <2>1
  <2> HIDE DEF r
  <2>4. Moved(p, "check")
    BY <2>1, <2>2, <2>3 DEF Moved
  <2>5. (InPlace(p) /\ Guarded(p) /\ Tasked(p) /\ Deleting(p) /\ Stopped(p) /\ Copied(p))'
    BY <1>1, <2>4 DEF IInv, Works, InPlace, Guarded, Critical, Tasked, Deleting, Stopped, Quiet,
       Copied, Moved, In, Kind
  <2>6. QED
    BY <1>1, <2>4, <2>5, Calm DEF IInv, Typed, Kind, Creates, data, lockVars
<1>4. QED
  <2>1. CASE Ends(p, "failed")
    BY <1>2, <2>1
  <2>2. CASE ~Ends(p, "failed")
    <3>1. PICK t \in DOMAIN manifests :
             job' = [job EXCEPT ![p].pc = "check", ![p].time = t,
                                ![p].cut = ~manifests[t].live /\ ~manifests[t].beside]
      BY <2>2 DEF PickRestore
    <3> DEFINE cut == ~manifests[t].live /\ ~manifests[t].beside
    <3>2. cut \in BOOLEAN
      OBVIOUS
    <3> HIDE DEF cut
    <3>3. job' = [job EXCEPT ![p].pc = "check", ![p].time = t, ![p].cut = cut]
      BY <3>1 DEF cut
    <3>4. QED
      BY <1>3, <3>2, <3>3
  <2>3. QED
    BY <2>1, <2>2

(* A restore that has looked whether anything runs goes on, or refuses. *)
LEMMA CheckRunningIInv ==
    ASSUME IInv, LockInv', NEW p \in Procs, CheckRunning(p)
    PROVE  IInv'
<1>1. Keeps(p, "unlock") \/ Keeps(p, "volumes")
  BY Moves DEF CheckRunning, IInv, PCs
<1>2. /\ UNCHANGED <<task, running, content, mirror, snaps, manifests, doomed, lockVars>>
      /\ p \notin dead /\ job[p].pc = "check" /\ beside' = beside \ {p}
  BY DEF CheckRunning, Lasting, At
<1>3. Kind(p, {"restore"})
  BY <1>2 DEF IInv, Works, InPlace
<1>4. (InPlace(p) /\ Guarded(p) /\ Tasked(p) /\ Deleting(p) /\ Stopped(p) /\ Copied(p))'
  BY <1>1, <1>2, <1>3 DEF IInv, Works, InPlace, Guarded, Critical, Tasked, Deleting, Stopped, Quiet,
     Copied, Keeps, Moved, In, Kind, Creates
<1>5. PICK pc \in {"unlock", "volumes"} : Moved(p, pc)
  BY <1>1 DEF Keeps
<1>6. QED
  BY <1>2, <1>3, <1>4, <1>5, Calm DEF IInv, Typed, Kind, Creates, lockVars

(* A delete takes some of the runs that are listed. *)
LEMMA PickDeleteIInv ==
    ASSUME IInv, LockInv', NEW p \in Procs, PickDelete(p)
    PROVE  IInv'
<1>1. /\ UNCHANGED <<task, data, lockVars>> /\ p \notin dead /\ job[p].pc = "pick"
      /\ FiniteTimes(DOMAIN manifests) /\ job \in [Procs -> Jobbing]
  BY DEF PickDelete, Lasting, At, IInv, Typed
<1>2. Kind(p, {"delete"}) /\ lock[p][Meta] = "held"
  BY <1>1 DEF IInv, Works, InPlace, Guarded, Critical, In
<1>3. CASE Ends(p, "failed")
  <2>1. Keeps(p, "unlock")
    BY <1>3, Moves DEF IInv, PCs
  <2>2. (InPlace(p) /\ Guarded(p) /\ Tasked(p) /\ Deleting(p) /\ Stopped(p) /\ Copied(p))'
    BY <1>1, <2>1, EndedKeeps DEF Keeps, Moved
  <2>3. QED
    BY <1>1, <2>1, <2>2, Calm DEF Keeps, Making, IInv, Typed, data, lockVars
<1>4. ASSUME NEW ts \in BackupsToDelete, job' = [job EXCEPT ![p].pc = "delete", ![p].rest = ts]
      PROVE  IInv'
  <2>1. ts \subseteq DOMAIN manifests
    BY DEF BackupsToDelete
  <2>2. FiniteTimes(ts)
    BY <1>1, <2>1, FS_Subset DEF FiniteTimes
  <2> DEFINE r == [job[p] EXCEPT !.pc = "delete", !.rest = ts]
  <2>3. r \in Jobbing /\ r.pc = "delete" /\ r.kind = job[p].kind /\ r.rest = ts /\ r.time = job[p].time
    BY <1>1, <2>2 DEF Jobbing, PCs, FiniteTimes
  <2>4. job' = [job EXCEPT ![p] = r]
    BY <1>1, <1>4
  <2> HIDE DEF r
  <2>5. Moved(p, "delete") /\ job'[p].rest = ts /\ job'[p].time = job[p].time
    BY <1>1, <2>3, <2>4 DEF Moved
  <2>6. (InPlace(p) /\ Guarded(p) /\ Tasked(p) /\ Deleting(p) /\ Stopped(p) /\ Copied(p))'
    BY <1>1, <1>2, <2>1, <2>2, <2>5 DEF IInv, Works, InPlace, Guarded, Critical, Tasked, Deleting,
       Stopped, Quiet, Copied, Moved, In, Kind, Creates, data, lockVars
  <2>7. QED
    BY <1>1, <1>2, <2>5, <2>6, Calm DEF IInv, Typed, Kind, Creates, data, lockVars
<1>5. QED
  BY <1>3, <1>4 DEF PickDelete

(* A task asks for the lock of its volume. *)
LEMMA LockVolumeIInv ==
    ASSUME IInv, LockInv', NEW p \in Procs, NEW v \in Vols, LockVolume(p, v)
    PROVE  IInv'
<1>1. /\ UNCHANGED <<job, data>> /\ dead' = dead /\ job[p].pc = "volumes"
      /\ task' = [task EXCEPT ![p][v] = "locking"] /\ task[p][v] = "todo"
      /\ Goes(p, v, "waiting")
  BY DEF LockVolume, TaskAt, TaskTo, At, AskLock
<1>2. /\ task \in [Procs -> [Vols -> TaskStates]] /\ lock \in [Procs -> [Locks -> LockStates]]
      /\ v # Meta /\ v \in Locks /\ Meta \in Locks /\ job \in [Procs -> Jobbing]
  BY BackupAssumption DEF IInv, Typed, LockInv, LockTypeOK
<1>3. \A q \in Procs : lock'[q][Meta] = lock[q][Meta]
  BY <1>1, <1>2 DEF Goes
<1>4. /\ task' \in [Procs -> [Vols -> TaskStates]] /\ \A q \in Procs \ {p} : task'[q] = task[q]
      /\ task'[p][v] = "locking" /\ \A w \in Vols : w # v => task'[p][w] = task[p][w]
  BY <1>1, <1>2 DEF TaskStates
<1>5. Moved(p, "volumes") /\ job' = job
  BY <1>1, <1>2 DEF Moved
<1>6. (InPlace(p) /\ Guarded(p) /\ Tasked(p) /\ Deleting(p) /\ Stopped(p))'
  BY <1>1, <1>3, <1>4, <1>5 DEF IInv, Works, InPlace, Guarded, Critical, Tasked, Deleting, Stopped,
     Quiet, In, Kind, data
<1>7. Copied(p)'
  BY <1>1, <1>4, <1>5 DEF IInv, Works, Copied, Quiet, In, Kind, data
<1>8. QED
  BY <1>1, <1>3, <1>4, <1>5, <1>6, <1>7, Calm DEF data

(* A volume's lock, and the metadata lock at the end, are given back. *)
LEMMA UnlocksIInv ==
    ASSUME IInv, LockInv', NEW p \in Procs,
           Unlocked(p) \/ \E v \in Vols : UnlockVolume(p, v)
    PROVE  IInv'
<1>1. /\ lock \in [Procs -> [Locks -> LockStates]] /\ Meta \in Locks
      /\ \A v \in Vols : v # Meta /\ v \in Locks
  BY BackupAssumption DEF IInv, LockInv, LockTypeOK
<1>2. ASSUME NEW l \in Locks, ReadOwner(p, l) \/ Remove(p, l),
             l = Meta => ~Critical(p), UNCHANGED <<job, task, data>>
      PROVE  IInv'
  <2>1. PICK s : Goes(p, l, s)
    BY <1>2 DEF ReadOwner, Remove
  <2>2. dead' = dead
    BY <1>2 DEF ReadOwner, Remove
  <2>3. \A q \in Procs : q # p \/ Meta # l => lock'[q][Meta] = lock[q][Meta]
    BY <1>1, <2>1 DEF Goes
  <2>4. QED
    BY <1>2, <2>2, <2>3, LocksAlone
<1>3. ASSUME NEW v \in Vols, UnlockVolume(p, v) PROVE IInv'
  BY <1>1, <1>2, <1>3 DEF UnlockVolume
<1>4. CASE Unlocked(p)
  <2>1. job[p].pc = "unlock" /\ UNCHANGED <<task, data>>
    BY <1>4 DEF Unlocked, At
  <2>2. ~Critical(p)
    BY <2>1 DEF Critical, In
  <2>3. CASE (ReadOwner(p, Meta) \/ Remove(p, Meta)) /\ UNCHANGED job
    BY <1>1, <1>2, <2>1, <2>2, <2>3
  <2>4. CASE Lasting /\ To(p, "done")
    <3>1. Keeps(p, "done") /\ UNCHANGED lockVars
      BY <2>4, Moves DEF IInv, PCs, Lasting
    <3>2. (InPlace(p) /\ Guarded(p) /\ Tasked(p) /\ Deleting(p) /\ Stopped(p) /\ Copied(p))'
      BY <2>1, <3>1, EndedKeeps DEF Keeps, Moved
    <3>3. QED
      BY <2>1, <3>1, <3>2, Calm DEF Keeps, Making, IInv, Typed, data, lockVars
  <2>5. QED
    BY <1>4, <2>3, <2>4 DEF Unlocked
<1>5. QED
  BY <1>3, <1>4

(* A command that begins takes a time later than every run's, and asks for *)
(* the metadata lock.                                                      *)
LEMMA BeginIInv ==
    ASSUME IInv, LockInv', NEW p \in Procs, Begin(p)
    PROVE  IInv'
<1>1. /\ UNCHANGED <<task, data>> /\ dead' = dead /\ job[p].pc = "begin"
      /\ Kind(p, Creates \union {"delete"}) /\ Goes(p, Meta, "waiting")
  BY DEF Begin, At, AskLock
<1>2. /\ job \in [Procs -> Jobbing] /\ job[p] \in Jobbing
      /\ lock \in [Procs -> [Locks -> LockStates]]
  BY DEF IInv, Typed, LockInv, LockTypeOK
<1>3. Now \in Nat /\ (\A t \in DOMAIN manifests \union doomed : t # Now) /\ \A q \in Procs : job[q].time # Now
  BY NowIsLater DEF IInv
<1> DEFINE now == IF Kind(p, Creates) THEN Now ELSE 0
           r == [job[p] EXCEPT !.pc = "locking", !.time = now]
<1>4. r \in Jobbing /\ r.pc = "locking" /\ r.kind = job[p].kind /\ r.time = now
  BY <1>2, <1>3 DEF Jobbing, PCs
<1>5. job' = [job EXCEPT ![p] = r]
  BY <1>2 DEF Begin
<1> HIDE DEF r
<1>6. Moved(p, "locking") /\ job'[p].time = now
  BY <1>2, <1>4, <1>5 DEF Moved
<1>7. /\ \A q \in Procs : q # p => lock'[q][Meta] = lock[q][Meta]
      /\ UNCHANGED <<running, content, mirror, snaps, manifests, doomed, beside>>
  BY <1>1, <1>2, BackupAssumption DEF Goes, data
<1>8. Typed'
  BY <1>1, <1>6, <1>7 DEF IInv, Typed, Moved
<1>9. \A q \in Procs \ {p} : Spared(q)
  BY <1>1, <1>6, <1>7, SparedMost DEF Moved
<1>10. \A q \in Procs : OwnTime(q)'
  <2>1. ASSUME NEW q \in Procs, q # p PROVE OwnTime(q)'
    BY <1>3, <1>6, <1>7, <2>1 DEF IInv, Works, OwnTime, Moved, Kind
  <2>2. OwnTime(p)'
    BY <1>3, <1>6, <1>7 DEF OwnTime, Moved, Kind
  <2>3. QED
    BY <2>1, <2>2
<1>11. (InPlace(p) /\ Guarded(p) /\ Tasked(p) /\ Deleting(p) /\ Stopped(p) /\ Copied(p))'
  BY <1>1, <1>6 DEF IInv, Works, InPlace, Guarded, Critical, Tasked, Deleting,
     Stopped, Quiet, Copied, Moved, In, Kind
<1>12. (\A t \in DOMAIN manifests \ doomed : Listed(t))'
  BY <1>7 DEF IInv, Listed
<1>13. QED
  BY <1>8, <1>9, <1>10, <1>11, <1>12, OneCommand

-----------------------------------------------------------------------------
(* The steps that change what others see. *)

(* Another command is quiet after a step only if it was before, and then   *)
(* the services are down.                                                  *)
LEMMA QuietOthers ==
    ASSUME IInv, NEW p \in Procs, NEW q \in Procs, q # p,
           job'[q] = job[q], dead \subseteq dead', beside \ {p} \subseteq beside'
    PROVE  /\ Quiet(q)' => Quiet(q) /\ q \notin beside'
           /\ Quiet(q) => ~running
           /\ In(q, {"create"}, {"stopped"}) => ~running
<1>1. Quiet(q)' => Quiet(q) /\ q \notin beside'
  BY DEF Quiet, In, Kind
<1>2. QED
  BY <1>1 DEF IInv, Works, Stopped

(* The times, when a command moves on without beginning. *)
LEMMA TimesMoved ==
    ASSUME IInv, NEW p \in Procs, NEW pc, Moved(p, pc),
           Kind(p, Creates) => job'[p].time = job[p].time,
           job[p].pc # "begin", pc # "begin", pc \in Making => job[p].pc \in Making,
           DOMAIN manifests' \union doomed' \subseteq DOMAIN manifests \union doomed
    PROVE  \A q \in Procs : OwnTime(q)'
<1>1. ASSUME NEW q \in Procs
      PROVE  /\ job'[q].kind = job[q].kind
             /\ Kind(q, Creates) =>
                   /\ job'[q].time = job[q].time
                   /\ job[q].pc = "begin" => job'[q].pc = "begin"
                   /\ job'[q].pc = "begin" => job[q].pc = "begin"
                   /\ job'[q].pc \in Making => job[q].pc \in Making
  BY DEF Moved
<1>2. QED
  BY <1>1, TimesKept

(* The services are stopped: every transaction is finished. *)
LEMMA StopServicesIInv ==
    ASSUME IInv, LockInv', NEW p \in Procs, StopServices(p)
    PROVE  IInv'
<1>1. /\ UNCHANGED <<task, mirror, snaps, manifests, doomed, beside, lockVars>>
      /\ p \notin dead /\ job[p].pc = "stop"
  BY DEF StopServices, Lasting, At
<1>2. Kind(p, {"create"}) /\ lock[p][Meta] = "held"
  BY <1>1 DEF IInv, Works, InPlace, Guarded, Critical, In, Kind, Creates
<1>3. CASE Keeps(p, "unlock") /\ UNCHANGED <<running, content>>
  <2>1. (InPlace(p) /\ Guarded(p) /\ Tasked(p) /\ Deleting(p) /\ Stopped(p) /\ Copied(p))'
    BY <1>1, <1>3, EndedKeeps DEF Keeps, Moved
  <2>2. QED
    BY <1>1, <1>3, <2>1, Calm DEF Keeps, Making, IInv, Typed, lockVars
<1>4. CASE /\ Keeps(p, "stopped") /\ running' = FALSE
           /\ content' = [v \in Vols |-> IF running THEN Max({content[w] : w \in Vols}) ELSE content[v]]
  <2>1. ~running => content' = content
    BY <1>4 DEF IInv, Typed
  <2>2. Typed'
    BY <1>1, <1>4 DEF IInv, Typed, Keeps, Moved
  <2>3. ASSUME NEW q \in Procs \ {p} PROVE Spared(q)
    BY <1>1, <1>4, <2>1, <2>3, QuietOthers DEF Spared, Keeps, Moved, lockVars
  <2>4. \A q \in Procs : OwnTime(q)'
    BY <1>1, <1>4, TimesMoved DEF Keeps, Making
  <2>5. (InPlace(p) /\ Guarded(p) /\ Tasked(p) /\ Deleting(p) /\ Stopped(p) /\ Copied(p))'
    BY <1>1, <1>2, <1>4 DEF IInv, Works, InPlace, Guarded, Critical, Tasked, Deleting, Stopped, Quiet,
       Copied, Keeps, Moved, In, Kind, Creates, lockVars
  <2>6. (\A t \in DOMAIN manifests \ doomed : Listed(t))'
    BY <1>1 DEF IInv, Listed
  <2>7. QED
    BY <2>2, <2>3, <2>4, <2>5, <2>6, OneCommand
<1>5. QED
  BY <1>3, <1>4, Moves DEF StopServices, IInv, PCs

(* The services are started again: whoever is in the middle of a copy      *)
(* counts as disturbed, and nobody else has stopped them.                  *)
LEMMA RestartServicesIInv ==
    ASSUME IInv, LockInv', NEW p \in Procs, RestartServices(p)
    PROVE  IInv'
<1>1. /\ UNCHANGED <<task, content, mirror, snaps, manifests, doomed, lockVars>>
      /\ p \notin dead /\ job[p].pc = "restart" /\ Keeps(p, "unlock")
  BY Moves DEF RestartServices, Lasting, At, IInv, PCs
<1>2. (InPlace(p) /\ Guarded(p) /\ Tasked(p) /\ Deleting(p) /\ Stopped(p) /\ Copied(p))'
  BY <1>1, EndedKeeps DEF Keeps, Moved
<1>3. CASE UNCHANGED <<running, beside>>
  BY <1>1, <1>2, <1>3, Calm DEF Keeps, Making, IInv, Typed, lockVars
<1>4. CASE running' = TRUE /\ beside' = Disturbs(p)
  <2>1. Typed'
    BY <1>1, <1>4 DEF IInv, Typed, Keeps, Moved
  <2>2. Critical(p)
    BY <1>1 DEF IInv, Works, InPlace, Critical, In
  <2>3. ASSUME NEW q \in Procs \ {p} PROVE Spared(q)
    <3>1. ~In(q, {"create"}, {"stopped"})
      BY <2>2, OneCritical DEF Critical, In, Kind, Creates
    <3>2. ~Quiet(q)'
      BY <1>1, <1>4 DEF Quiet, In, Disturbs, Keeps, Moved
    <3>3. QED
      BY <1>1, <1>4, <3>1, <3>2 DEF Spared, Keeps, Moved, lockVars
  <2>4. \A q \in Procs : OwnTime(q)'
    BY <1>1, TimesMoved DEF Keeps, Making
  <2>5. (\A t \in DOMAIN manifests \ doomed : Listed(t))'
    BY <1>1 DEF IInv, Listed
  <2>6. QED
    BY <1>2, <2>1, <2>3, <2>4, <2>5, OneCommand
<1>5. QED
  BY <1>3, <1>4 DEF RestartServices

(* The services write: nobody who needs them down is at work. *)
LEMMA WriteIInv ==
    ASSUME IInv, LockInv', NEW v \in Vols, Write(v)
    PROVE  IInv'
<1>1. /\ UNCHANGED <<lockVars, job, task, running, mirror, snaps, manifests, doomed, beside>>
      /\ running /\ content' = [content EXCEPT ![v] = @ + 1]
  BY DEF Write
<1>2. Typed'
  BY <1>1 DEF IInv, Typed
<1>3. ASSUME NEW p \in Procs PROVE Works(p)'
  <2>1. OwnTime(p)'
    BY <1>1, TimesKept
  <2>2. ~Quiet(p) /\ ~In(p, {"create"}, {"stopped"}) /\ ~Quiet(p)'
    BY <1>1 DEF IInv, Works, Stopped, Quiet, In, Kind, lockVars
  <2>3. Spared(p)
    BY <1>1, <2>2 DEF Spared, lockVars
  <2>4. QED
    BY <2>1, <2>3, SparedWorks DEF IInv
<1>4. QED
  BY <1>1, <1>2, <1>3 DEF IInv, Listed

(* Where a volume's task goes. *)
TaskMoved(p, v, state) ==
    /\ task' \in [Procs -> [Vols -> TaskStates]]
    /\ \A q \in Procs \ {p} : task'[q] = task[q]
    /\ task'[p][v] = state /\ \A w \in Vols : w # v => task'[p][w] = task[p][w]

(* A task that is sent on, and no other. *)
LEMMA TaskMoves ==
    ASSUME Typed, NEW p \in Procs, NEW v \in Vols, NEW state \in TaskStates, TaskTo(p, v, state)
    PROVE  TaskMoved(p, v, state)
BY DEF Typed, TaskTo, TaskMoved

(* What a step of a task leaves to show: that it spares the others, keeps  *)
(* what is listed, and has copied what it says.                            *)
LEMMA OneTask ==
    ASSUME IInv, LockInv', NEW p \in Procs, NEW v \in Vols, NEW state \in TaskStates,
           TaskMoved(p, v, state), state = "copied" => Kind(p, Creates),
           job[p].pc = "volumes", UNCHANGED <<job, lockVars, running, manifests, doomed>>,
           Quiet(p)' => Quiet(p) /\ content' = content,
           content' = [w \in Vols |-> content'[w]], mirror' = [w \in Vols |-> mirror'[w]],
           snaps' = [w \in Vols |-> snaps'[w]],
           \A q \in Procs \ {p} : Spared(q), Copied(p)',
           (\A t \in DOMAIN manifests \ doomed : Listed(t))'
    PROVE  IInv'
<1>1. Typed'
  BY DEF IInv, Typed, TaskMoved
<1>2. \A q \in Procs : OwnTime(q)'
  BY TimesKept
<1>3. (InPlace(p) /\ Guarded(p) /\ Deleting(p))'
  BY DEF IInv, Works, InPlace, Guarded, Critical, Deleting, In, Kind, lockVars
<1>4. Tasked(p)'
  BY DEF IInv, Works, Tasked, TaskMoved, In, Kind, lockVars
<1>5. Stopped(p)'
  BY DEF IInv, Works, Stopped, In, Kind, lockVars
<1>6. QED
  BY <1>1, <1>2, <1>3, <1>4, <1>5, OneCommand

(* A copy into the mirror: no other command that copies is at work. *)
LEMMA CopyToMirrorIInv ==
    ASSUME IInv, LockInv', NEW p \in Procs, NEW v \in Vols, CopyToMirror(p, v)
    PROVE  IInv'
<1>1. /\ UNCHANGED <<job, lockVars, running, content, snaps, manifests, doomed, beside>>
      /\ p \notin dead /\ job[p].pc = "volumes" /\ Kind(p, Creates)
  BY DEF CopyToMirror, TaskAt, At, Lasting
<1>2. PICK state, x :
         /\ state \in {"copied", "failed"} /\ TaskTo(p, v, state)
         /\ mirror' = [mirror EXCEPT ![v] = x]
         /\ state = "copied" => x = content[v]
  BY DEF CopyToMirror
<1>3. TaskMoved(p, v, state)
  BY <1>2, TaskMoves DEF IInv, TaskStates
<1>4. mirror' = [w \in Vols |-> mirror'[w]] /\ mirror'[v] = x /\ \A w \in Vols : w # v => mirror'[w] = mirror[w]
  BY <1>2 DEF IInv, Typed
<1>5. Critical(p)
  BY <1>1 DEF Critical, In
<1>6. ASSUME NEW q \in Procs \ {p} PROVE Spared(q)
  <2>1. ~In(q, Creates, {"volumes"})
    BY <1>5, OneCritical DEF Critical, In
  <2>2. QED
    BY <1>1, <1>3, <2>1, QuietOthers DEF Spared, TaskMoved, lockVars
<1>7. Quiet(p)' => Quiet(p)
  BY <1>1 DEF Quiet, In, Kind, lockVars
<1>8. Copied(p)'
  BY <1>1, <1>2, <1>3, <1>4, <1>7, SMTT(30) DEF IInv, Works, Copied, TaskMoved, In, Kind, lockVars
<1>9. (\A t \in DOMAIN manifests \ doomed : Listed(t))'
  BY <1>1 DEF IInv, Listed
<1>10. QED
  BY <1>1, <1>2, <1>3, <1>4, <1>6, <1>7, <1>8, <1>9, OneTask, ZenonT(60) DEF IInv, Typed, TaskStates

(* A restore point is made, under a time that is nobody else's. *)
LEMMA TakeSnapshotIInv ==
    ASSUME IInv, LockInv', NEW p \in Procs, NEW v \in Vols, TakeSnapshot(p, v)
    PROVE  IInv'
<1>1. /\ UNCHANGED <<job, lockVars, running, content, mirror, manifests, doomed, beside>>
      /\ p \notin dead /\ job[p].pc = "volumes" /\ task[p][v] = "copied"
  BY DEF TakeSnapshot, TaskAt, At, Lasting
<1>2. Kind(p, Creates)
  BY <1>1 DEF IInv, Works, Tasked
<1>3. Quiet(p)' => Quiet(p)
  BY <1>1 DEF Quiet, In, Kind, lockVars
<1> DEFINE t == job[p].time
<1>4. CASE TaskTo(p, v, "failed") /\ UNCHANGED snaps
  <2>1. TaskMoved(p, v, "failed")
    BY <1>4, TaskMoves DEF IInv, TaskStates
  <2>2. ASSUME NEW q \in Procs \ {p} PROVE Spared(q)
    BY <1>1, <1>4, <2>1, QuietOthers DEF Spared, TaskMoved, lockVars
  <2>3. Copied(p)'
    BY <1>1, <1>3, <1>4, <2>1 DEF IInv, Works, Copied, TaskMoved, In, Kind, lockVars
  <2>4. (\A u \in DOMAIN manifests \ doomed : Listed(u))'
    BY <1>1, <1>4 DEF IInv, Listed
  <2>5. QED
    BY <1>1, <1>3, <1>4, <2>1, <2>2, <2>3, <2>4, OneTask DEF IInv, Typed, TaskStates
<1>5. CASE TaskTo(p, v, "done") /\ snaps' = [snaps EXCEPT ![v] = With(@, t, mirror[v])]
  <2>1. TaskMoved(p, v, "done")
    BY <1>5, TaskMoves DEF IInv, TaskStates
  <2>2. /\ snaps' = [w \in Vols |-> snaps'[w]] /\ snaps'[v] = With(snaps[v], t, mirror[v])
        /\ \A w \in Vols : w # v => snaps'[w] = snaps[w]
    BY <1>5 DEF IInv, Typed
  <2>3. /\ t \in DOMAIN snaps'[v] /\ snaps'[v][t] = mirror[v]
        /\ \A w \in Vols : \A u \in DOMAIN snaps[w] :
              u # t \/ w # v => u \in DOMAIN snaps'[w] /\ snaps'[w][u] = snaps[w][u]
    BY <2>2 DEF With
  <2>4. ASSUME NEW q \in Procs \ {p} PROVE Spared(q)
    <3>1. In(q, Creates, {"volumes", "manifest", "writing"}) => job[q].time # t
      BY <1>1, <1>2 DEF IInv, Works, OwnTime, In
    <3>2. QED
      BY <1>1, <2>1, <2>3, <3>1, QuietOthers DEF Spared, TaskMoved, lockVars
  <2>5. Copied(p)'
    <3>1. In(p, Creates, {"volumes", "manifest", "writing"})
      BY <1>1, <1>2, <1>3 DEF In
    <3>2. ASSUME NEW w \in Vols, w # v, task'[p][w] \in {"copied", "done"}
          PROVE  /\ task'[p][w] = "done" => t \in DOMAIN snaps'[w]
                 /\ Quiet(p) /\ task'[p][w] = "copied" => mirror[w] = content[w]
                 /\ Quiet(p) /\ task'[p][w] = "done" => snaps'[w][t] = content[w]
      BY <2>1, <2>2, <3>1, <3>2 DEF IInv, Works, Copied, TaskMoved
    <3>3. Quiet(p) => mirror[v] = content[v]
      BY <1>1 DEF IInv, Works, Copied
    <3>4. QED
      BY <1>1, <1>3, <2>1, <2>3, <3>2, <3>3 DEF Copied, TaskMoved
  <2>6. t \notin DOMAIN manifests
    BY <1>1, <1>2 DEF IInv, Works, OwnTime, Making
  <2>7. (\A u \in DOMAIN manifests \ doomed : Listed(u))'
    <3> SUFFICES ASSUME NEW u \in DOMAIN manifests \ doomed PROVE Listed(u)'
      BY <1>1
    <3>1. Listed(u) /\ u # t
      BY <2>6 DEF IInv
    <3>2. \A w \in Vols : u \in DOMAIN snaps'[w] /\ snaps'[w][u] = snaps[w][u]
      BY <2>3, <3>1 DEF Listed
    <3>3. QED
      BY <1>1, <3>1, <3>2 DEF Listed, OneCut
  <2>8. QED
    BY <1>1, <1>3, <2>1, <2>2, <2>4, <2>5, <2>7, OneTask DEF IInv, Typed, TaskStates
<1>6. QED
  BY <1>4, <1>5 DEF TakeSnapshot

(* A copy back: every command that copies at the moment is disturbed. *)
LEMMA CopyBackIInv ==
    ASSUME IInv, LockInv', NEW p \in Procs, NEW v \in Vols, CopyBack(p, v)
    PROVE  IInv'
<1>1. /\ UNCHANGED <<job, lockVars, running, mirror, snaps, manifests, doomed>>
      /\ p \notin dead /\ job[p].pc = "volumes" /\ Kind(p, {"restore"})
      /\ UNCHANGED <<content, beside>> \/ beside' = Disturbs(p)
  BY DEF CopyBack, TaskAt, At, Lasting
<1>2. PICK state \in {"done", "failed"} : TaskTo(p, v, state)
  BY DEF CopyBack
<1>3. TaskMoved(p, v, state)
  BY <1>2, TaskMoves DEF IInv, TaskStates
<1>4. content' = [w \in Vols |-> content'[w]]
  BY DEF CopyBack, IInv, Typed
<1>5. ASSUME NEW q \in Procs \ {p} PROVE Spared(q)
  <2>1. Quiet(q)' => UNCHANGED <<content, beside>>
    BY <1>1 DEF Quiet, In, Disturbs
  <2>2. beside \ {p} \subseteq beside'
    BY <1>1 DEF Disturbs
  <2>3. QED
    BY <1>1, <1>3, <2>1, <2>2, QuietOthers DEF Spared, TaskMoved, lockVars
<1>6. ~Kind(p, Creates) /\ ~Quiet(p)' /\ ~In(p, Creates, {"volumes", "manifest", "writing"})'
  BY <1>1 DEF Quiet, In, Kind, Creates
<1>7. Copied(p)'
  BY <1>6 DEF Copied
<1>8. (\A t \in DOMAIN manifests \ doomed : Listed(t))'
  BY <1>1 DEF IInv, Listed
<1>9. QED
  BY <1>1, <1>2, <1>3, <1>4, <1>5, <1>6, <1>7, <1>8, OneTask DEF IInv, Typed, TaskStates

(* A manifest that is begun is nobody's run yet. *)
LEMMA OpenManifestIInv ==
    ASSUME IInv, LockInv', NEW p \in Procs, OpenManifest(p)
    PROVE  IInv'
<1>1. /\ UNCHANGED <<lockVars, task, running, content, mirror, snaps, manifests, doomed, beside>>
      /\ p \notin dead /\ job[p].pc = "manifest"
  BY DEF OpenManifest, Lasting, At
<1>2. Kind(p, Creates) /\ lock[p][Meta] = "held" /\ \A v \in Vols : task[p][v] = "done"
  BY <1>1 DEF IInv, Works, InPlace, Guarded, Critical, Tasked, In
<1>3. CASE Keeps(p, "unlock")
  <2>1. (InPlace(p) /\ Guarded(p) /\ Tasked(p) /\ Deleting(p) /\ Stopped(p) /\ Copied(p))'
    BY <1>1, <1>3, EndedKeeps DEF Keeps, Moved
  <2>2. QED
    BY <1>1, <1>3, <2>1, Calm DEF Keeps, Making, IInv, Typed, lockVars
<1>4. CASE Keeps(p, "writing")
  <2>1. (InPlace(p) /\ Guarded(p) /\ Tasked(p) /\ Deleting(p))'
    BY <1>1, <1>2, <1>4 DEF InPlace, Guarded, Tasked, Deleting, Keeps, Moved, In, Kind, lockVars, Creates
  <2>2. (Stopped(p) /\ Copied(p))'
    BY <1>1, <1>2, <1>4 DEF IInv, Works, Stopped, Quiet, Copied, Keeps, Moved, In, Kind, lockVars
  <2>3. QED
    BY <1>1, <1>4, <2>1, <2>2, Calm DEF Keeps, Making, IInv, Typed, lockVars
<1>5. QED
  BY <1>3, <1>4, Moves DEF OpenManifest, IInv, PCs

(* A run is listed once every volume of it has been copied. *)
LEMMA CopyManifestIInv ==
    ASSUME IInv, LockInv', NEW p \in Procs, CopyManifest(p)
    PROVE  IInv'
<1>1. /\ UNCHANGED <<lockVars, task, running, content, mirror, snaps, doomed, beside>>
      /\ p \notin dead /\ job[p].pc = "writing"
  BY DEF CopyManifest, Lasting, At
<1>2. Kind(p, Creates) /\ lock[p][Meta] = "held" /\ \A v \in Vols : task[p][v] = "done"
  BY <1>1 DEF IInv, Works, InPlace, Guarded, Critical, Tasked, In
<1>0. PICK t \in Nat : t = job[p].time
  BY DEF IInv, Typed, Jobbing
<1> DEFINE run == [live |-> Kind(p, {"live"}), vols |-> Vols, beside |-> p \in beside]
<1>3. CASE Keeps(p, "unlock") /\ UNCHANGED manifests
  <2>1. (InPlace(p) /\ Guarded(p) /\ Tasked(p) /\ Deleting(p) /\ Stopped(p) /\ Copied(p))'
    BY <1>1, <1>3, EndedKeeps DEF Keeps, Moved
  <2>2. QED
    BY <1>1, <1>3, <2>1, Calm DEF Keeps, Making, IInv, Typed, lockVars
<1>4. CASE /\ Keeps(p, "restart") \/ Keeps(p, "unlock")
           /\ manifests' = With(manifests, t, run)
  <2>1. /\ DOMAIN manifests' = DOMAIN manifests \union {t} /\ manifests'[t] = run
        /\ \A u \in DOMAIN manifests : u # t => manifests'[u] = manifests[u]
    BY <1>4 DEF With
  <2>2. Typed'
    <3>1. IsFiniteSet(DOMAIN manifests \union {t}) /\ DOMAIN manifests \subseteq Nat
      BY FS_AddElement DEF IInv, Typed, FiniteTimes
    <3>2. FiniteTimes(DOMAIN manifests')
      BY <2>1, <3>1 DEF FiniteTimes
    <3>3. QED
      BY <1>1, <1>4, <3>2 DEF IInv, Typed, Keeps, Moved
  <2>3. ASSUME NEW q \in Procs \ {p} PROVE Spared(q)
    BY <1>1, <1>4, <2>1, QuietOthers DEF Spared, Keeps, Moved, lockVars
  <2>4. ASSUME NEW q \in Procs PROVE OwnTime(q)'
    <3>1. CASE q = p
      BY <1>0, <1>1, <1>4, <2>1, <3>1 DEF IInv, Works, OwnTime, Keeps, Moved, Kind, Making
    <3>2. CASE q # p
      BY <1>0, <1>1, <1>2, <1>4, <2>1, <3>2 DEF IInv, Works, OwnTime, Keeps, Moved, Kind
    <3>3. QED
      BY <3>1, <3>2
  <2>5. (InPlace(p) /\ Guarded(p) /\ Tasked(p) /\ Deleting(p) /\ Stopped(p) /\ Copied(p))'
    BY <1>1, <1>2, <1>4 DEF IInv, Works, InPlace, Guarded, Critical, Tasked, Deleting, Stopped, Quiet,
       Copied, Keeps, Moved, In, Kind, Creates, lockVars
  <2>6. (\A u \in DOMAIN manifests \ doomed : Listed(u))'
    <3>1. ASSUME NEW u \in DOMAIN manifests \ doomed, u # t PROVE Listed(u)'
      BY <1>1, <2>1, <3>1 DEF IInv, Listed
    <3>2. In(p, Creates, {"volumes", "manifest", "writing"})
      BY <1>1, <1>2 DEF In
    <3>3. ~Kind(p, {"live"}) /\ p \notin beside => Quiet(p)
      BY <1>1, <1>2 DEF Quiet, In, Kind, Creates
    <3>4. \A v \in Vols : t \in DOMAIN snaps[v] /\ (Quiet(p) => snaps[v][t] = content[v])
      BY <1>0, <1>2, <3>2 DEF IInv, Works, Copied
    <3>5. Quiet(p) => OneCut([v \in Vols |-> snaps[v][t]])
      BY <3>4 DEF IInv, Works, Stopped, OneCut
    <3>6. Listed(t)'
      <4>1. /\ manifests'[t].vols = Vols
            /\ ~manifests'[t].live => ~Kind(p, {"live"})
            /\ ~manifests'[t].beside => p \notin beside
        <5>1. manifests'[t].vols = Vols
          BY <2>1
        <5>2. manifests'[t].live = Kind(p, {"live"})
          BY <2>1
        <5>3. manifests'[t].beside = (p \in beside)
          BY <2>1
        <5>4. QED
          BY <5>1, <5>2, <5>3, Zenon
      <4>2. ~manifests'[t].live /\ ~manifests'[t].beside => OneCut([v \in Vols |-> snaps[v][t]])
        BY <3>3, <3>5, <4>1
      <4>3. QED
        BY <1>1, <3>4, <4>1, <4>2 DEF Listed, OneCut
    <3>7. QED
      BY <1>1, <2>1, <3>1, <3>6
  <2>7. QED
    BY <2>2, <2>3, <2>4, <2>5, <2>6, OneCommand
<1>5. QED
  BY <1>0, <1>3, <1>4, Moves DEF CopyManifest, IInv, PCs

(* What a delete has before it: one of the runs that are listed, and no    *)
(* other command that writes or removes any.                               *)
LEMMA DeletingOne ==
    ASSUME IInv, NEW p \in Procs, At(p, "delete"), job[p].rest # {}
    PROVE  /\ Kind(p, {"delete"}) /\ Critical(p)
           /\ FiniteTimes(job[p].rest) /\ job[p].rest \subseteq DOMAIN manifests
           /\ Max(job[p].rest) \in job[p].rest
           /\ \A q \in Procs : In(q, Creates, {"volumes", "manifest", "writing"}) => job[q].time # Max(job[p].rest)
<1>1. Kind(p, {"delete"}) /\ Critical(p)
  BY DEF IInv, Works, InPlace, Critical, In, At
<1>2. FiniteTimes(job[p].rest) /\ job[p].rest \subseteq DOMAIN manifests
  BY <1>1 DEF IInv, Works, Deleting, In, At
<1>3. Max(job[p].rest) \in job[p].rest
  <2>1. job[p].rest \subseteq Int /\ IsFiniteSet(job[p].rest)
    BY <1>2 DEF FiniteTimes
  <2>2. QED
    BY <2>1, MaxIs
<1>4. \A q \in Procs : In(q, Creates, {"volumes", "manifest", "writing"}) => job[q].time \notin DOMAIN manifests
  BY DEF IInv, Works, OwnTime, In, Making
<1>5. QED
  BY <1>1, <1>2, <1>3, <1>4

(* A restore point goes, and with it the promise of its run. *)
LEMMA DeleteSnapshotIInv ==
    ASSUME IInv, LockInv', NEW p \in Procs, DeleteSnapshot(p)
    PROVE  IInv'
<1> DEFINE t == Max(job[p].rest)
<1>1. /\ UNCHANGED <<lockVars, task, running, content, mirror, manifests, beside>>
      /\ At(p, "delete") /\ job[p].rest # {} /\ doomed' = doomed \union {t}
  BY DEF DeleteSnapshot, Lasting
<1>2. /\ Kind(p, {"delete"}) /\ Critical(p) /\ t \in DOMAIN manifests
      /\ \A q \in Procs : In(q, Creates, {"volumes", "manifest", "writing"}) => job[q].time # t
  BY <1>1, DeletingOne
<1>3. PICK pc \in {"delete", "unlock"} : Keeps(p, pc)
  BY <1>1, Moves DEF DeleteSnapshot, IInv, Typed, PCs, Keeps, Moved, At
<1>4. /\ snaps' = [w \in Vols |-> snaps'[w]]
      /\ \A w \in Vols : \A u \in DOMAIN snaps[w] \ {t} :
            u \in DOMAIN snaps'[w] /\ snaps'[w][u] = snaps[w][u]
  <2>1. CASE UNCHANGED snaps
    BY <2>1 DEF IInv, Typed
  <2>2. ASSUME NEW v \in Vols, snaps' = [snaps EXCEPT ![v] = [u \in DOMAIN @ \ {t} |-> @[u]]]
        PROVE  /\ snaps' = [w \in Vols |-> snaps'[w]]
               /\ \A w \in Vols : \A u \in DOMAIN snaps[w] \ {t} :
                     u \in DOMAIN snaps'[w] /\ snaps'[w][u] = snaps[w][u]
    BY <2>2 DEF IInv, Typed
  <2>3. QED
    BY <2>1, <2>2 DEF DeleteSnapshot
<1>5. Typed'
  <2>1. FiniteTimes(doomed')
    BY <1>1, <1>2, FS_AddElement DEF IInv, Typed, FiniteTimes
  <2>2. QED
    BY <1>1, <1>3, <1>4, <2>1 DEF IInv, Typed, Keeps, Moved
<1>6. ASSUME NEW q \in Procs \ {p} PROVE Spared(q)
  BY <1>1, <1>2, <1>3, <1>4, QuietOthers DEF Spared, Keeps, Moved, lockVars
<1>7. \A q \in Procs : OwnTime(q)'
  BY <1>1, <1>2, <1>3, TimesMoved DEF Keeps, Making, At
<1>8. (InPlace(p) /\ Guarded(p) /\ Tasked(p) /\ Deleting(p) /\ Stopped(p) /\ Copied(p))'
  BY <1>1, <1>2, <1>3 DEF IInv, Works, InPlace, Guarded, Critical, Tasked, Deleting, Stopped, Quiet,
     Copied, Keeps, Moved, In, Kind, Creates, lockVars, At
<1>9. (\A u \in DOMAIN manifests \ doomed : Listed(u))'
  <2> SUFFICES ASSUME NEW u \in DOMAIN manifests \ doomed, u # t PROVE Listed(u)'
    BY <1>1
  <2>1. Listed(u)
    BY DEF IInv
  <2>2. \A w \in Vols : u \in DOMAIN snaps'[w] /\ snaps'[w][u] = snaps[w][u]
    BY <1>4, <2>1 DEF Listed
  <2>3. QED
    BY <1>1, <2>1, <2>2 DEF Listed, OneCut
<1>10. QED
  BY <1>5, <1>6, <1>7, <1>8, <1>9, OneCommand

(* A manifest goes: only the command that deletes counted on it. *)
LEMMA DeleteManifestIInv ==
    ASSUME IInv, LockInv', NEW p \in Procs, DeleteManifest(p)
    PROVE  IInv'
<1> DEFINE t == Max(job[p].rest)
           r == [job[p] EXCEPT !.rest = @ \ {t}]
<1>1. /\ UNCHANGED <<lockVars, task, running, content, mirror, snaps, doomed, beside>>
      /\ At(p, "delete") /\ job[p].rest # {}
      /\ manifests' = [u \in DOMAIN manifests \ {t} |-> manifests[u]]
      /\ job' = [job EXCEPT ![p].rest = @ \ {t}]
  BY DEF DeleteManifest, Lasting
<1>2. /\ Kind(p, {"delete"}) /\ Critical(p)
      /\ FiniteTimes(job[p].rest) /\ job[p].rest \subseteq DOMAIN manifests
  BY <1>1, DeletingOne
<1>3. job \in [Procs -> Jobbing] /\ job[p] \in Jobbing
  BY DEF IInv, Typed
<1>4. /\ r \in Jobbing /\ r.pc = job[p].pc /\ r.kind = job[p].kind /\ r.time = job[p].time
      /\ r.rest = job[p].rest \ {t}
  BY <1>3 DEF Jobbing
<1>5. job' = [job EXCEPT ![p] = r]
  BY <1>1, <1>3
<1> HIDE DEF r
<1>6. Moved(p, "delete") /\ job'[p].time = job[p].time /\ job'[p].rest = job[p].rest \ {t}
  BY <1>1, <1>3, <1>4, <1>5 DEF Moved, At
<1>7. /\ DOMAIN manifests' = DOMAIN manifests \ {t}
      /\ \A u \in DOMAIN manifests' : manifests'[u] = manifests[u]
  BY <1>1
<1>8. FiniteTimes(DOMAIN manifests') /\ FiniteTimes(job[p].rest \ {t})
  <2>1. \A S : FiniteTimes(S) => FiniteTimes(S \ {t})
    BY FS_RemoveElement DEF FiniteTimes
  <2>2. FiniteTimes(DOMAIN manifests)
    BY DEF IInv, Typed
  <2>3. QED
    BY <1>2, <1>7, <2>1, <2>2
<1>9. Typed'
  <2>1. job' \in [Procs -> Jobbing]
    BY <1>6 DEF Moved
  <2>2. QED
    BY <1>1, <1>8, <2>1 DEF IInv, Typed
<1>10. ASSUME NEW q \in Procs \ {p} PROVE Spared(q)
  <2>1. ~In(q, {"delete"}, {"delete"})
    BY <1>2, OneCritical DEF Critical, In
  <2>2. QED
    BY <1>1, <1>6, <2>1, QuietOthers DEF Spared, Moved, lockVars
<1>11. \A q \in Procs : OwnTime(q)'
  BY <1>1, <1>6, <1>7, TimesMoved DEF Making, At
<1>12. (InPlace(p) /\ Guarded(p) /\ Tasked(p) /\ Deleting(p) /\ Stopped(p) /\ Copied(p))'
  BY <1>1, <1>2, <1>6, <1>7, <1>8 DEF IInv, Works, InPlace, Guarded, Critical, Tasked, Deleting,
     Stopped, Quiet, Copied, Moved, In, Kind, Creates, lockVars, At
<1>13. (\A u \in DOMAIN manifests \ doomed : Listed(u))'
  BY <1>1, <1>7 DEF IInv, Listed
<1>14. QED
  BY <1>9, <1>10, <1>11, <1>12, <1>13, OneCommand

-----------------------------------------------------------------------------
(* Every step keeps the invariant, while the locks keep theirs. *)
LEMMA NextIInv ==
    ASSUME Unraced, IInv, Spares, [Next]_vars
    PROVE  IInv' /\ Spares'
<1>1. LockInv' /\ Spares'
  BY NextLocks, UnracedNext DEF IInv
<1>2. CASE UNCHANGED vars
  BY <1>1, <1>2, LocksAlone DEF vars, lockVars
<1>3. CASE \E v \in Vols : Write(v)
  BY <1>1, <1>3, WriteIInv
<1>4. ASSUME NEW p \in Procs, Command(p) PROVE IInv'
  <2>1. CASE \E v \in Vols : LockVolume(p, v) \/ CopyToMirror(p, v) \/ TakeSnapshot(p, v) \/ CopyBack(p, v)
    BY <1>1, <2>1, LockVolumeIInv, CopyToMirrorIInv, TakeSnapshotIInv, CopyBackIInv
  <2>2. CASE Unlocked(p) \/ \E v \in Vols : UnlockVolume(p, v)
    BY <1>1, <2>2, UnlocksIInv
  <2>3. CASE Begin(p) \/ Locked(p) \/ StopServices(p) \/ Ensured(p) \/ VolumesDone(p) \/ RestartServices(p)
    BY <1>1, <2>3, BeginIInv, LockedIInv, StopServicesIInv, EnsuredIInv, VolumesDoneIInv, RestartServicesIInv
  <2>4. CASE PickRestore(p) \/ CheckRunning(p) \/ PickDelete(p) \/ Deleted(p)
    BY <1>1, <2>4, PickRestoreIInv, CheckRunningIInv, PickDeleteIInv, DeletedIInv
  <2>5. CASE OpenManifest(p) \/ CopyManifest(p) \/ DeleteSnapshot(p) \/ DeleteManifest(p)
    BY <1>1, <2>5, OpenManifestIInv, CopyManifestIInv, DeleteSnapshotIInv, DeleteManifestIInv
  <2>6. QED
    BY <1>4, <2>1, <2>2, <2>3, <2>4, <2>5 DEF Command
<1>5. CASE /\ UNCHANGED <<job, task, data>>
           /\ \/ \E p \in Procs, l \in Locks : Acquiring(p, l) \/ Refresh(p, l) \/ StampFails(p, l)
              \/ \E l \in Locks : Ages(l)
              \/ \E p \in Procs : Crash(p)
  BY <1>1, <1>5, LockStepsIInv
<1>6. QED
  BY <1>1, <1>2, <1>3, <1>4, <1>5 DEF Next, Waiting, Beside

(* The restore points of a run that is listed hold one cut, unless it was  *)
(* taken --live or something came in between, where no two waiters can     *)
(* find the same dead holder's record.                                     *)
THEOREM ListedIsOneCut ==
    ASSUME Unraced
    PROVE  Spec => []CutKept
<1>1. IInv => CutKept
  BY DEF IInv, Listed, CutKept
<1>2. IInv /\ Spares /\ [Next]_vars => IInv' /\ Spares'
  BY NextIInv
<1>3. Init => Spares
  BY InitSpares DEF Init
<1>4. QED
  BY InitIInv, <1>1, <1>2, <1>3, PTL DEF Spec

-----------------------------------------------------------------------------
(* What is in a manifest has its restore points, whatever the locks do:    *)
(* the times of runs are enough, for no two commands make the same run and *)
(* none deletes a run that is still being made.                            *)

(* The time of a run that some create is done with, or that was there.     *)
Known(t) ==
    \/ t = 1
    \/ \E q \in Procs : Kind(q, Creates) /\ job[q].pc \notin Making \union {"begin"} /\ job[q].time = t

Distinct ==
    \A p \in Procs : Kind(p, Creates) /\ job[p].pc # "begin" =>
        /\ job[p].time # 1
        /\ \A q \in Procs \ {p} : Kind(q, Creates) /\ job[q].pc # "begin" => job[q].time # job[p].time

(* A volume that is done has the restore point of the run in the making;   *)
(* a delete has a finite number of known runs before it.                   *)
Pointed(p) ==
    In(p, Creates, {"volumes", "manifest", "writing"}) =>
        \A v \in Vols : task[p][v] = "done" => job[p].time \in DOMAIN snaps[v]
Resting(p) == FiniteTimes(job[p].rest) /\ \A t \in job[p].rest : Known(t)

Whole(t) == manifests[t].vols = Vols /\ \A v \in Vols : t \in DOMAIN snaps[v]

PInv ==
    /\ Typed /\ Distinct
    /\ \A p \in Procs : InPlace(p) /\ Tasked(p) /\ Pointed(p) /\ Resting(p)
    /\ \A t \in DOMAIN manifests \union doomed : Known(t)
    /\ \A t \in DOMAIN manifests \ doomed : Whole(t)

(* The dead stay dead. *)
LEMMA DeadStay == [Next]_vars => dead \subseteq dead'
<1> SUFFICES ASSUME [Next]_vars PROVE dead \subseteq dead'
  OBVIOUS
<1>1. [LockNext]_lockVars
  BY NextLocks
<1>2. QED
  BY <1>1 DEF LockNext, lockVars, AskLock, Acquiring, Create, Stamp, SeeStale, Reap, StampFails, Refresh,
     ReadOwner, Remove, Ages, Crash

(* A run in the making is not a known one. *)
LEMMA MakingUnknown ==
    ASSUME PInv, NEW p \in Procs, Kind(p, Creates), job[p].pc \in Making, NEW t, Known(t)
    PROVE  t # job[p].time
BY DEF PInv, Distinct, Known, Making

(* The times, after any step of a command. *)
LEMMA TimesAfter ==
    ASSUME PInv, NEW p \in Procs, Command(p)
    PROVE  Distinct' /\ \A t : Known(t) => Known(t)'
<1>1. \A q \in Procs \ {p} : job'[q] = job[q]
  BY OnlyOne DEF PInv
<1>2. /\ job'[p].kind = job[p].kind
      /\ Kind(p, Creates) =>
            \/ Begin(p) /\ job'[p].time = Now /\ job'[p].pc = "locking"
            \/ /\ job'[p].time = job[p].time
               /\ job[p].pc = "begin" <=> job'[p].pc = "begin"
               /\ job'[p].pc \in Making => job[p].pc \in Making
  BY Makes DEF PInv
<1>3. Now # 1 /\ \A q \in Procs : job[q].time # Now
  BY NowIsLater DEF PInv
<1>4. Begin(p) => job[p].pc = "begin"
  BY DEF Begin, At
<1>5. ASSUME NEW q \in Procs, (Kind(q, Creates) /\ job[q].pc # "begin")'
      PROVE  /\ job'[q].time # 1
             /\ \A o \in Procs \ {q} : (Kind(o, Creates) /\ job[o].pc # "begin")' => job'[o].time # job'[q].time
  BY <1>1, <1>2, <1>3, <1>5 DEF PInv, Distinct, Kind
<1>6. ASSUME NEW t, Known(t) PROVE Known(t)'
  BY <1>1, <1>2, <1>4, <1>6 DEF Known, Kind
<1>7. QED
  BY <1>5, <1>6 DEF Distinct, Kind

(* What a step of a command has to show. *)
LEMMA PStep ==
    ASSUME PInv, NEW p \in Procs, Command(p), [Next]_vars, Typed',
           (InPlace(p) /\ Tasked(p) /\ Pointed(p) /\ Resting(p))',
           \A q \in Procs \ {p} : In(q, Creates, {"volumes", "manifest", "writing"}) =>
               \A v \in Vols : job[q].time \in DOMAIN snaps[v] => job[q].time \in DOMAIN snaps'[v],
           (\A t \in DOMAIN manifests \union doomed : Known(t))',
           (\A t \in DOMAIN manifests \ doomed : Whole(t))'
    PROVE  PInv'
<1>1. Distinct' /\ \A t : Known(t) => Known(t)'
  BY TimesAfter
<1>2. dead \subseteq dead'
  BY DeadStay
<1>3. ASSUME NEW q \in Procs, q # p
      PROVE  (InPlace(q) /\ Tasked(q) /\ Pointed(q) /\ Resting(q))'
  <2>1. job'[q] = job[q] /\ task'[q] = task[q]
    BY <1>3, OnlyOne DEF PInv
  <2>2. (InPlace(q) /\ Tasked(q))'
    BY <1>2, <2>1 DEF PInv, InPlace, Tasked, In, Kind
  <2>3. Pointed(q)'
    BY <1>2, <1>3, <2>1 DEF PInv, Pointed, In, Kind
  <2>4. Resting(q)'
    BY <1>1, <2>1 DEF PInv, Resting
  <2>5. QED
    BY <2>2, <2>3, <2>4
<1>4. QED
  BY <1>1, <1>3 DEF PInv

(* A step that leaves the runs alone has only its own command to show for. *)
LEMMA PCalm ==
    ASSUME PInv, NEW p \in Procs, Command(p), [Next]_vars, Typed',
           UNCHANGED <<snaps, manifests, doomed>>, job'[p].rest = job[p].rest,
           (InPlace(p) /\ Tasked(p) /\ Pointed(p))'
    PROVE  PInv'
<1>1. \A t : Known(t) => Known(t)'
  BY TimesAfter
<1>2. Resting(p)'
  BY <1>1 DEF PInv, Resting
<1>3. (\A t \in DOMAIN manifests \ doomed : Whole(t))'
  BY DEF PInv, Whole
<1>4. (\A t \in DOMAIN manifests \union doomed : Known(t))'
  BY <1>1 DEF PInv
<1>5. QED
  BY <1>2, <1>3, <1>4, PStep

(* A command that moves on, or ends, and leaves its tasks as they are. *)
LEMMA JobsPInv ==
    ASSUME PInv, NEW p \in Procs, [Next]_vars,
           \/ Locked(p) \/ StopServices(p) \/ Ensured(p) \/ VolumesDone(p) \/ OpenManifest(p)
           \/ RestartServices(p) \/ Unlocked(p) \/ CheckRunning(p) \/ Deleted(p)
    PROVE  PInv'
<1>1. Command(p)
  BY DEF Command
<1>2. /\ task' = task /\ UNCHANGED <<mirror, snaps, manifests, doomed>>
      /\ running' \in BOOLEAN /\ content' = [v \in Vols |-> content'[v]]
  BY DEF Locked, StopServices, Ensured, VolumesDone, OpenManifest, RestartServices, Unlocked,
         CheckRunning, Deleted, data, PInv, Typed
<1>3. /\ p \notin dead /\ InPlace(p) /\ Tasked(p) /\ Pointed(p) /\ Typed
  BY DEF PInv, Locked, StopServices, Ensured, VolumesDone, OpenManifest, RestartServices, Unlocked,
         CheckRunning, Deleted, At
<1>4. ASSUME NEW pc \in PCs, Keeps(p, pc), InPlace(p)', Tasked(p)', Pointed(p)'
      PROVE  PInv'
  <2>1. Typed'
    BY <1>2, <1>3, <1>4 DEF Typed, Keeps, Moved
  <2>2. QED
    BY <1>1, <1>2, <1>4, <2>1, PCalm DEF Keeps
<1>5. ASSUME Keeps(p, "unlock") \/ Keeps(p, "done") \/ UNCHANGED job, job[p].pc \in PCs
      PROVE  PInv'
  <2>1. CASE UNCHANGED job
    <3>1. Typed'
      BY <1>2, <1>3, <2>1 DEF Typed
    <3>2. (InPlace(p) /\ Tasked(p) /\ Pointed(p))'
      BY <1>2, <1>3, <2>1, DeadStay DEF InPlace, Tasked, Pointed, In, Kind
    <3>3. QED
      BY <1>1, <1>2, <2>1, <3>1, <3>2, PCalm
  <2>2. ASSUME NEW pc \in {"unlock", "done"}, Keeps(p, pc) PROVE PInv'
    <3>1. (InPlace(p) /\ Tasked(p) /\ Pointed(p))'
      BY <1>2, <1>3, <2>2 DEF InPlace, Tasked, Pointed, In, Kind, Keeps, Moved
    <3>2. QED
      BY <1>4, <2>2, <3>1 DEF PCs
  <2>3. QED
    BY <1>5, <2>1, <2>2
<1>6. job[p].pc \in PCs
  BY <1>3 DEF Typed, Jobbing
<1>7. CASE Locked(p)
  <2>1. PICK pc \in {"pick", "stopped", "stop"} :
           /\ To(p, pc)
           /\ pc = "pick" <=> Kind(p, {"delete"})
           /\ pc = "stopped" <=> Kind(p, {"live"})
    BY <1>7 DEF Locked, Kind
  <2>2. Keeps(p, pc) /\ pc \in PCs
    BY <1>3, <2>1, Moves DEF PCs
  <2>3. job[p].pc = "locking" /\ Kind(p, Creates \union {"delete"})
    BY <1>3, <1>7 DEF Locked, At, InPlace
  <2>4. (InPlace(p) /\ Tasked(p) /\ Pointed(p))'
    BY <1>2, <1>3, <2>1, <2>2, <2>3 DEF InPlace, Tasked, Pointed, In, Kind, Creates, Keeps, Moved
  <2>5. QED
    BY <1>4, <2>2, <2>4
<1>8. CASE StopServices(p) \/ Ensured(p) \/ VolumesDone(p) \/ OpenManifest(p) \/ CheckRunning(p)
  <2>1. \/ Keeps(p, "unlock")
        \/ Keeps(p, "stopped") /\ StopServices(p)
        \/ Keeps(p, "volumes") /\ (Ensured(p) \/ CheckRunning(p))
        \/ Keeps(p, "writing") /\ OpenManifest(p)
        \/ /\ Keeps(p, "manifest") /\ VolumesDone(p) /\ ~Kind(p, {"restore"})
           /\ \A v \in Vols : task[p][v] = "done"
    BY <1>3, <1>8, Moves DEF StopServices, Ensured, VolumesDone, Settled, OpenManifest, CheckRunning, PCs
  <2>2. ASSUME NEW pc \in {"stopped", "volumes", "writing", "manifest"}, Keeps(p, pc),
               \/ pc = "stopped" /\ StopServices(p)
               \/ pc = "volumes" /\ (Ensured(p) \/ CheckRunning(p))
               \/ pc = "writing" /\ OpenManifest(p)
               \/ /\ pc = "manifest" /\ VolumesDone(p) /\ ~Kind(p, {"restore"})
                  /\ \A v \in Vols : task[p][v] = "done"
        PROVE  PInv'
    <3>1. /\ StopServices(p) => job[p].pc = "stop"
          /\ Ensured(p) => job[p].pc = "stopped"
          /\ CheckRunning(p) => job[p].pc = "check"
          /\ OpenManifest(p) => job[p].pc = "manifest"
          /\ VolumesDone(p) => job[p].pc = "volumes"
      BY DEF StopServices, Ensured, VolumesDone, OpenManifest, CheckRunning, At
    <3>2. InPlace(p)'
      BY <1>3, <2>2, <3>1 DEF InPlace, Kind, Creates, Keeps, Moved
    <3>3. Tasked(p)'
      BY <1>2, <1>3, <2>2, <3>1 DEF InPlace, Tasked, In, Kind, Creates, Keeps, Moved
    <3>4. Pointed(p)'
      BY <1>2, <1>3, <2>2, <3>1, DeadStay DEF Tasked, Pointed, In, Kind, Creates, Keeps, Moved
    <3>5. QED
      BY <1>4, <2>2, <3>2, <3>3, <3>4 DEF PCs
  <2>3. QED
    BY <1>5, <1>6, <2>1, <2>2
<1>9. CASE RestartServices(p) \/ Unlocked(p) \/ Deleted(p)
  <2>1. Keeps(p, "unlock") \/ Keeps(p, "done") \/ UNCHANGED job
    BY <1>3, <1>9, Moves DEF RestartServices, Unlocked, Deleted, PCs
  <2>2. QED
    BY <1>5, <1>6, <2>1
<1>10. QED
  BY <1>7, <1>8, <1>9

(* A command that begins, or picks what it works on. *)
LEMMA PicksPInv ==
    ASSUME PInv, NEW p \in Procs, [Next]_vars, Begin(p) \/ PickRestore(p) \/ PickDelete(p)
    PROVE  PInv'
<1>1. Command(p) /\ UNCHANGED <<task, data>> /\ p \notin dead
  BY DEF Command, Begin, PickRestore, PickDelete, At
<1>2. /\ job \in [Procs -> Jobbing] /\ job[p] \in Jobbing /\ Typed
      /\ InPlace(p) /\ Tasked(p) /\ Resting(p)
      /\ FiniteTimes(DOMAIN manifests) /\ \A t \in DOMAIN manifests : Known(t)
  BY DEF PInv, Typed
<1>3. \A t : Known(t) => Known(t)'
  BY <1>1, TimesAfter
<1>4. ASSUME NEW r \in Jobbing, job' = [job EXCEPT ![p] = r], r.kind = job[p].kind,
             r.pc \in {"locking", "check", "delete", "unlock"},
             r.pc = "locking" => job[p].pc = "begin" /\ Kind(p, Creates \union {"delete"}),
             r.pc = "check" => job[p].pc = "begin" /\ Kind(p, {"restore"}),
             r.pc = "delete" => Kind(p, {"delete"}),
             r.rest = job[p].rest \/ r.rest \subseteq DOMAIN manifests
      PROVE  PInv'
  <2>1. job'[p] = r /\ job' \in [Procs -> Jobbing]
    BY <1>2, <1>4
  <2>2. Typed'
    BY <1>1, <1>2, <2>1 DEF Typed, data
  <2>3. (InPlace(p) /\ Tasked(p) /\ Pointed(p))'
    BY <1>1, <1>2, <1>4, <2>1 DEF InPlace, Tasked, Pointed, In, Kind, Creates
  <2>4. Resting(p)'
    <3>1. FiniteTimes(r.rest)
      BY <1>2, <1>4, FS_Subset DEF FiniteTimes, Resting
    <3>2. \A t \in r.rest : Known(t)
      BY <1>2, <1>4 DEF Resting
    <3>3. QED
      BY <1>3, <2>1, <3>1, <3>2 DEF Resting
  <2>5. (\A t \in DOMAIN manifests \union doomed : Known(t))'
    BY <1>1, <1>3 DEF PInv, data
  <2>6. (\A t \in DOMAIN manifests \ doomed : Whole(t))'
    BY <1>1 DEF PInv, Whole, data
  <2>7. QED
    BY <1>1, <2>2, <2>3, <2>4, <2>5, <2>6, PStep DEF data
<1>5. CASE Begin(p)
  <2> DEFINE r == [job[p] EXCEPT !.pc = "locking", !.time = IF Kind(p, Creates) THEN Now ELSE 0]
  <2>1. Now \in Nat
    BY <1>2, NowIsLater
  <2>2. r \in Jobbing /\ r.pc = "locking" /\ r.kind = job[p].kind /\ r.rest = job[p].rest
    BY <1>2, <2>1 DEF Jobbing, PCs
  <2>3. job' = [job EXCEPT ![p] = r] /\ job[p].pc = "begin" /\ Kind(p, Creates \union {"delete"})
    BY <1>2, <1>5 DEF Begin, At
  <2> HIDE DEF r
  <2>4. QED
    BY <1>4, <2>2, <2>3
<1>6. ASSUME Ends(p, "failed") PROVE PInv'
  <2> DEFINE r == [job[p] EXCEPT !.pc = "unlock", !.result = "failed"]
  <2>1. r \in Jobbing /\ r.pc = "unlock" /\ r.kind = job[p].kind /\ r.rest = job[p].rest
    BY <1>2 DEF Jobbing, PCs
  <2>2. job' = [job EXCEPT ![p] = r]
    BY <1>2, <1>6 DEF Ends
  <2> HIDE DEF r
  <2>3. QED
    BY <1>4, <2>1, <2>2
<1>7. ASSUME PickRestore(p), ~Ends(p, "failed") PROVE PInv'
  <2>1. PICK t \in DOMAIN manifests :
           job' = [job EXCEPT ![p].pc = "check", ![p].time = t,
                              ![p].cut = ~manifests[t].live /\ ~manifests[t].beside]
    BY <1>7 DEF PickRestore
  <2> DEFINE cut == ~manifests[t].live /\ ~manifests[t].beside
             r == [job[p] EXCEPT !.pc = "check", !.time = t, !.cut = cut]
  <2>2. cut \in BOOLEAN /\ t \in Nat
    BY <1>2 DEF FiniteTimes
  <2> HIDE DEF cut
  <2>3. r \in Jobbing /\ r.pc = "check" /\ r.kind = job[p].kind /\ r.rest = job[p].rest
    BY <1>2, <2>2 DEF Jobbing, PCs
  <2>4. job' = [job EXCEPT ![p] = r]
    BY <1>2, <2>1 DEF cut
  <2>5. job[p].pc = "begin" /\ Kind(p, {"restore"})
    BY <1>7 DEF PickRestore, At
  <2> HIDE DEF r
  <2>6. QED
    BY <1>4, <2>3, <2>4, <2>5
<1>8. ASSUME PickDelete(p), NEW ts \in BackupsToDelete, job' = [job EXCEPT ![p].pc = "delete", ![p].rest = ts]
      PROVE  PInv'
  <2> DEFINE r == [job[p] EXCEPT !.pc = "delete", !.rest = ts]
  <2>1. ts \subseteq DOMAIN manifests /\ ts \in SUBSET Nat
    BY <1>2 DEF BackupsToDelete, FiniteTimes
  <2>2. r \in Jobbing /\ r.pc = "delete" /\ r.kind = job[p].kind /\ r.rest = ts
    BY <1>2, <2>1 DEF Jobbing, PCs
  <2>3. job' = [job EXCEPT ![p] = r]
    BY <1>2, <1>8
  <2>4. Kind(p, {"delete"})
    BY <1>2, <1>8 DEF PickDelete, At, InPlace
  <2> HIDE DEF r
  <2>5. QED
    BY <1>4, <2>1, <2>2, <2>3, <2>4
<1>9. QED
  BY <1>5, <1>6, <1>7, <1>8 DEF PickDelete

(* A task of a volume. *)
LEMMA TasksPInv ==
    ASSUME PInv, NEW p \in Procs, NEW v \in Vols, [Next]_vars,
           \/ LockVolume(p, v) \/ CopyToMirror(p, v) \/ TakeSnapshot(p, v)
           \/ CopyBack(p, v) \/ UnlockVolume(p, v)
    PROVE  PInv'
<1>1. Command(p) /\ UNCHANGED <<job, running, manifests, doomed>>
  BY DEF Command, LockVolume, CopyToMirror, TakeSnapshot, CopyBack, UnlockVolume, data
<1>2. /\ Typed /\ InPlace(p) /\ Tasked(p) /\ Pointed(p) /\ Resting(p)
      /\ content = [w \in Vols |-> content[w]] /\ mirror = [w \in Vols |-> mirror[w]]
      /\ snaps = [w \in Vols |-> snaps[w]]
  BY DEF PInv, Typed
<1>3. /\ content' = [w \in Vols |-> content'[w]] /\ mirror' = [w \in Vols |-> mirror'[w]]
  BY <1>2 DEF LockVolume, CopyToMirror, TakeSnapshot, CopyBack, UnlockVolume, data
<1>4. /\ snaps' = [w \in Vols |-> snaps'[w]]
      /\ \A w \in Vols : DOMAIN snaps[w] \subseteq DOMAIN snaps'[w]
  <2>1. CASE UNCHANGED snaps
    BY <1>2, <2>1
  <2>2. CASE snaps' = [snaps EXCEPT ![v] = With(@, job[p].time, mirror[v])]
    BY <1>2, <2>2 DEF With
  <2>3. QED
    BY <2>1, <2>2 DEF LockVolume, CopyToMirror, TakeSnapshot, CopyBack, UnlockVolume, data
<1>5. ASSUME NEW state \in TaskStates, TaskTo(p, v, state), job[p].pc = "volumes",
             state = "copied" => Kind(p, Creates),
             state = "done" /\ Kind(p, Creates) => job[p].time \in DOMAIN snaps'[v]
      PROVE  Typed' /\ (InPlace(p) /\ Tasked(p) /\ Pointed(p))'
  <2>1. TaskMoved(p, v, state)
    BY <1>2, <1>5, TaskMoves
  <2>2. Typed'
    BY <1>1, <1>2, <1>3, <1>4, <2>1 DEF Typed, TaskMoved
  <2>3. InPlace(p)' /\ Tasked(p)'
    BY <1>1, <1>2, <1>5, <2>1 DEF InPlace, Tasked, TaskMoved, In, Kind
  <2>4. Pointed(p)'
    BY <1>1, <1>2, <1>4, <1>5, <2>1, DeadStay DEF Pointed, TaskMoved, In, Kind
  <2>5. QED
    BY <2>2, <2>3, <2>4
<1>6. Typed' /\ (InPlace(p) /\ Tasked(p) /\ Pointed(p))'
  <2>1. CASE UnlockVolume(p, v)
    BY <1>1, <1>2, <2>1, DeadStay DEF UnlockVolume, data, Typed, InPlace, Tasked, Pointed, In, Kind
  <2>2. CASE LockVolume(p, v)
    BY <1>5, <2>2 DEF LockVolume, TaskAt, At, TaskStates
  <2>3. CASE CopyToMirror(p, v)
    BY <1>5, <2>3 DEF CopyToMirror, TaskAt, At, TaskStates
  <2>4. CASE CopyBack(p, v)
    BY <1>5, <2>4 DEF CopyBack, TaskAt, At, TaskStates, Kind, Creates
  <2>5. CASE TakeSnapshot(p, v)
    <3>1. CASE TaskTo(p, v, "failed")
      BY <1>5, <2>5, <3>1 DEF TakeSnapshot, TaskAt, At, TaskStates
    <3>2. CASE TaskTo(p, v, "done") /\ snaps' = [snaps EXCEPT ![v] = With(@, job[p].time, mirror[v])]
      <4>1. job[p].time \in DOMAIN snaps'[v]
        BY <1>2, <3>2 DEF With
      <4>2. QED
        BY <1>5, <2>5, <3>2, <4>1 DEF TakeSnapshot, TaskAt, At, TaskStates
    <3>3. QED
      BY <2>5, <3>1, <3>2 DEF TakeSnapshot
  <2>6. QED
    BY <2>1, <2>2, <2>3, <2>4, <2>5
<1>7. \A t : Known(t) => Known(t)'
  BY <1>1, TimesAfter
<1>8. Resting(p)' /\ (\A t \in DOMAIN manifests \union doomed : Known(t))'
  BY <1>1, <1>2, <1>7 DEF PInv, Resting
<1>9. (\A t \in DOMAIN manifests \ doomed : Whole(t))'
  BY <1>1, <1>4 DEF PInv, Whole
<1>10. QED
  BY <1>1, <1>4, <1>6, <1>8, <1>9, PStep

(* The manifest is written, or not. *)
LEMMA CopyManifestPInv ==
    ASSUME PInv, NEW p \in Procs, [Next]_vars, CopyManifest(p)
    PROVE  PInv'
<1>1. /\ Command(p) /\ UNCHANGED <<task, running, content, mirror, snaps, doomed>>
      /\ p \notin dead /\ job[p].pc = "writing" /\ job[p].time \in Nat
      /\ InPlace(p) /\ Tasked(p) /\ Pointed(p) /\ Typed
  BY DEF Command, CopyManifest, At, PInv, Typed, Jobbing
<1>2. Kind(p, Creates) /\ \A v \in Vols : task[p][v] = "done" /\ job[p].time \in DOMAIN snaps[v]
  BY <1>1 DEF InPlace, Tasked, Pointed, In
<1>3. PICK pc \in {"restart", "unlock"} : Keeps(p, pc)
  BY <1>1, Moves DEF CopyManifest, PCs
<1>4. (InPlace(p) /\ Tasked(p) /\ Pointed(p))'
  BY <1>1, <1>2, <1>3 DEF InPlace, Tasked, Pointed, In, Kind, Keeps, Moved
<1>5. CASE UNCHANGED manifests
  <2>1. Typed'
    BY <1>1, <1>3, <1>5 DEF Typed, Keeps, Moved
  <2>2. QED
    BY <1>1, <1>3, <1>4, <1>5, <2>1, PCalm DEF Keeps
<1>6. PICK t \in Nat : t = job[p].time
  BY <1>1
<1>7. CASE manifests' = With(manifests, job[p].time,
                             [live |-> Kind(p, {"live"}), vols |-> Vols, beside |-> p \in beside])
  <2>1. /\ DOMAIN manifests' = DOMAIN manifests \union {t} /\ manifests'[t].vols = Vols
        /\ \A u \in DOMAIN manifests : u # t => manifests'[u] = manifests[u]
    BY <1>6, <1>7 DEF With
  <2>2. Typed'
    <3>1. IsFiniteSet(DOMAIN manifests \union {t}) /\ DOMAIN manifests \subseteq Nat
      BY <1>1, FS_AddElement DEF Typed, FiniteTimes
    <3>2. FiniteTimes(DOMAIN manifests')
      BY <1>1, <2>1, <3>1 DEF FiniteTimes
    <3>3. QED
      BY <1>1, <1>3, <3>2 DEF Typed, Keeps, Moved
  <2>3. \A u : Known(u) => Known(u)'
    BY <1>1, TimesAfter
  <2>4. Known(t)'
    BY <1>2, <1>3, <1>6 DEF Known, Kind, Keeps, Moved, Making
  <2>5. (\A u \in DOMAIN manifests \union doomed : Known(u))'
    BY <1>1, <2>1, <2>3, <2>4 DEF PInv
  <2>6. Resting(p)'
    BY <1>3, <2>3 DEF PInv, Resting, Keeps
  <2>7. (\A u \in DOMAIN manifests \ doomed : Whole(u))'
    BY <1>1, <1>2, <1>6, <2>1 DEF PInv, Whole
  <2>8. QED
    BY <1>1, <1>4, <2>2, <2>5, <2>6, <2>7, PStep
<1>8. QED
  BY <1>5, <1>7 DEF CopyManifest

(* A delete takes a known run, which nobody is making. *)
LEMMA DeletesPInv ==
    ASSUME PInv, NEW p \in Procs, [Next]_vars, DeleteSnapshot(p) \/ DeleteManifest(p)
    PROVE  PInv'
<1> DEFINE t == Max(job[p].rest)
<1>1. /\ Command(p) /\ UNCHANGED <<task, running, content, mirror>>
      /\ p \notin dead /\ job[p].pc = "delete" /\ job[p].rest # {}
      /\ job \in [Procs -> Jobbing] /\ job[p] \in Jobbing
      /\ InPlace(p) /\ Tasked(p) /\ Resting(p) /\ Typed
      /\ snaps = [w \in Vols |-> snaps[w]]
  BY DEF Command, DeleteSnapshot, DeleteManifest, At, PInv, Typed
<1>2. t \in job[p].rest /\ t \in Nat /\ Known(t)
  <2>1. job[p].rest \subseteq Int /\ IsFiniteSet(job[p].rest)
    BY <1>1 DEF Resting, FiniteTimes
  <2>2. t \in job[p].rest
    BY <1>1, <2>1, MaxIs
  <2>3. QED
    BY <1>1, <2>2 DEF Resting, FiniteTimes
<1>3. \A q \in Procs : In(q, Creates, {"volumes", "manifest", "writing"}) => job[q].time # t
  BY <1>2, MakingUnknown DEF In, Making
<1>4. \A u : Known(u) => Known(u)'
  BY <1>1, TimesAfter
<1>5. Kind(p, {"delete"})
  BY <1>1 DEF InPlace
<1>6. CASE DeleteSnapshot(p)
  <2>1. UNCHANGED manifests /\ doomed' = doomed \union {t}
    BY <1>6 DEF DeleteSnapshot
  <2>2. PICK pc \in {"delete", "unlock"} : Keeps(p, pc)
    BY <1>1, <1>6, Moves DEF DeleteSnapshot, PCs, Keeps, Moved
  <2>3. /\ snaps' = [w \in Vols |-> snaps'[w]]
        /\ \A w \in Vols : DOMAIN snaps[w] \ {t} \subseteq DOMAIN snaps'[w]
    <3>1. CASE UNCHANGED snaps
      BY <1>1, <3>1
    <3>2. ASSUME NEW v \in Vols, snaps' = [snaps EXCEPT ![v] = [u \in DOMAIN @ \ {t} |-> @[u]]]
          PROVE  /\ snaps' = [w \in Vols |-> snaps'[w]]
                 /\ \A w \in Vols : DOMAIN snaps[w] \ {t} \subseteq DOMAIN snaps'[w]
      BY <1>1, <3>2
    <3>3. QED
      BY <1>6, <3>1, <3>2 DEF DeleteSnapshot
  <2>4. Typed'
    <3>1. FiniteTimes(doomed')
      BY <1>1, <1>2, <2>1, FS_AddElement DEF Typed, FiniteTimes
    <3>2. QED
      BY <1>1, <2>1, <2>2, <2>3, <3>1 DEF Typed, Keeps, Moved
  <2>5. (InPlace(p) /\ Tasked(p) /\ Pointed(p))'
    BY <1>1, <1>5, <2>2 DEF InPlace, Tasked, Pointed, In, Kind, Creates, Keeps, Moved
  <2>6. Resting(p)'
    BY <1>1, <1>4, <2>2 DEF Resting, Keeps
  <2>7. (\A u \in DOMAIN manifests \union doomed : Known(u))'
    BY <1>2, <1>4, <2>1 DEF PInv
  <2>8. (\A u \in DOMAIN manifests \ doomed : Whole(u))'
    BY <2>1, <2>3 DEF PInv, Whole
  <2>9. QED
    BY <1>1, <1>3, <2>3, <2>4, <2>5, <2>6, <2>7, <2>8, PStep
<1>7. CASE DeleteManifest(p)
  <2> DEFINE r == [job[p] EXCEPT !.rest = @ \ {t}]
  <2>1. /\ UNCHANGED <<snaps, doomed>> /\ DOMAIN manifests' = DOMAIN manifests \ {t}
        /\ \A u \in DOMAIN manifests' : manifests'[u] = manifests[u]
    BY <1>7 DEF DeleteManifest
  <2>2. /\ r \in Jobbing /\ r.pc = "delete" /\ r.kind = job[p].kind
        /\ r.rest = job[p].rest \ {t}
    BY <1>1 DEF Jobbing
  <2>3. job' = [job EXCEPT ![p] = r]
    BY <1>1, <1>7 DEF DeleteManifest
  <2> HIDE DEF r
  <2>4. job'[p] = r /\ job' \in [Procs -> Jobbing]
    BY <1>1, <2>2, <2>3
  <2>5. FiniteTimes(DOMAIN manifests') /\ FiniteTimes(job[p].rest \ {t})
    <3>1. \A S : FiniteTimes(S) => FiniteTimes(S \ {t})
      BY FS_RemoveElement DEF FiniteTimes
    <3>2. QED
      BY <1>1, <2>1, <3>1 DEF Typed, Resting
  <2>6. Typed'
    BY <1>1, <2>1, <2>4, <2>5 DEF Typed
  <2>7. (InPlace(p) /\ Tasked(p) /\ Pointed(p))'
    BY <1>1, <1>5, <2>2, <2>4 DEF InPlace, Tasked, Pointed, In, Kind, Creates
  <2>8. Resting(p)'
    BY <1>1, <1>4, <2>2, <2>4, <2>5 DEF Resting
  <2>9. (\A u \in DOMAIN manifests \union doomed : Known(u))'
    BY <1>4, <2>1 DEF PInv
  <2>10. (\A u \in DOMAIN manifests \ doomed : Whole(u))'
    BY <2>1 DEF PInv, Whole
  <2>11. QED
    BY <1>1, <2>1, <2>6, <2>7, <2>8, <2>9, <2>10, PStep
<1>8. QED
  BY <1>6, <1>7

(* Every step keeps it; the locks, the services and the dead leave it. *)
LEMMA NextPInv ==
    ASSUME PInv, [Next]_vars
    PROVE  PInv'
<1>1. CASE UNCHANGED <<job, task, mirror, snaps, manifests, doomed, running>>
           /\ content' = [v \in Vols |-> content'[v]]
  <2>1. Typed'
    BY <1>1 DEF PInv, Typed
  <2>2. \A p \in Procs : (InPlace(p) /\ Tasked(p) /\ Pointed(p) /\ Resting(p))'
    BY <1>1, DeadStay DEF PInv, InPlace, Tasked, Pointed, Resting, Known, In, Kind
  <2>3. QED
    BY <1>1, <2>1, <2>2 DEF PInv, Distinct, Known, Whole, Kind
<1>2. ASSUME NEW p \in Procs, Command(p) PROVE PInv'
  BY <1>2, JobsPInv, PicksPInv, TasksPInv, CopyManifestPInv, DeletesPInv DEF Command
<1>3. ASSUME NEW v \in Vols, Write(v)
      PROVE  UNCHANGED <<job, task, mirror, snaps, manifests, doomed, running>>
             /\ content' = [w \in Vols |-> content'[w]]
  BY <1>3 DEF Write, PInv, Typed
<1>4. UNCHANGED <<job, task, data>> \/ (\E v \in Vols : Write(v)) \/ \E p \in Procs : Command(p)
  BY DEF Next, Waiting, Beside, vars
<1>5. UNCHANGED data => /\ UNCHANGED <<mirror, snaps, manifests, doomed, running>>
                        /\ content' = [v \in Vols |-> content'[v]]
  BY DEF data, PInv, Typed
<1>6. QED
  BY <1>1, <1>2, <1>3, <1>4, <1>5

(* At first no run is in the making. *)
LEMMA InitPInv == Init => PInv
<1> SUFFICES ASSUME Init PROVE PInv
  OBVIOUS
<1>1. IInv
  BY InitIInv
<1>2. PICK k \in Jobs : job = [p \in Procs |-> NewJob(k[p])]
  BY DEF Init
<1>3. \A p \in Procs : job[p].pc = "begin" /\ job[p].rest = {}
  BY <1>2 DEF NewJob
<1>4. Distinct /\ \A p \in Procs : Pointed(p) /\ Resting(p)
  BY <1>3, FS_EmptySet DEF Distinct, Pointed, Resting, FiniteTimes, In
<1>5. /\ \A t \in DOMAIN manifests \union doomed : Known(t)
      /\ \A t \in DOMAIN manifests \ doomed : Whole(t)
  BY DEF Init, Known, Whole
<1>6. QED
  BY <1>1, <1>4, <1>5 DEF PInv, IInv, Works

(* A run whose manifest is whole can be restored, until a delete of it     *)
(* begins: whatever was killed or failed on the way, and whoever else      *)
(* holds the locks, every volume has its restore point.                    *)
THEOREM ListedIsRestorable == Spec => []Restorable
<1>1. PInv => Restorable
  BY DEF PInv, Whole, Restorable, VerifyStatus
<1>2. PInv /\ [Next]_vars => PInv'
  BY NextPInv
<1>3. QED
  BY InitPInv, <1>1, <1>2, PTL DEF Spec

-----------------------------------------------------------------------------
(* A restore.  The restore points of a run that is one cut agree as long   *)
(* as there are any, for whoever picked the run, and what has been put     *)
(* back of it agrees with those and stays, unless something came between.  *)
Agrees(t) ==
    \A v, w \in Vols : t \in DOMAIN snaps[v] /\ t \in DOMAIN snaps[w] => snaps[v][t] = snaps[w][t]

Restores(p, pcs) == In(p, {"restore"}, pcs)

Unfinished(p) == job[p].pc \notin {"unlock", "done"} => job[p].result = "none"

Old(t) == \A q \in Procs : Kind(q, Creates) /\ job[q].pc \in Making => job[q].time # t

Picked(p) == Restores(p, {"check", "volumes"}) =>
    Old(job[p].time) /\ (job[p].cut => Agrees(job[p].time))

PutBack(p) == Restores(p, {"volumes"}) /\ p \notin beside =>
    /\ ~running
    /\ job[p].cut => \A v, w \in Vols : task[p][v] = "done" =>
          /\ job[p].time \in DOMAIN snaps[w] => snaps[w][job[p].time] = content[v]
          /\ task[p][w] = "done" => content[w] = content[v]

RInv ==
    /\ \A p \in Procs : Unfinished(p) /\ Picked(p) /\ PutBack(p)
    /\ \A t \in DOMAIN manifests : ~manifests[t].live /\ ~manifests[t].beside => Agrees(t)

(* No time is taken twice: one that no command is making stays so.         *)
LEMMA OldStays ==
    ASSUME IInv, [Next]_vars, NEW t, Old(t), \E q \in Procs : job[q].time = t
    PROVE  Old(t)'
<1>1. CASE \E p \in Procs : Command(p)
  <2>1. PICK p \in Procs : Command(p)
    BY <1>1
  <2>2. ASSUME NEW q \in Procs, Kind(q, Creates)', job'[q].pc \in Making PROVE job'[q].time # t
    <3>1. CASE q = p
      BY <2>1, <2>2, <3>1, Makes, NowIsLater DEF Old, Kind, IInv, Works
    <3>2. CASE q # p
      BY <2>1, <2>2, <3>2, OnlyOne DEF Old, Kind, IInv
    <3>3. QED
      BY <3>1, <3>2
  <2>3. QED
    BY <2>2 DEF Old
<1>2. CASE UNCHANGED job
  BY <1>2 DEF Old, Kind
<1>3. QED
  BY <1>1, <1>2 DEF Next, Waiting, Beside, Write, vars

(* The restore points of a time that no command is making only go. *)
LEMMA OldSnaps ==
    ASSUME IInv, [Next]_vars, NEW t, Old(t)
    PROVE  \A v \in Vols : t \in DOMAIN snaps'[v] => t \in DOMAIN snaps[v] /\ snaps'[v][t] = snaps[v][t]
<1>1. snaps = [v \in Vols |-> snaps[v]]
  BY DEF IInv, Typed
<1>2. CASE UNCHANGED snaps
  BY <1>2
<1>3. ASSUME NEW p \in Procs, NEW v \in Vols, TakeSnapshot(p, v)
      PROVE  \A w \in Vols : t \in DOMAIN snaps'[w] => t \in DOMAIN snaps[w] /\ snaps'[w][t] = snaps[w][t]
  <2>1. job[p].time # t
    BY <1>3 DEF TakeSnapshot, TaskAt, At, IInv, Works, Tasked, Old, Making
  <2>2. UNCHANGED snaps \/ snaps' = [snaps EXCEPT ![v] = With(@, job[p].time, mirror[v])]
    BY <1>3 DEF TakeSnapshot
  <2>3. QED
    BY <1>1, <1>2, <2>1, <2>2 DEF With
<1>4. ASSUME NEW p \in Procs, DeleteSnapshot(p)
      PROVE  \A w \in Vols : t \in DOMAIN snaps'[w] => t \in DOMAIN snaps[w] /\ snaps'[w][t] = snaps[w][t]
  <2> DEFINE u == Max(job[p].rest)
  <2>1. UNCHANGED snaps \/ \E v \in Vols : snaps' = [snaps EXCEPT ![v] = [x \in DOMAIN @ \ {u} |-> @[x]]]
    BY <1>4 DEF DeleteSnapshot
  <2> HIDE DEF u
  <2>2. ASSUME NEW v \in Vols, snaps' = [snaps EXCEPT ![v] = [x \in DOMAIN @ \ {u} |-> @[x]]]
        PROVE  \A w \in Vols : t \in DOMAIN snaps'[w] => t \in DOMAIN snaps[w] /\ snaps'[w][t] = snaps[w][t]
    BY <1>1, <2>2
  <2>3. QED
    BY <1>2, <2>1, <2>2
<1>5. UNCHANGED snaps \/ \E p \in Procs : DeleteSnapshot(p) \/ \E v \in Vols : TakeSnapshot(p, v)
  <2>1. ASSUME NEW p \in Procs, Command(p), ~DeleteSnapshot(p), \A v \in Vols : ~TakeSnapshot(p, v)
        PROVE  UNCHANGED snaps
    BY <2>1 DEF Command, Begin, Locked, StopServices, Ensured, LockVolume, CopyToMirror, CopyBack,
       UnlockVolume, VolumesDone, OpenManifest, CopyManifest, RestartServices, Unlocked, PickRestore,
       CheckRunning, PickDelete, DeleteManifest, Deleted, data
  <2>2. UNCHANGED snaps \/ \E p \in Procs : Command(p)
    BY DEF Next, Waiting, Beside, Write, vars, data
  <2>3. QED
    BY <2>1, <2>2
<1>6. QED
  BY <1>2, <1>3, <1>4, <1>5

(* While a restore that nothing came between puts volumes back, nobody     *)
(* else changes what the volumes hold.                                     *)
LEMMA Undisturbed ==
    ASSUME IInv, [Next]_vars, NEW p \in Procs, Restores(p, {"volumes"}), p \notin beside'
    PROVE  /\ p \notin beside
           /\ ~running => ~running' /\ (content' = content \/ \E v \in Vols : CopyBack(p, v))
<1>1. job[p].pc = "volumes" /\ Kind(p, {"restore"}) /\ content = [v \in Vols |-> content[v]]
  BY DEF Restores, In, IInv, Typed
<1>2. CASE UNCHANGED <<running, content, beside>>
  BY <1>2
<1>3. CASE \E v \in Vols : Write(v)
  BY <1>3 DEF Write
<1>4. ASSUME NEW q \in Procs, StopServices(q)
      PROVE  /\ p \notin beside
             /\ ~running => ~running' /\ content' = content
  <2>1. UNCHANGED beside
    BY <1>4 DEF StopServices
  <2>2. \/ UNCHANGED <<running, content>>
        \/ /\ running' = FALSE
           /\ content' = [v \in Vols |-> IF running THEN Max({content[w] : w \in Vols}) ELSE content[v]]
    BY <1>4 DEF StopServices
  <2>3. ~running => content' = content
    BY <1>1, <2>2
  <2>4. QED
    BY <2>1, <2>2, <2>3
<1>5. ASSUME NEW q \in Procs, Ensured(q) \/ CheckRunning(q)
      PROVE  p \notin beside /\ UNCHANGED <<running, content>>
  <2>1. q # p
    BY <1>1, <1>5 DEF Ensured, CheckRunning, At
  <2>2. QED
    BY <1>5, <2>1 DEF Ensured, CheckRunning
<1>6. ASSUME NEW q \in Procs, NEW v \in Vols, CopyBack(q, v)
      PROVE  /\ p \notin beside
             /\ ~running => ~running' /\ (content' = content \/ q = p)
  <2>1. UNCHANGED running /\ (UNCHANGED <<content, beside>> \/ beside' = Disturbs(q))
    BY <1>6 DEF CopyBack
  <2>2. QED
    BY <1>1, <2>1 DEF Disturbs
<1>7. ASSUME NEW q \in Procs, RestartServices(q)
      PROVE  UNCHANGED <<running, content, beside>>
  <2>1. q # p /\ UNCHANGED content
    BY <1>1, <1>7 DEF RestartServices, At
  <2>2. beside' # Disturbs(q)
    BY <1>1, <2>1 DEF Disturbs
  <2>3. QED
    BY <1>7, <2>1, <2>2 DEF RestartServices
<1>8. ASSUME NEW q \in Procs, Command(q), ~StopServices(q), ~Ensured(q), ~CheckRunning(q), ~RestartServices(q),
             \A v \in Vols : ~CopyBack(q, v)
      PROVE  UNCHANGED <<running, content, beside>>
  BY <1>8 DEF Command, Begin, Locked, LockVolume, CopyToMirror, TakeSnapshot, UnlockVolume, VolumesDone,
     OpenManifest, CopyManifest, Unlocked, PickRestore, PickDelete, DeleteSnapshot, DeleteManifest, Deleted, data
<1>9. \/ UNCHANGED <<running, content, beside>> \/ \E v \in Vols : Write(v)
      \/ \E q \in Procs : Command(q)
  BY DEF Next, Waiting, Beside, vars, data
<1>10. QED
  BY <1>2, <1>3, <1>4, <1>5, <1>6, <1>7, <1>8, <1>9

(* What a restore itself does while it is one. *)
LEMMA RestoreStep ==
    ASSUME IInv, [Next]_vars, NEW p \in Procs, Restores(p, {"check", "volumes"})'
    PROVE  \/ UNCHANGED <<job[p], task[p]>> /\ (\A v \in Vols : ~CopyBack(p, v)) /\ Restores(p, {job[p].pc})
           \/ PickRestore(p) \/ CheckRunning(p)
           \/ \E v \in Vols : LockVolume(p, v) \/ CopyBack(p, v)
<1>1. dead \subseteq dead'
  <2>1. [LockNext]_lockVars
    BY NextLocks
  <2>2. QED
    BY <2>1 DEF LockNext, lockVars, AskLock, Acquiring, Create, Stamp, SeeStale, Reap, StampFails, Refresh,
       ReadOwner, Remove, Ages, Crash
<1>2. /\ p \notin dead /\ InPlace(p) /\ Tasked(p) /\ job[p] \in Jobbing /\ job \in [Procs -> Jobbing]
      /\ task \in [Procs -> [Vols -> TaskStates]]
      /\ job'[p].kind = "restore" /\ job'[p].pc \in {"check", "volumes"}
  BY <1>1 DEF Restores, In, Kind, IInv, Works, Typed
<1>3. ASSUME NEW v \in Vols, CopyBack(p, v) PROVE task'[p] # task[p]
  <2>1. task[p][v] = "locking" /\ \E state \in {"done", "failed"} : TaskTo(p, v, state)
    BY <1>3 DEF CopyBack, TaskAt
  <2>2. QED
    BY <1>2, <2>1 DEF TaskTo
<1>4. CASE ~Command(p)
  <2>1. UNCHANGED <<job[p], task[p]>>
    <3>1. CASE \E q \in Procs : Command(q)
      BY <1>4, <3>1, OnlyOne DEF IInv
    <3>2. CASE UNCHANGED <<job, task>>
      BY <3>2
    <3>3. QED
      BY <3>1, <3>2 DEF Next, Waiting, Beside, Write, vars
  <2>2. QED
    BY <1>2, <1>3, <2>1 DEF Restores, In, Kind
<1>5. CASE Command(p)
  <2>1. Kind(p, {"restore"})
    BY <1>2, <1>5, Makes DEF Kind, IInv, Works
  <2>2. ~Kind(p, Creates) /\ ~Kind(p, {"delete"}) /\ ~Kind(p, {"create"})
    BY <2>1 DEF Kind, Creates
  <2>3. job[p].pc \notin {"locking", "stop", "stopped", "manifest", "writing", "restart", "pick", "delete"}
    BY <1>2, <2>2 DEF InPlace, Kind, Creates
  <2>4. ~Begin(p) /\ ~Locked(p) /\ ~StopServices(p) /\ ~Ensured(p) /\ ~OpenManifest(p) /\ ~CopyManifest(p) /\ ~RestartServices(p)
        /\ ~PickDelete(p) /\ ~DeleteSnapshot(p) /\ ~DeleteManifest(p) /\ ~Deleted(p)
    BY <2>2, <2>3 DEF Begin, Locked, StopServices, Ensured, OpenManifest, CopyManifest, RestartServices, PickDelete,
       DeleteSnapshot, DeleteManifest, Deleted, At, Kind, Creates
  <2>5. ASSUME NEW v \in Vols PROVE ~CopyToMirror(p, v) /\ ~TakeSnapshot(p, v)
    BY <1>2, <2>2 DEF CopyToMirror, TakeSnapshot, TaskAt, Tasked
  <2>6. ~VolumesDone(p)
    BY <1>2, Moves DEF VolumesDone, Keeps, Moved, IInv, PCs
  <2>7. CASE Unlocked(p) \/ \E v \in Vols : UnlockVolume(p, v)
    <3>1. UNCHANGED <<job[p], task[p]>>
      BY <1>2, <2>7, Moves DEF Unlocked, UnlockVolume, Keeps, Moved, IInv, PCs
    <3>2. QED
      BY <1>2, <1>3, <3>1 DEF Restores, In, Kind
  <2>8. QED
    BY <1>5, <2>4, <2>5, <2>6, <2>7 DEF Command
<1>6. QED
  BY <1>4, <1>5

(* A command has no result before it unlocks, and then never moves back;   *)
(* in the middle of its volumes only their end gives it one.               *)
LEMMA ResultKept ==
    ASSUME IInv, NEW p \in Procs, Command(p)
    PROVE  /\ job'[p].pc = "unlock" \/ job'[p].result = job[p].result
           /\ job[p].pc \in {"unlock", "done"} => job'[p].pc \in {"unlock", "done"}
           /\ job[p].pc = "volumes" => VolumesDone(p) \/ UNCHANGED job
<1>1. job \in [Procs -> Jobbing] /\ job[p] \in Jobbing
  BY DEF IInv, Typed
<1>2. ASSUME NEW pc, To(p, pc) PROVE job'[p].result = job[p].result /\ job'[p].pc = pc
  BY <1>1, <1>2 DEF To, Jobbing
<1>3. ASSUME NEW result, Ends(p, result) PROVE job'[p].pc = "unlock"
  BY <1>1, <1>3 DEF Ends, Jobbing
<1>4. CASE UNCHANGED job
  BY <1>4
<1>5. CASE \E v \in Vols : LockVolume(p, v) \/ CopyToMirror(p, v) \/ TakeSnapshot(p, v)
                           \/ CopyBack(p, v) \/ UnlockVolume(p, v)
  BY <1>4, <1>5 DEF LockVolume, CopyToMirror, TakeSnapshot, CopyBack, UnlockVolume
<1>6. CASE Locked(p) \/ StopServices(p) \/ Ensured(p) \/ VolumesDone(p) \/ OpenManifest(p) \/ CopyManifest(p)
           \/ RestartServices(p) \/ Deleted(p) \/ CheckRunning(p) \/ Unlocked(p)
  BY <1>2, <1>3, <1>4, <1>6 DEF Locked, StopServices, Ensured, VolumesDone, OpenManifest, CopyManifest, RestartServices, Deleted,
     CheckRunning, Unlocked, At
<1>7. CASE PickRestore(p)
  <2>1. CASE Ends(p, "failed")
    BY <1>3, <1>7, <2>1 DEF PickRestore, At
  <2>2. CASE ~Ends(p, "failed")
    <3>1. PICK t, cut : job' = [job EXCEPT ![p].pc = "check", ![p].time = t, ![p].cut = cut]
      BY <1>7, <2>2 DEF PickRestore
    <3>2. QED
      BY <1>1, <1>7, <3>1 DEF PickRestore, At, Jobbing
  <2>3. QED
    BY <2>1, <2>2
<1>8. CASE Begin(p)
  BY <1>1, <1>8 DEF Begin, At, Jobbing
<1>9. CASE PickDelete(p)
  <2>1. CASE Ends(p, "failed")
    BY <1>3, <1>9, <2>1 DEF PickDelete, At
  <2>2. CASE \E ts : job' = [job EXCEPT ![p].pc = "delete", ![p].rest = ts]
    <3>1. job[p].pc = "pick"
      BY <1>9 DEF PickDelete, At
    <3>2. job'[p].result = job[p].result
      BY <1>1, <2>2 DEF Jobbing
    <3>3. QED
      BY <3>1, <3>2
  <2>3. QED
    BY <1>9, <2>1, <2>2 DEF PickDelete
<1>10. CASE DeleteManifest(p)
  BY <1>1, <1>10 DEF DeleteManifest, At, Jobbing
<1>11. CASE DeleteSnapshot(p)
  <2>1. UNCHANGED job \/ Ends(p, "failed")
    BY <1>11 DEF DeleteSnapshot
  <2>2. QED
    BY <1>3, <1>4, <1>11, <2>1 DEF DeleteSnapshot, At
<1>12. QED
  BY <1>5, <1>6, <1>7, <1>8, <1>9, <1>10, <1>11 DEF Command

(* The runs that are listed agree: a new one is one cut, and of the others *)
(* restore points only go.                                                 *)
LEMMA ListedAgree ==
    ASSUME IInv, IInv', RInv, [Next]_vars, NEW t \in DOMAIN manifests',
           ~manifests'[t].live, ~manifests'[t].beside
    PROVE  Agrees(t)'
<1>1. ASSUME t \in DOMAIN manifests, manifests'[t] = manifests[t] PROVE Agrees(t)'
  <2>1. Agrees(t)
    BY <1>1 DEF RInv
  <2>2. Old(t)
    BY <1>1 DEF IInv, Works, OwnTime, Old, Making
  <2>3. QED
    BY <2>1, <2>2, OldSnaps DEF Agrees
<1>2. ASSUME NEW p \in Procs, CopyManifest(p), t \notin DOMAIN manifests \/ manifests'[t] # manifests[t]
      PROVE  Agrees(t)'
  <2>1. t = job[p].time /\ UNCHANGED doomed
    BY <1>2 DEF OpenManifest, CopyManifest, With
  <2>2. t \notin doomed
    BY <1>2, <2>1 DEF OpenManifest, CopyManifest, At, IInv, Works, OwnTime, InPlace, Making
  <2>3. Listed(t)'
    BY <2>1, <2>2 DEF IInv
  <2>4. QED
    BY <2>3 DEF Listed, OneCut, Agrees
<1>3. ASSUME NEW p \in Procs, Command(p), ~CopyManifest(p), ~DeleteManifest(p)
      PROVE  UNCHANGED manifests
  BY <1>3 DEF Command, OpenManifest, Begin, Locked, StopServices, Ensured, LockVolume, CopyToMirror, TakeSnapshot, CopyBack,
     UnlockVolume, VolumesDone, RestartServices, Unlocked, PickRestore,
     CheckRunning, PickDelete, DeleteSnapshot, Deleted, data
<1>4. ASSUME NEW p \in Procs, DeleteManifest(p)
      PROVE  t \in DOMAIN manifests /\ manifests'[t] = manifests[t]
  BY <1>4 DEF DeleteManifest
<1>5. UNCHANGED manifests \/ \E p \in Procs : Command(p)
  BY DEF Next, Waiting, Beside, Write, vars, data
<1>6. QED
  BY <1>1, <1>2, <1>3, <1>4, <1>5

(* A run that was picked stays as it was, but for restore points that go. *)
LEMMA PickedStays ==
    ASSUME IInv, RInv, [Next]_vars, NEW p \in Procs, Restores(p, {"check", "volumes"}),
           job'[p].time = job[p].time, job'[p].cut = job[p].cut
    PROVE  Picked(p)'
<1>1. Old(job[p].time) /\ (job[p].cut => Agrees(job[p].time))
  BY DEF RInv, Picked
<1>2. Old(job[p].time)'
  <2> DEFINE t == job[p].time
  <2>1. PICK u : u = t
    OBVIOUS
  <2>2. Old(u)'
    BY <1>1, <2>1, OldStays
  <2>3. QED
    BY <2>1, <2>2 DEF Old, Kind
<1>3. \A v \in Vols : job[p].time \in DOMAIN snaps'[v] =>
         job[p].time \in DOMAIN snaps[v] /\ snaps'[v][job[p].time] = snaps[v][job[p].time]
  BY <1>1, OldSnaps
<1>4. job[p].cut => Agrees(job[p].time)'
  BY <1>1, <1>3 DEF Agrees
<1>5. QED
  BY <1>2, <1>4 DEF Picked, Old, Agrees, Kind

(* What a restore has picked. *)
LEMMA NextPicked ==
    ASSUME IInv, RInv, [Next]_vars, NEW p \in Procs
    PROVE  Picked(p)'
<1> SUFFICES ASSUME Restores(p, {"check", "volumes"})' PROVE Picked(p)'
  BY DEF Picked
<1>1. job \in [Procs -> Jobbing] /\ job[p] \in Jobbing
  BY DEF IInv, Typed
<1>2. CASE UNCHANGED job[p] /\ Restores(p, {job[p].pc})
  BY <1>2, PickedStays DEF Restores, In
<1>3. CASE CheckRunning(p)
  <2>1. To(p, "volumes") \/ Ends(p, "refused")
    BY <1>3 DEF CheckRunning
  <2>2. job'[p].time = job[p].time /\ job'[p].cut = job[p].cut
    BY <1>1, <2>1 DEF To, Ends, Jobbing
  <2>3. Restores(p, {"check", "volumes"})
    BY <1>3 DEF CheckRunning, At, Restores, In, IInv, Works, InPlace
  <2>4. QED
    BY <2>2, <2>3, PickedStays
<1>4. CASE \E v \in Vols : LockVolume(p, v) \/ CopyBack(p, v)
  <2>1. UNCHANGED <<job, dead>> /\ p \notin dead
    BY <1>4 DEF LockVolume, CopyBack, TaskAt, At, AskLock, Lasting, lockVars
  <2>2. Restores(p, {"check", "volumes"})
    BY <2>1 DEF Restores, In, Kind
  <2>3. QED
    BY <2>1, <2>2, PickedStays
<1>5. CASE PickRestore(p)
  <2>1. ~Ends(p, "failed")
    BY <1>1 DEF Ends, Restores, In, Jobbing
  <2>2. PICK t \in DOMAIN manifests :
           job' = [job EXCEPT ![p].pc = "check", ![p].time = t,
                              ![p].cut = ~manifests[t].live /\ ~manifests[t].beside]
    BY <1>5, <2>1 DEF PickRestore
  <2>3. UNCHANGED snaps /\ Kind(p, {"restore"})
    BY <1>5 DEF PickRestore, data
  <2>4. job'[p].time = t /\ job'[p].kind = "restore" /\ (job'[p].cut => ~manifests[t].live /\ ~manifests[t].beside)
    BY <1>1, <2>2, <2>3 DEF Jobbing, Kind
  <2>5. \A q \in Procs : q # p => job'[q] = job[q]
    BY <1>1, <2>2
  <2>6. Old(t)
    BY DEF IInv, Works, OwnTime, Old, Making
  <2>7. Old(t)'
    BY <2>4, <2>5, <2>6 DEF Old, Kind, Creates
  <2>8. job'[p].cut => Agrees(t)'
    BY <2>3, <2>4 DEF RInv, Agrees
  <2>9. QED
    BY <2>4, <2>7, <2>8 DEF Picked, Old, Agrees, Kind
<1>6. QED
  BY <1>2, <1>3, <1>4, <1>5, RestoreStep

(* What a restore has put back: a volume at a time, each from the same cut. *)
LEMMA NextPutBack ==
    ASSUME IInv, RInv, [Next]_vars, NEW p \in Procs
    PROVE  PutBack(p)'
<1> SUFFICES ASSUME Restores(p, {"volumes"})', p \notin beside' PROVE PutBack(p)'
  BY DEF PutBack
<1>1. /\ job \in [Procs -> Jobbing] /\ job[p] \in Jobbing /\ content = [v \in Vols |-> content[v]]
      /\ task \in [Procs -> [Vols -> TaskStates]]
  BY DEF IInv, Typed
<1> DEFINE T == job[p].time
<1>2. ASSUME Restores(p, {"volumes"})
      PROVE  /\ p \notin beside /\ ~running /\ ~running'
             /\ content' = content \/ \E v \in Vols : CopyBack(p, v)
             /\ \A v \in Vols : T \in DOMAIN snaps'[v] => T \in DOMAIN snaps[v] /\ snaps'[v][T] = snaps[v][T]
  <2>1. p \notin beside
    BY <1>2, Undisturbed
  <2>2. ~running
    BY <1>2, <2>1 DEF RInv, PutBack
  <2>3. Old(T)
    BY <1>2 DEF RInv, Picked, Restores, In
  <2>4. QED
    BY <1>2, <2>1, <2>2, <2>3, Undisturbed, OldSnaps
<1>3. CASE /\ UNCHANGED <<job[p], task[p]>> /\ (\A v \in Vols : ~CopyBack(p, v)) /\ Restores(p, {job[p].pc})
  <2>1. Restores(p, {"volumes"})
    BY <1>3 DEF Restores, In
  <2>2. QED
    BY <1>2, <1>3, <2>1 DEF RInv, PutBack
<1>4. CASE PickRestore(p)
  <2>1. CASE Ends(p, "failed")
    BY <1>1, <2>1 DEF Ends, Restores, In, Jobbing
  <2>2. CASE ~Ends(p, "failed")
    <3>1. PICK t, cut : job' = [job EXCEPT ![p].pc = "check", ![p].time = t, ![p].cut = cut]
      BY <1>4, <2>2 DEF PickRestore
    <3>2. job'[p].pc = "check"
      BY <1>1, <3>1 DEF Jobbing
    <3>3. QED
      BY <3>2 DEF Restores, In
  <2>3. QED
    BY <2>1, <2>2
<1>5. CASE CheckRunning(p)
  <2>1. ~Ends(p, "refused")
    BY <1>1 DEF Ends, Restores, In, Jobbing
  <2>2. ~running /\ UNCHANGED <<running, task>> /\ job[p].pc = "check"
    BY <1>5, <2>1 DEF CheckRunning, runningInstances, At
  <2>3. \A v \in Vols : task'[p][v] = "todo"
    BY <2>2 DEF IInv, Works, Tasked
  <2>4. QED
    BY <2>2, <2>3 DEF PutBack
<1>6. ASSUME NEW v \in Vols, LockVolume(p, v) PROVE PutBack(p)'
  <2>1. /\ UNCHANGED <<job, content>> /\ task' = [task EXCEPT ![p][v] = "locking"]
        /\ Restores(p, {"volumes"})
    BY <1>6 DEF LockVolume, TaskAt, TaskTo, At, AskLock, data, Restores, In, Kind
  <2>2. \A w \in Vols : task'[p][w] = "done" => task[p][w] = "done"
    BY <1>1, <2>1
  <2>3. QED
    BY <1>2, <2>1, <2>2 DEF RInv, PutBack
<1>7. ASSUME NEW v \in Vols, CopyBack(p, v) PROVE PutBack(p)'
  <2>1. /\ UNCHANGED <<job, snaps>> /\ Restores(p, {"volumes"}) /\ task[p][v] = "locking"
    BY <1>7 DEF CopyBack, TaskAt, At, Restores, In, Kind, Lasting
  <2>2. PICK state \in {"done", "failed"} : TaskTo(p, v, state)
    BY <1>7 DEF CopyBack
  <2>3. task'[p][v] = state /\ \A w \in Vols : w # v => task'[p][w] = task[p][w]
    BY <1>1, <2>2 DEF TaskTo
  <2>4. /\ \A w \in Vols : w # v => content'[w] = content[w]
        /\ state = "done" => T \in DOMAIN snaps[v] /\ content'[v] = snaps[v][T]
    BY <1>1, <1>7, <2>3 DEF CopyBack, TaskTo
  <2>5. ~running'
    BY <1>2, <2>1
  <2>6. ASSUME job[p].cut, NEW u \in Vols, NEW w \in Vols, task'[p][u] = "done"
        PROVE  /\ T \in DOMAIN snaps[w] => snaps[w][T] = content'[u]
               /\ task'[p][w] = "done" => content'[w] = content'[u]
    <3>1. Agrees(T)
      BY <2>1, <2>6 DEF RInv, Picked, Restores, In
    <3>2. \A x, y \in Vols : task[p][x] = "done" =>
             /\ T \in DOMAIN snaps[y] => snaps[y][T] = content[x]
             /\ task[p][y] = "done" => content[y] = content[x]
      BY <1>2, <2>1, <2>6 DEF RInv, PutBack
    <3>3. CASE u = v /\ w = v
      BY <2>3, <2>4, <2>6, <3>3
    <3>4. CASE u = v /\ w # v
      BY <2>3, <2>4, <2>6, <3>1, <3>2, <3>4 DEF Agrees
    <3>5. CASE u # v /\ w = v
      BY <2>3, <2>4, <2>6, <3>2, <3>5
    <3>6. CASE u # v /\ w # v
      BY <2>3, <2>4, <2>6, <3>2, <3>6
    <3>7. QED
      BY <3>3, <3>4, <3>5, <3>6
  <2>7. QED
    BY <2>1, <2>5, <2>6 DEF PutBack
<1>8. QED
  <2>1. Restores(p, {"check", "volumes"})'
    BY DEF Restores, In
  <2>2. QED
    BY <1>3, <1>4, <1>5, <1>6, <1>7, <2>1, RestoreStep

(* Every step keeps what restores count on. *)
LEMMA NextRInv ==
    ASSUME IInv, IInv', RInv, [Next]_vars
    PROVE  RInv'
<1>1. ASSUME NEW p \in Procs PROVE Unfinished(p)'
  <2>1. CASE Command(p)
    BY <2>1, ResultKept DEF RInv, Unfinished
  <2>2. CASE ~Command(p)
    <3>1. job'[p] = job[p]
      BY <2>2, OnlyOne DEF Next, Waiting, Beside, Write, vars, IInv
    <3>2. QED
      BY <3>1 DEF RInv, Unfinished
  <2>3. QED
    BY <2>1, <2>2
<1>2. QED
  BY <1>1, NextPicked, NextPutBack, ListedAgree DEF RInv

(* What restores and lists rest on holds at first. *)
LEMMA InitRInv == Init => RInv
<1> SUFFICES ASSUME Init PROVE RInv
  OBVIOUS
<1>1. IInv
  BY InitIInv
<1>2. PICK k \in Jobs : job = [p \in Procs |-> NewJob(k[p])]
  BY DEF Init
<1>3. \A p \in Procs : job[p].pc = "begin" /\ job[p].result = "none"
  BY <1>2 DEF NewJob
<1>4. \A p \in Procs : Unfinished(p) /\ Picked(p) /\ PutBack(p)
  BY <1>3 DEF Unfinished, Picked, PutBack, Restores, In
<1>5. \A t \in DOMAIN manifests : Agrees(t)
  BY DEF Init, Agrees
<1>6. QED
  BY <1>4, <1>5 DEF RInv

(* A restore that says it is done has put every volume back, from one cut, *)
(* even where a delete took restore points away under it: where no two     *)
(* waiters can find the same dead holder's record.                         *)
THEOREM RestoresWhole ==
    ASSUME Unraced
    PROVE  Spec => RestoredWhole
<1> DEFINE A == \A p \in Procs :
                    /\ job[p].pc = "volumes" /\ Kind(p, {"restore"}) /\ job[p].cut
                    /\ job'[p].result = "ok" /\ p \notin beside
                    => OneCut(content)
<1>1. IInv /\ RInv /\ [Next]_vars => A
  <2> SUFFICES ASSUME IInv, RInv, [Next]_vars, NEW p \in Procs,
                      job[p].pc = "volumes", Kind(p, {"restore"}), job[p].cut,
                      job'[p].result = "ok", p \notin beside
               PROVE  OneCut(content)
    OBVIOUS
  <2>1. job[p].result = "none"
    BY DEF RInv, Unfinished
  <2>2. Command(p)
    BY <2>1, OnlyOne DEF Next, Waiting, Beside, Write, vars, IInv
  <2>3. VolumesDone(p)
    BY <2>1, <2>2, ResultKept
  <2>4. p \notin dead /\ \A v \in Vols : task[p][v] = "done"
    <3>1. p \notin dead /\ \A v \in Vols : task[p][v] \in {"done", "failed"}
      BY <2>3 DEF VolumesDone, At, Settled
    <3>2. job'[p].result # "ok" \/ \A v \in Vols : task[p][v] # "failed"
      BY <2>3 DEF VolumesDone, Ends, IInv, Typed, Jobbing
    <3>3. QED
      BY <3>1, <3>2
  <2>5. QED
    BY <2>4 DEF RInv, PutBack, Restores, In, OneCut
<1>2. IInv /\ Spares /\ [Next]_vars => IInv' /\ Spares'
  BY NextIInv
<1>3. IInv /\ IInv' /\ RInv /\ [Next]_vars => RInv'
  BY NextRInv
<1>4. Init => Spares
  BY InitSpares DEF Init
<1>5. QED
  BY InitIInv, InitRInv, <1>1, <1>2, <1>3, <1>4, PTL DEF Spec, RestoredWhole

=============================================================================
