------------------------------- MODULE Images -------------------------------
(***************************************************************************)
(* One image reference, ensured by commands of several projects and        *)
(* platforms at once.  Each project has its own copy under one alias; the  *)
(* cache project is shared and holds one alias per platform, filled under  *)
(* that alias's lock (hop A) and copied to the project outside it (hop B). *)
(* The lock is the abstract one: VolumeLock implements it.                 *)
(*                                                                         *)
(* An image is its fingerprint, what it was made from: an architecture, a  *)
(* revision of the source, and who made it.  Deleting an image takes every *)
(* alias of its project that names it.                                     *)
(***************************************************************************)
EXTENDS Naturals

CONSTANTS
    Procs,
    Projects,
    Archs,           \* architectures, and the platforms the cache is keyed by
    Fold,            \* Archs -> the label incusd gives a pulled OCI image
    Protocols,       \* of the image's remote; "none" has no known source
    Seeds,           \* where an earlier run may have left its copies
    Jobs,            \* what the processes do: Procs -> [kind, arch, project]
    MaxRev,          \* revisions of the source
    MaxTroubles,     \* calls that fail and crashes, together
    None

Kinds == {"ensure", "never", "always", "build", "force", "nocache", "direct", "down"}

ASSUME ImagesAssumption ==
    /\ Protocols \subseteq {"oci", "native", "none"}
    /\ Fold \in [Archs -> Archs]
    /\ Projects \intersect Archs = {}
    /\ Jobs \subseteq [Procs -> [kind : Kinds, arch : Archs, project : Projects]]
    /\ "oci" \notin Procs /\ None \notin Procs
    /\ None \notin [arch : Archs, rev : Nat, by : Protocols \union Procs]

VARIABLES
    holder,          \* the lock of each cache alias
    proto,           \* the source's protocol
    rev,             \* what the source holds now
    alias,           \* cache platforms and projects -> the image named, or None
    conf,            \* <<place, image>>: the image there carries its OCI config
    job,             \* Procs -> [kind, arch, project]
    me,              \* Procs -> where the process stands, and its ImageState
    troubles,
    tainted          \* platforms whose holder died or could not clean up

vars == <<holder, proto, rev, alias, conf, job, me, troubles, tainted>>

M == INSTANCE Mutex WITH Locks <- Archs

Kind(p) == job[p].kind
Arch(p) == job[p].arch
Proj(p) == job[p].project
Builds == {"build", "force", "nocache"}

(* Where the image is made: in the cache, or straight in the project. *)
Place(p) == IF Kind(p) \in {"direct", "nocache"} THEN Proj(p) ELSE Arch(p)
Places == Archs \union Projects
Store(x) == IF x \in Archs THEN Archs ELSE {x}
Held(x) == {alias[y] : y \in Store(x)} \ {None}
Without(fp, x) ==
    [y \in Places |-> IF y \in Store(x) /\ alias[y] = fp THEN None ELSE alias[y]]
Dropped(fp, x) ==
    /\ alias' = Without(fp, x)
    /\ conf' = conf \ (Store(x) \X {fp})
Kept == UNCHANGED <<alias, conf>>

Pulled(a) == [arch |-> a, rev |-> rev, by |-> proto]

(* The manifest a registry has for the platform; a simplestreams server    *)
(* picks by itself.                                                        *)
ociResolveSource(p) == Pulled(Arch(p))
sourceFingerprint(p) ==
    IF proto = "oci" THEN {ociResolveSource(p)} ELSE {Pulled(a) : a \in Archs}

Built(p) == [arch |-> Arch(p), rev |-> 0, by |-> p]

Label(fp) == IF fp.by = "oci" THEN Fold[fp.arch] ELSE fp.arch
projectArchOK(p, fp) ==
    Label(fp) = IF Kind(p) \notin Builds /\ proto = "oci" THEN Fold[Arch(p)] ELSE Arch(p)

NewImage == [pc |-> "get", at |-> "first", phase |-> 1, fp |-> None, own |-> FALSE,
             bad |-> FALSE, src |-> None, ens |-> None, result |-> "none"]

(* An earlier run has left its copies in the cache and the projects, or    *)
(* not, and what a project has may be another platform's.                  *)
Init ==
    /\ M!MutexInit
    /\ proto \in Protocols /\ rev = 1
    /\ \E left \in Seeds, a \in Archs :
          alias = [x \in Places |->
                      IF x \in left
                      THEN [arch |-> IF x \in Archs THEN x ELSE a, rev |-> 1, by |-> proto]
                      ELSE None]
    /\ conf = {<<x, alias[x]>> : x \in {y \in Places : alias[y] # None}}
    /\ troubles = 0 /\ tainted = {}
    /\ job \in Jobs
    /\ me = [p \in Procs |-> NewImage]

At(p, pc) == me[p].pc = pc
Fails == troubles < MaxTroubles /\ troubles' = troubles + 1
Works == UNCHANGED troubles
Fixed == UNCHANGED <<proto, rev, job, tainted>>
Local == Fixed /\ Works /\ Kept /\ UNCHANGED holder

(* What a step makes of a process. *)
Becomes(p, m) == me' = [me EXCEPT ![p] = m]
To(p, pc) == Becomes(p, [me[p] EXCEPT !.pc = pc])
Cleared(m) == [m EXCEPT !.ens = None]
Failed(p) == Becomes(p, [Cleared(me[p]) EXCEPT !.pc = "done", !.result = "failed"])
Look(p, at) == Becomes(p, [me[p] EXCEPT !.pc = "get", !.at = at])
Leaves(p, bad) == Becomes(p, [me[p] EXCEPT !.pc = "release", !.bad = bad])
Stores(p, fp, own, at) ==
    Becomes(p, [me[p] EXCEPT !.pc = "config", !.fp = fp, !.own = own, !.at = at])

(* create failed: the Ensure of a pull looks once more at the project. *)
CreateFailed(p) == IF Kind(p) \in Builds THEN Failed(p) ELSE Look(p, "adopt")

(***************************************************************************)
(* get: the project's alias, then the image it names.  An image gone       *)
(* between the two reads is taken as it is.                                *)
(***************************************************************************)
Missed(p) ==
    LET at == me[p].at
        On(pc) == Becomes(p, [Cleared(me[p]) EXCEPT !.pc = pc])
    IN  \/ at = "first" /\ Kind(p) = "build" /\ On("store")
        \/ at = "first" /\ Kind(p) \in {"force", "nocache"} /\ On("build")
        \/ at = "first" /\ Kind(p) = "direct" /\ On("source")
        \/ at = "first" /\ Kind(p) \in {"ensure", "never", "always"} /\ On("lock")
        \/ /\ at = "last" /\ Kind(p) \notin Builds
           /\ Becomes(p, [Cleared(me[p]) EXCEPT !.pc = "get", !.at = "adopt"])
        \/ at = "last" /\ Kind(p) \in Builds /\ Failed(p)
        \/ (at \in {"drop", "adopt"} \/ Kind(p) = "down") /\ Failed(p)

(* The image there, looked at or gone meanwhile, is what the caller wants. *)
Found(p) ==
    LET m == [me[p] EXCEPT !.ens = me[p].fp, !.src = None]
        On(pc) == Becomes(p, [m EXCEPT !.pc = pc])
    IN  \/ m.at = "drop" /\ On(IF Kind(p) = "always" THEN "lock" ELSE "remove")
        \/ /\ m.at = "first" /\ Kind(p) \in {"force", "nocache"}
           /\ Becomes(p, [Cleared(m) EXCEPT !.pc = "build"])
        \/ /\ m.at = "first" /\ Kind(p) = "down"
           /\ Becomes(p, [m EXCEPT !.pc = "get", !.at = "drop"])
        \/ /\ m.at # "drop" /\ Kind(p) = "always" /\ m.phase = 1
           /\ On(IF m.at = "first" THEN "resolve" ELSE "compare")
        \/ /\ m.at # "drop" /\ ~(m.at = "first" /\ Kind(p) \in {"force", "nocache", "down"})
           /\ ~(Kind(p) = "always" /\ m.phase = 1)
           /\ Becomes(p, [m EXCEPT !.pc = "done", !.result = "ok"])

GetAlias(p) ==
    /\ At(p, "get") /\ Local
    /\ IF alias[Proj(p)] = None THEN Missed(p)
       ELSE Becomes(p, [me[p] EXCEPT !.pc = "look", !.fp = alias[Proj(p)]])

GetImage(p) ==
    /\ At(p, "look") /\ Local
    /\ IF me[p].fp \in Held(Proj(p)) /\ ~projectArchOK(p, me[p].fp) THEN Missed(p) ELSE Found(p)

(***************************************************************************)
(* Hop A: pullSource, the pull, verifyArch and the OCI config, into the    *)
(* cache under the alias's lock or, without a cache, into the project.     *)
(***************************************************************************)
Entered(p) ==
    \/ Kind(p) \in Builds /\ To(p, "importing")
    \/ Kind(p) \notin Builds /\ me[p].at = "drop" /\ To(p, "cached")
    \/ Kind(p) \notin Builds /\ me[p].at # "drop" /\ To(p, "materialize")

(* Mutant: the cache's copy is deleted without its lock. *)
LockStoreNoDrop(p) ==
    /\ At(p, "lock") /\ Fixed /\ Works /\ Kept
    /\ IF me[p].at = "drop" THEN UNCHANGED holder ELSE M!Acquire(p, Arch(p))
    /\ Entered(p)

LockStore(p) ==
    /\ At(p, "lock") /\ M!Acquire(p, Arch(p))
    /\ Entered(p)
    /\ Fixed /\ Works /\ Kept

Materialize(p) ==
    /\ At(p, "materialize") /\ Local
    /\ LET hit == alias[Arch(p)]
       IN \/ hit # None /\ Stores(p, hit, FALSE, "hit")
          \/ hit = None /\ Kind(p) = "never" /\ Leaves(p, TRUE)
          \/ hit = None /\ Kind(p) # "never" /\ To(p, "source")

(* A miss: another writer may have published the alias meanwhile. *)
NotFound(p) == IF Kind(p) = "direct" THEN Look(p, "adopt") ELSE To(p, "recheck")
GivesUp(p) == IF Kind(p) = "direct" THEN Look(p, "adopt") ELSE Leaves(p, TRUE)

PullSource(p) ==
    /\ At(p, "source") /\ Fixed /\ Kept /\ UNCHANGED holder
    /\ \/ proto = "none" /\ Works /\ GivesUp(p)
       \/ /\ proto = "oci" /\ Works
          /\ Becomes(p, [me[p] EXCEPT !.pc = "pull", !.fp = ociResolveSource(p),
                                      !.src = ociResolveSource(p)])
       \/ /\ proto = "native" /\ Works
          /\ \E a \in Archs : Becomes(p, [me[p] EXCEPT !.pc = "pull", !.fp = Pulled(a)])
       \/ proto # "none" /\ Fails /\ NotFound(p)

(* CreateImage: the alias must be free.  createDirect only warns. *)
PullFails(p) == IF Kind(p) = "direct" THEN To(p, "poll") ELSE NotFound(p)
Pull(p) ==
    /\ At(p, "pull") /\ Fixed /\ UNCHANGED holder
    /\ \/ /\ alias[Place(p)] = None /\ Works
          /\ alias' = [alias EXCEPT ![Place(p)] = me[p].fp]
          /\ To(p, "poll")
          /\ UNCHANGED conf
       \/ alias[Place(p)] # None /\ Works /\ Kept /\ PullFails(p)
       \/ Fails /\ Kept /\ PullFails(p)

Poll(p) ==
    /\ At(p, "poll") /\ Local
    /\ LET got == alias[Place(p)]
       IN \/ got = None /\ Kind(p) \in Builds /\ Leaves(p, TRUE)
          \/ got = None /\ Kind(p) \notin Builds /\ NotFound(p)
          \/ got # None /\ Kind(p) \in Builds /\ Stores(p, got, TRUE, "pulled")
          \/ /\ got # None /\ Kind(p) \notin Builds
             /\ Becomes(p, [me[p] EXCEPT !.pc = "verify", !.fp = got])

(* Mutants: a wrong architecture is refused and left; nobody stores the    *)
(* config.                                                                 *)
verifyArchKeeps(p) ==
    /\ At(p, "verify") /\ Local
    /\ IF proto = "oci" \/ Label(me[p].fp) = Arch(p)
       THEN Stores(p, me[p].fp, proto = "oci", "pulled") ELSE GivesUp(p)
verifyArchBare(p) == At(p, "verify") /\ Local /\ Leaves(p, FALSE)

(* A wrong architecture is deleted, by fingerprint, and refused. *)
verifyArch(p) ==
    /\ At(p, "verify") /\ UNCHANGED <<holder, proto, rev, job>>
    /\ LET fp == me[p].fp
           gone == fp \notin Held(Place(p))
           right == proto = "oci" \/ (~gone /\ Label(fp) = Arch(p))
       IN \/ right /\ Works /\ Kept /\ UNCHANGED tainted /\ Stores(p, fp, proto = "oci", "pulled")
          \/ gone /\ ~right /\ Works /\ Kept /\ UNCHANGED tainted /\ NotFound(p)
          \/ /\ ~gone /\ ~right /\ GivesUp(p)
             /\ \/ Dropped(fp, Place(p)) /\ Works /\ UNCHANGED tainted
                \/ Kept /\ Fails /\ tainted' = tainted \union {Place(p)}

(* Where ociStoreConfig's caller goes on. *)
Stored(p) ==
    \/ /\ Kind(p) \in Builds /\ me[p].at = "pulled"
       /\ Becomes(p, [me[p] EXCEPT !.pc = "release", !.bad = FALSE, !.ens = me[p].fp])
    \/ (Kind(p) = "direct" \/ me[p].at = "copied") /\ Look(p, "last")
    \/ /\ Kind(p) # "direct" /\ me[p].at # "copied" /\ ~(Kind(p) \in Builds /\ me[p].at = "pulled")
       /\ Leaves(p, FALSE)
StoreFailed(p, missing) ==
    LET miss == missing /\ Kind(p) \notin Builds /\ me[p].at = "pulled"
    IN  \/ me[p].at = "copied" /\ CreateFailed(p)
        \/ me[p].at # "copied" /\ miss /\ NotFound(p)
        \/ me[p].at # "copied" /\ ~miss /\ GivesUp(p)

ociStoreConfig(p) ==
    /\ At(p, "config") /\ Fixed /\ UNCHANGED <<holder, alias>>
    /\ LET x == IF me[p].at = "copied" THEN Proj(p) ELSE Place(p)
           here == {y \in Store(x) : alias[y] = me[p].fp}
           wanted == me[p].own \/ (proto = "oci" /\ conf \intersect (here \X {me[p].fp}) = {})
       IN \/ here = {} /\ Works /\ UNCHANGED conf /\ StoreFailed(p, TRUE)
          \/ here # {} /\ ~wanted /\ Works /\ UNCHANGED conf /\ Stored(p)
          \/ /\ here # {} /\ wanted /\ Works /\ Stored(p)
             /\ conf' = conf \union (here \X {me[p].fp})
          \/ /\ here # {} /\ wanted /\ Fails /\ UNCHANGED conf
             /\ \/ ~me[p].own /\ me[p].src = None /\ Stored(p)
                \/ StoreFailed(p, FALSE)

Recheck(p) ==
    /\ At(p, "recheck") /\ Local
    /\ LET got == alias[Arch(p)]
       IN IF got = None THEN Leaves(p, TRUE) ELSE Stores(p, got, FALSE, "again")

(* Mutant: a failure keeps the lock. *)
ReleaseOnSuccess(p) ==
    /\ At(p, "release") /\ ~me[p].bad /\ M!Release(p, Arch(p)) /\ Fixed /\ Works /\ Kept
    /\ To(p, IF me[p].at = "drop" THEN "remove" ELSE "copy")

Release(p) ==
    /\ At(p, "release") /\ M!Release(p, Arch(p)) /\ Fixed /\ Works /\ Kept
    /\ \/ me[p].bad /\ me[p].at = "drop" /\ Failed(p)
       \/ me[p].bad /\ me[p].at # "drop" /\ CreateFailed(p)
       \/ /\ ~me[p].bad /\ Kind(p) = "nocache"
          /\ Becomes(p, [me[p] EXCEPT !.pc = "done", !.result = "ok"])
       \/ ~me[p].bad /\ Kind(p) # "nocache" /\ To(p, IF me[p].at = "drop" THEN "remove" ELSE "copy")

(***************************************************************************)
(* Hop B: copyToProject, outside the lock.                                 *)
(***************************************************************************)
CopyFind(p) ==
    /\ At(p, "copy") /\ Local
    /\ IF me[p].fp \in Held(Arch(p)) THEN To(p, "clear") ELSE CreateFailed(p)

CopyClear(p) ==
    /\ At(p, "clear") /\ Fixed /\ UNCHANGED holder
    /\ LET stale == alias[Proj(p)] \notin {None, me[p].fp}
       IN \/ stale /\ Works /\ Dropped(alias[Proj(p)], Proj(p)) /\ To(p, "land")
          \/ ~stale /\ Works /\ Kept /\ To(p, "land")
          \/ stale /\ Fails /\ Kept /\ (CreateFailed(p) \/ To(p, "land"))

CopyLand(p) ==
    /\ At(p, "land") /\ Fixed /\ UNCHANGED holder
    /\ LET fp == me[p].fp
           ready == fp \in Held(Arch(p)) /\ alias[Proj(p)] = None
       IN \/ /\ ready /\ Works
             /\ alias' = [alias EXCEPT ![Proj(p)] = fp]
             /\ conf' = IF \E a \in Archs : <<a, fp>> \in conf
                        THEN conf \union {<<Proj(p), fp>>} ELSE conf
             /\ Stores(p, fp, FALSE, "copied")
          \/ ~ready /\ Works /\ Kept /\ Look(p, "last")
          \/ Fails /\ Kept /\ Look(p, "last")

(***************************************************************************)
(* ensureBuild: the store is read without the lock, the builder runs       *)
(* without it, and only the import holds it.                               *)
(***************************************************************************)
BuildStored(p) ==
    /\ At(p, "store") /\ Local
    /\ IF alias[Arch(p)] = None THEN To(p, "build")
       ELSE Becomes(p, [me[p] EXCEPT !.pc = "copy", !.fp = alias[Arch(p)]])

BuildImage(p) ==
    /\ At(p, "build") /\ Fixed /\ Kept /\ UNCHANGED holder
    /\ \/ Works /\ To(p, "lock")
       \/ Fails /\ Failed(p)

(* An alias that cannot be read is taken for none, here and in CopyClear.  *)
ImportClear(p) ==
    /\ At(p, "importing") /\ Fixed /\ UNCHANGED holder
    /\ LET stale == alias[Place(p)] # None
       IN \/ stale /\ Works /\ Dropped(alias[Place(p)], Place(p)) /\ To(p, "import")
          \/ ~stale /\ Works /\ Kept /\ To(p, "import")
          \/ stale /\ Fails /\ Kept /\ (Leaves(p, TRUE) \/ To(p, "import"))

Import(p) ==
    /\ At(p, "import") /\ Fixed /\ UNCHANGED holder
    /\ \/ /\ alias[Place(p)] = None /\ Works
          /\ alias' = [alias EXCEPT ![Place(p)] = Built(p)]
          /\ To(p, "poll")
          /\ UNCHANGED conf
       \/ alias[Place(p)] # None /\ Works /\ Kept /\ Leaves(p, TRUE)
       \/ Fails /\ Kept /\ Leaves(p, TRUE)

(***************************************************************************)
(* Delete, and refreshImages: --pull always resolves the source of what is *)
(* stored, deletes both copies of what the source moved off, and ensures   *)
(* again.                                                                  *)
(***************************************************************************)
readSource(p) ==
    /\ At(p, "resolve") /\ Fixed /\ Kept /\ UNCHANGED holder
    /\ \/ proto # "none" /\ Works /\ \E fp \in sourceFingerprint(p) :
             Becomes(p, [me[p] EXCEPT !.pc = "compare", !.src = fp])
       \/ proto = "none" /\ Works /\ To(p, "compare")
       \/ proto # "none" /\ Fails /\ To(p, "compare")

refreshImages(p) ==
    /\ At(p, "compare") /\ Local
    /\ Becomes(p, [me[p] EXCEPT !.pc = "get", !.phase = 2,
                     !.at = IF me[p].src \in {None, me[p].ens} THEN "first" ELSE "drop"])

DropCached(p) ==
    /\ At(p, "cached") /\ Fixed /\ UNCHANGED holder
    /\ \/ /\ Works /\ Leaves(p, FALSE)
          /\ IF alias[Arch(p)] = None THEN Kept ELSE Dropped(alias[Arch(p)], Arch(p))
       \/ Fails /\ Kept /\ Leaves(p, TRUE)

Remove(p) ==
    /\ At(p, "remove") /\ Fixed /\ UNCHANGED holder
    /\ \/ alias[Proj(p)] = None /\ Works /\ Kept /\ Failed(p)
       \/ /\ alias[Proj(p)] # None /\ Works /\ Dropped(alias[Proj(p)], Proj(p))
          /\ \/ /\ Kind(p) = "always"
                /\ Becomes(p, [Cleared(me[p]) EXCEPT !.pc = "get", !.at = "first"])
             \/ /\ Kind(p) # "always"
                /\ Becomes(p, [Cleared(me[p]) EXCEPT !.pc = "done", !.result = "ok"])
       \/ alias[Proj(p)] # None /\ Fails /\ Kept /\ Failed(p)

(* External: the source moves on; a process is killed and its lock reaped. *)
Moves ==
    /\ rev < MaxRev /\ rev' = rev + 1
    /\ UNCHANGED <<holder, proto, alias, conf, job, me, troubles, tainted>>

Crash(p) ==
    /\ me[p].pc # "done" /\ Fails
    /\ M!Die(p)
    /\ Becomes(p, [Cleared(me[p]) EXCEPT !.pc = "done", !.result = "dead"])
    /\ tainted' = tainted \union {a \in Archs : holder[a] = p}
    /\ Kept /\ UNCHANGED <<proto, rev, job>>

Act(p) ==
    \/ GetAlias(p) \/ GetImage(p) \/ LockStore(p) \/ Materialize(p) \/ PullSource(p)
    \/ Pull(p) \/ Poll(p) \/ verifyArch(p) \/ ociStoreConfig(p) \/ Recheck(p) \/ Release(p)
    \/ CopyFind(p) \/ CopyClear(p) \/ CopyLand(p) \/ BuildStored(p) \/ BuildImage(p)
    \/ ImportClear(p) \/ Import(p) \/ readSource(p) \/ refreshImages(p) \/ DropCached(p)
    \/ Remove(p)

Done == \A p \in Procs : me[p].pc = "done"

Next ==
    \/ \E p \in Procs : Act(p) \/ Crash(p)
    \/ Moves
    \/ Done /\ UNCHANGED vars

Spec == Init /\ [][Next]_vars /\ \A p \in Procs : WF_vars(Act(p))

(***************************************************************************)
(* Properties.                                                             *)
(***************************************************************************)
(* The types of the variables; a config is that of an image an alias names. *)
TypeOK ==
    /\ holder \in [Archs -> Procs \union {None}]
    /\ \A x \in Archs \union Projects :
          alias[x] = None \/ alias[x].arch \in Archs
    /\ \A c \in conf : alias[c[1]] = c[2]
    /\ \A p \in Procs : me[p].result = "ok" => me[p].pc = "done"

(* The cache is shared: while nobody works on a platform's alias it names  *)
(* an image of that platform, whatever the source answered (verifyArch),   *)
(* unless who worked on it died or could not delete what it refused.  What *)
(* a project is given is another matter: projectArchOK goes by the stored  *)
(* label, which does not tell one 32-bit arm from the other.               *)
RightArch ==
    \A a \in Archs \ tainted :
        holder[a] = None /\ alias[a] # None => alias[a].arch = a

(* deleteCached cannot land inside another process's hop A or import: what *)
(* the holder of an OCI image's lock has read stays under its alias until  *)
(* it lets go.                                                             *)
HopAStable ==
    \A p \in Procs :
        /\ proto = "oci" /\ me[p].pc \in {"verify", "config", "release"} /\ ~me[p].bad
        /\ holder[Arch(p)] = p /\ Place(p) = Arch(p) /\ me[p].at # "drop"
        => alias[Arch(p)] = me[p].fp

(* Short of a call that failed, an OCI image carries the config instances  *)
(* are made from: in the cache while nobody works on its alias, and in the *)
(* project of an Ensure that succeeded, if no other command is at work on  *)
(* the same project, whatever happened to the cache between the two hops.  *)
Configured ==
    proto = "oci" /\ troubles = 0 =>
        /\ \A a \in Archs : holder[a] = None /\ alias[a] # None => <<a, alias[a]>> \in conf
        /\ \A p \in Procs :
              /\ me[p].result = "ok" /\ me[p].ens # None
              /\ \A q \in Procs \ {p} : Proj(q) # Proj(p)
              => <<Proj(p), me[p].ens>> \in conf

(* Every command ends: no failure leaves an alias's lock taken, and nobody *)
(* waits for one that is never given back.                                 *)
Ends == <>Done

=============================================================================
