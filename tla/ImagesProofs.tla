---------------------------- MODULE ImagesProofs ----------------------------
(***************************************************************************)
(* What holds of the image cache for every set of processes, projects and  *)
(* platforms, every way commands are given and however often the source    *)
(* moves on.  The invariant:                                               *)
(*                                                                         *)
(*   Typed     images are pulled or built, processes are where they may be;*)
(*   Own       each process is on its command's path, has its platform's   *)
(*             lock just while inside, and what it read there still stands;*)
(*   Sorting   a cache alias names its platform's image, or a process with *)
(*             the lock is yet to look at it.                              *)
(*                                                                         *)
(* Steps that leave the locks alone (Apart) go first: what the process     *)
(* becomes (Goes), then what the cache becomes (Effect).                   *)
(***************************************************************************)
EXTENDS Images, TLAPS

PCs == {"get", "look", "lock", "materialize", "source", "pull", "poll", "verify", "config",
        "recheck", "release", "copy", "clear", "land", "store", "build", "importing", "import",
        "resolve", "compare", "cached", "remove", "done"}
Ats == {"first", "drop", "adopt", "last", "hit", "pulled", "again", "copied"}

(* An image was pulled from the source or built by a process. *)
Image == [arch : Archs, rev : Nat, by : {proto} \union Procs]
State == [pc : PCs, at : Ats, phase : {1, 2}, fp : Image \union {None}, own : BOOLEAN,
          bad : BOOLEAN, src : Image \union {None}, ens : Image \union {None},
          result : {"none", "ok", "failed", "dead"}]

Typed ==
    /\ job \in [Procs -> [kind : Kinds, arch : Archs, project : Projects]]
    /\ proto \in Protocols /\ rev \in Nat
    /\ alias \in [Places -> Image \union {None}]
    /\ holder \in [Archs -> Procs \union {None}]
    /\ me \in [Procs -> State]

(* Where a command of each kind goes. *)
Route(k, pc, at) ==
    /\ pc \in {"materialize", "source", "pull", "verify", "recheck"} => k \notin Builds
    /\ pc \in {"importing", "import"} => k \in Builds
    /\ pc \in {"store", "build", "lock", "materialize", "recheck", "importing", "import",
              "cached", "release"} => k # "direct"
    /\ pc \in {"resolve", "compare"} => k = "always"
    /\ pc = "config" => at \in {"hit", "pulled", "again", "copied"}
    /\ pc = "config" /\ at \in {"hit", "again"} => k \notin Builds
    /\ pc = "cached" => at = "drop"
    /\ at = "drop" => k \in {"always", "down"}
Path(k, m) ==
    /\ Route(k, m.pc, m.at)
    /\ m.result = "ok" => m.pc = "done"

(* Who is inside has the lock of its platform's alias, and no other. *)
Inner(k, pc, at) ==
    /\ k # "direct"
    /\ \/ pc \in {"materialize", "source", "pull", "poll", "verify", "recheck", "release",
                  "importing", "import", "cached"}
       \/ pc = "config" /\ at # "copied"
Within(k, m) == Inner(k, m.pc, m.at)
Locking(p) == \A a \in Archs : holder[a] = p <=> a = Arch(p) /\ Within(Kind(p), me[p])

(* An OCI image is asked for by its platform. *)
Asked(p, m) == proto = "oci" /\ m.pc = "pull" => m.fp # None /\ m.fp.arch = Arch(p)

(* What the holder of an OCI image's lock has read stays as it is. *)
Cached(k) == k \notin {"direct", "nocache"}
Read(pc, at, bad) ==
    \/ pc = "verify"
    \/ pc = "config" /\ at # "copied"
    \/ pc = "release" /\ ~bad /\ at # "drop"
Reads(m) == Read(m.pc, m.at, m.bad)
Steady(p, m) == proto = "oci" /\ Cached(Kind(p)) /\ Reads(m) => alias[Arch(p)] = m.fp

Sane(p, m) == Path(Kind(p), m) /\ Asked(p, m)
Own(p) == Sane(p, me[p]) /\ Locking(p) /\ Steady(p, me[p])

(* The cache has images of its platforms, but for the one a holder that    *)
(* has pulled it is yet to look at.                                        *)
Judges(p, a) ==
    /\ Arch(p) = a /\ Cached(Kind(p)) /\ Kind(p) \notin Builds
    /\ me[p].pc \in {"poll", "verify"} /\ me[p].fp = alias[a]
Sorted(a) == alias[a] # None => alias[a].arch = a
Sorting ==
    \A a \in Archs :
        /\ proto = "oci" => Sorted(a)
        /\ Sorted(a) \/ a \in tainted \/ \E p \in Procs : Judges(p, a)

IInv == Typed /\ (\A p \in Procs : Own(p)) /\ Sorting

-----------------------------------------------------------------------------
(* What a process becomes, the others stay. *)
LEMMA Become ==
    ASSUME me \in [Procs -> State], NEW p \in Procs, NEW n \in State, Becomes(p, n)
    PROVE  /\ me' \in [Procs -> State] /\ me'[p] = n
           /\ \A q \in Procs \ {p} : me'[q] = me[q]
BY DEF Becomes

(* A command and its source stay what they are. *)
LEMMA Constant ==
    ASSUME UNCHANGED <<proto, job>>
    PROVE  /\ Image' = Image /\ State' = State
           /\ \A p : Kind(p)' = Kind(p) /\ Arch(p)' = Arch(p) /\ Proj(p)' = Proj(p) /\ Place(p)' = Place(p)
BY DEF Image, State, Kind, Arch, Proj, Place

(* A step that leaves the locks alone leads to a record like this: sane,   *)
(* inside or outside as before, and true of what its alias names.          *)
Leads(p, n) ==
    /\ n \in State /\ Becomes(p, n)
    /\ Sane(p, n)
    /\ Within(Kind(p), n) <=> Within(Kind(p), me[p])

(* Such a step keeps what is the process's own, if what it then reads    *)
(* under a lock is what the alias names.                                 *)
LEMMA Leading ==
    ASSUME Typed, NEW p \in Procs, Own(p), UNCHANGED <<proto, job, holder>>, NEW n, Leads(p, n),
           proto = "oci" /\ Cached(Kind(p)) /\ Reads(n) => alias'[Arch(p)] = n.fp
    PROVE  /\ me' \in [Procs -> State] /\ me'[p] = n /\ \A q \in Procs \ {p} : me'[q] = me[q]
           /\ Own(p)'
<1>1. me' \in [Procs -> State] /\ me'[p] = n /\ \A q \in Procs \ {p} : me'[q] = me[q]
  BY Become DEF Leads, Typed
<1>2. Sane(p, me[p])'
  BY <1>1, Constant DEF Leads, Sane, Path, Route, Asked
<1>3. Locking(p)'
  BY <1>1, Constant DEF Leads, Own, Locking, Within, Inner
<1>4. Steady(p, me[p])'
  BY <1>1, Constant DEF Steady, Reads, Read
<1>5. QED
  BY <1>1, <1>2, <1>3, <1>4 DEF Own

(* Away from the image, and from its lock. *)
Out(pc) == pc \notin {"look", "poll", "verify", "config", "release"}

(* The image is not there, or not the one wanted. *)
LEMMA Missing ==
    ASSUME Typed, NEW p \in Procs, Own(p), Missed(p), At(p, "get") \/ At(p, "look")
    PROVE  \E n : Leads(p, n) /\ ~Reads(n) /\ n.ens = None /\ Out(n.pc)
<1> PICK k : k = Kind(p)
  OBVIOUS
<1> PICK m : m = me[p]
  OBVIOUS
<1>1. m \in State /\ k \in Kinds /\ Path(k, m) /\ m.pc \in {"get", "look"}
  BY DEF Typed, Kind, Own, Sane, At
<1>2. PICK n \in State :
           /\ Becomes(p, n) /\ n.pc \in {"store", "build", "source", "lock", "get", "done"}
           /\ (n.pc = "source" => k = "direct")
           /\ n.pc \in {"store", "build", "lock"} => k # "direct"
           /\ n.at = m.at \/ n.at = "adopt"
           /\ n.ens = None /\ n.result # "ok"
  <2> DEFINE on(pc) == [Cleared(m) EXCEPT !.pc = pc]
             again == [Cleared(m) EXCEPT !.pc = "get", !.at = "adopt"]
             failed == [Cleared(m) EXCEPT !.pc = "done", !.result = "failed"]
  <2>1. \A pc \in PCs : /\ on(pc) \in State /\ on(pc).pc = pc /\ on(pc).at = m.at
                       /\ on(pc).ens = None /\ on(pc).result = m.result
    BY <1>1 DEF Cleared, State
  <2>2. again \in State /\ again.pc = "get" /\ again.at = "adopt"
        /\ again.ens = None /\ again.result = m.result
    <3>1. "get" \in PCs /\ "adopt" \in Ats
      BY DEF PCs, Ats
    <3>2. QED
      BY <1>1, <3>1 DEF Cleared, State
  <2>3. failed \in State /\ failed.pc = "done" /\ failed.at = m.at
        /\ failed.ens = None /\ failed.result = "failed"
    BY <1>1 DEF Cleared, State, PCs
  <2>4. \/ Becomes(p, on("store")) /\ k # "direct"
        \/ Becomes(p, on("build")) /\ k # "direct"
        \/ Becomes(p, on("source")) /\ k = "direct"
        \/ Becomes(p, on("lock")) /\ k # "direct"
        \/ Becomes(p, again) \/ Becomes(p, failed)
    BY DEF Missed, Failed
  <2> HIDE DEF on, again, failed
  <2>5. m.result # "ok"
    BY <1>1 DEF Path
  <2>6. QED
    BY <2>1, <2>2, <2>3, <2>4, <2>5 DEF PCs
<1>3. Path(k, n)
  BY <1>1, <1>2 DEF Path, Route, Builds
<1>4. Asked(p, n)
  BY <1>2 DEF Asked
<1>5. ~Within(k, m) /\ ~Within(k, n) /\ ~Reads(n)
  BY <1>1, <1>2 DEF Within, Inner, Reads, Read
<1>6. QED
  BY <1>2, <1>3, <1>4, <1>5 DEF Leads, Sane, Out

(* The image there is the one wanted, or gone while it was looked at. *)
LEMMA Finding ==
    ASSUME Typed, NEW p \in Procs, Own(p), Found(p), At(p, "look")
    PROVE  \E n : Leads(p, n) /\ ~Reads(n) /\ n.ens \in {None, me[p].fp} /\ Out(n.pc)
<1> PICK k : k = Kind(p)
  OBVIOUS
<1> PICK m : m = me[p]
  OBVIOUS
<1>1. m \in State /\ k \in Kinds /\ Path(k, m) /\ m.pc = "look"
  BY DEF Typed, Kind, Own, Sane, At
<1>2. PICK n \in State :
           /\ Becomes(p, n)
           /\ n.pc \in {"lock", "remove", "build", "get", "resolve", "compare", "done"}
           /\ n.pc \in {"lock", "resolve", "compare"} => k = "always"
           /\ n.at = m.at \/ (n.at = "drop" /\ k = "down")
           /\ n.pc \in {"remove", "get"} => k \notin Builds \/ m.at = "drop"
           /\ n.pc = "build" => k # "direct"
           /\ n.ens \in {None, m.fp} /\ (n.result = "ok" => n.pc = "done")
  <2> DEFINE f == [m EXCEPT !.ens = m.fp, !.src = None]
             on(pc) == [f EXCEPT !.pc = pc]
             build == [Cleared(f) EXCEPT !.pc = "build"]
             drop == [f EXCEPT !.pc = "get", !.at = "drop"]
             ok == [f EXCEPT !.pc = "done", !.result = "ok"]
  <2>1. f \in State /\ f.at = m.at /\ f.ens = m.fp /\ f.phase = m.phase
        /\ f.result = m.result /\ m.result # "ok"
    BY <1>1 DEF State, Path
  <2>2. \/ Becomes(p, on("lock")) /\ k = "always"
        \/ Becomes(p, on("remove")) /\ m.at = "drop"
        \/ Becomes(p, build) /\ k # "direct"
        \/ Becomes(p, drop) /\ k = "down"
        \/ Becomes(p, on("resolve")) /\ k = "always"
        \/ Becomes(p, on("compare")) /\ k = "always"
        \/ Becomes(p, ok)
    <3>1. f = [me[p] EXCEPT !.ens = me[p].fp, !.src = None]
      OBVIOUS
    <3> HIDE DEF f
    <3>2. QED
      BY <2>1, <3>1 DEF Found
  <2> HIDE DEF f
  <2>3. \A pc \in PCs : /\ on(pc) \in State /\ on(pc).pc = pc
                       /\ on(pc).ens = m.fp /\ on(pc).at = m.at /\ on(pc).result = m.result
    BY <2>1 DEF State
  <2>4. build \in State /\ build.pc = "build" /\ build.at = m.at
        /\ build.ens = None /\ build.result = m.result
    BY <2>1 DEF Cleared, State, PCs
  <2>5. drop \in State /\ drop.pc = "get" /\ drop.ens = m.fp /\ drop.at = "drop"
        /\ drop.result = m.result
    <3>1. "get" \in PCs /\ "drop" \in Ats
      BY DEF PCs, Ats
    <3>2. QED
      BY <2>1, <3>1 DEF State
  <2>6. ok \in State /\ ok.pc = "done" /\ ok.ens = m.fp /\ ok.at = m.at
    BY <2>1 DEF State, PCs
  <2> HIDE DEF on, build, drop, ok
  <2>7. {"lock", "remove", "resolve", "compare"} \subseteq PCs
    BY DEF PCs
  <2>8. CASE Becomes(p, on("remove")) /\ m.at = "drop"
    BY <2>1, <2>3, <2>7, <2>8
  <2>9. ASSUME NEW pc \in {"lock", "resolve", "compare"}, Becomes(p, on(pc)), k = "always"
        PROVE  \E n \in State :
                  /\ Becomes(p, n) /\ n.pc = pc /\ n.ens = m.fp /\ n.at = m.at
                  /\ n.result # "ok"
    BY <2>1, <2>3, <2>7, <2>9
  <2>10. CASE \E pc \in {"lock", "resolve", "compare"} : Becomes(p, on(pc)) /\ k = "always"
    BY <2>9, <2>10 DEF Builds
  <2>11. CASE Becomes(p, build) /\ k # "direct"
    BY <2>1, <2>4, <2>11
  <2>12. CASE Becomes(p, drop) /\ k = "down"
    BY <2>1, <2>5, <2>12 DEF Builds
  <2>13. CASE Becomes(p, ok)
    BY <2>6, <2>13
  <2>14. QED
    BY <2>2, <2>8, <2>10, <2>11, <2>12, <2>13
<1>3. Path(k, n)
  BY <1>1, <1>2 DEF Path, Route, Builds
<1>4. Asked(p, n)
  BY <1>2 DEF Asked
<1>5. ~Within(k, m) /\ ~Within(k, n) /\ ~Reads(n)
  BY <1>1, <1>2 DEF Within, Inner, Reads, Read
<1>6. QED
  BY <1>2, <1>3, <1>4, <1>5 DEF Leads, Sane, Out

-----------------------------------------------------------------------------
(* The common steps: the place, how it came there, the image, its luck. *)
Is(p, n, pc, at, fp, bad) ==
    /\ n \in State /\ Becomes(p, n)
    /\ n.pc = pc /\ n.at = at /\ n.fp = fp /\ n.bad = bad
    /\ n.ens = me[p].ens /\ n.result = me[p].result
Ended(p, n) ==
    n \in State /\ Becomes(p, n) /\ n.pc = "done" /\ n.at = me[p].at /\ n.ens = None

(* Each common step of a process leads to one record. *)
LEMMA Steps ==
    ASSUME Typed, NEW p \in Procs, NEW m, m = me[p]
    PROVE  /\ \A pc \in PCs : To(p, pc) => \E n : Is(p, n, pc, m.at, m.fp, m.bad)
           /\ \A at \in Ats : Look(p, at) => \E n : Is(p, n, "get", at, m.fp, m.bad)
           /\ \A bad \in BOOLEAN : Leaves(p, bad) => \E n : Is(p, n, "release", m.at, m.fp, bad)
           /\ \A fp \in Image \union {None}, own \in BOOLEAN, at \in Ats :
                 Stores(p, fp, own, at) => \E n : Is(p, n, "config", at, fp, m.bad) /\ n.own = own
           /\ Failed(p) => \E n : Ended(p, n)
<1>1. m \in State
  BY DEF Typed
<1>2. {"get", "release", "config", "done"} \subseteq PCs
  BY DEF PCs
<1>3. ASSUME NEW pc \in PCs, To(p, pc) PROVE \E n : Is(p, n, pc, m.at, m.fp, m.bad)
  <2> PICK n : n = [m EXCEPT !.pc = pc]
    OBVIOUS
  <2>1. n \in State /\ Becomes(p, n)
    BY <1>1, <1>3 DEF To, State
  <2>2. QED
    BY <1>1, <2>1 DEF Is, State
<1>4. ASSUME NEW at \in Ats, Look(p, at) PROVE \E n : Is(p, n, "get", at, m.fp, m.bad)
  <2> PICK n : n = [m EXCEPT !.pc = "get", !.at = at]
    OBVIOUS
  <2>1. n \in State
    BY <1>1, <1>2 DEF State
  <2>2. Becomes(p, n)
    BY <1>4 DEF Look
  <2>3. QED
    BY <1>1, <2>1, <2>2 DEF Is, State
<1>5. ASSUME NEW bad \in BOOLEAN, Leaves(p, bad) PROVE \E n : Is(p, n, "release", m.at, m.fp, bad)
  <2> PICK n : n = [m EXCEPT !.pc = "release", !.bad = bad]
    OBVIOUS
  <2>1. n \in State
    BY <1>1, <1>2 DEF State
  <2>2. Becomes(p, n)
    BY <1>5 DEF Leaves
  <2>3. QED
    BY <1>1, <2>1, <2>2 DEF Is, State
<1>6. ASSUME NEW fp \in Image \union {None}, NEW own \in BOOLEAN, NEW at \in Ats, Stores(p, fp, own, at)
      PROVE  \E n : Is(p, n, "config", at, fp, m.bad) /\ n.own = own
  <2> PICK n : n = [m EXCEPT !.pc = "config", !.fp = fp, !.own = own, !.at = at]
    OBVIOUS
  <2>1. n \in State
    BY <1>1, <1>2, <1>6 DEF State
  <2>2. Becomes(p, n)
    BY <1>6 DEF Stores
  <2>3. /\ n.pc = "config" /\ n.at = at /\ n.fp = fp /\ n.own = own /\ n.bad = m.bad
        /\ n.ens = m.ens /\ n.result = m.result
    BY <1>1 DEF State
  <2>4. QED
    BY <2>1, <2>2, <2>3 DEF Is
<1>7. ASSUME Failed(p) PROVE \E n : Ended(p, n)
  <2> PICK n : n = [Cleared(m) EXCEPT !.pc = "done", !.result = "failed"]
    OBVIOUS
  <2>1. n \in State /\ n.pc = "done" /\ n.at = m.at /\ n.ens = None
    BY <1>1, <1>2 DEF Cleared, State
  <2>2. Becomes(p, n)
    BY <1>7 DEF Failed
  <2>3. QED
    BY <2>1, <2>2 DEF Ended
<1>8. QED
  BY <1>3, <1>4, <1>5, <1>6, <1>7

(* What a step of p that leaves the locks alone comes to. *)
Goes(p) ==
    \E n : /\ Leads(p, n)
           /\ proto = "oci" /\ Cached(Kind(p)) /\ Reads(n) => alias'[Arch(p)] = n.fp

(* A common step whose end is on the command's route, and inside just if *)
(* the process was.                                                      *)
LEMMA Going ==
    ASSUME Typed, NEW p \in Procs, Own(p), me[p].pc # "done", NEW k, k = Kind(p),
           NEW n, NEW pc, NEW at, NEW fp, NEW bad, Is(p, n, pc, at, fp, bad), pc # "pull",
           Route(k, pc, at), Inner(k, pc, at) <=> Within(k, me[p]),
           proto = "oci" /\ Cached(k) /\ Read(pc, at, bad) => alias'[Arch(p)] = fp
    PROVE  Goes(p)
<1>1. Path(k, n) /\ Asked(p, n) /\ (Within(k, n) <=> Within(k, me[p]))
  BY DEF Is, Own, Sane, Path, Asked, Within
<1>2. Reads(n) => Read(pc, at, bad)
  BY DEF Is, Reads
<1>3. QED
  BY <1>1, <1>2 DEF Goes, Leads, Sane, Is

(* A step to the end, from outside. *)
LEMMA Ending ==
    ASSUME Typed, NEW p \in Procs, Own(p), ~Within(Kind(p), me[p]), NEW n, Ended(p, n)
    PROVE  Goes(p)
<1>1. Path(Kind(p), n) /\ Asked(p, n) /\ ~Within(Kind(p), n) /\ ~Reads(n)
  BY DEF Ended, Own, Sane, Path, Route, Asked, Within, Inner, Reads, Read
<1>2. QED
  BY <1>1 DEF Goes, Leads, Sane, Ended

(* What a failed call leads to, inside and out. *)
LEMMA Failing ==
    ASSUME Typed, NEW p \in Procs, Own(p), me[p].pc # "done",
           NEW inside, inside <=> Within(Kind(p), me[p])
    PROVE  /\ CreateFailed(p) /\ ~inside => Goes(p)
           /\ Failed(p) /\ ~inside => Goes(p)
           /\ NotFound(p) /\ (inside <=> Kind(p) # "direct") /\ Kind(p) \notin Builds => Goes(p)
           /\ GivesUp(p) /\ (inside <=> Kind(p) # "direct") => Goes(p)
           /\ Look(p, "last") /\ ~inside => Goes(p)
<1> PICK k : k = Kind(p)
  OBVIOUS
<1> PICK m : m = me[p]
  OBVIOUS
<1>1. /\ Look(p, "adopt") \/ Look(p, "last") => \E n, at : at \in {"adopt", "last"} /\ Is(p, n, "get", at, m.fp, m.bad)
      /\ To(p, "recheck") => \E n : Is(p, n, "recheck", m.at, m.fp, m.bad)
      /\ Leaves(p, TRUE) => \E n : Is(p, n, "release", m.at, m.fp, TRUE)
      /\ Failed(p) => \E n : Ended(p, n)
  BY Steps DEF PCs, Ats
<1>2. /\ \A at \in {"adopt", "last"} : Route(k, "get", at) /\ ~Inner(k, "get", at)
      /\ k # "direct" /\ k \notin Builds => Route(k, "recheck", m.at) /\ Inner(k, "recheck", m.at)
      /\ k # "direct" => Route(k, "release", m.at) /\ Inner(k, "release", m.at)
      /\ \A at : ~Read("get", at, m.bad) /\ ~Read("recheck", at, m.bad) /\ ~Read("release", at, TRUE)
  BY DEF Route, Inner, Read, Own, Sane, Path
<1>3. \A n : \A at \in {"adopt", "last"} : Is(p, n, "get", at, m.fp, m.bad) /\ ~inside => Goes(p)
  BY <1>2, Going
<1>4. \A n : Is(p, n, "recheck", m.at, m.fp, m.bad) /\ inside /\ k # "direct" /\ k \notin Builds => Goes(p)
  BY <1>2, Going
<1>5. \A n : Is(p, n, "release", m.at, m.fp, TRUE) /\ inside /\ k # "direct" => Goes(p)
  BY <1>2, Going
<1>6. \A n : Ended(p, n) /\ ~inside => Goes(p)
  BY Ending
<1>7. QED
  BY <1>1, <1>3, <1>4, <1>5, <1>6 DEF CreateFailed, NotFound, GivesUp

-----------------------------------------------------------------------------
(* The steps, one by one: a look at the project is outside every lock. *)
LEMMA Gets ==
    ASSUME Typed, NEW p \in Procs, Own(p), GetAlias(p) \/ GetImage(p)
    PROVE  Goes(p)
<1> PICK m : m = me[p]
  OBVIOUS
<1> PICK fp : fp = alias[Proj(p)]
  OBVIOUS
<1>1. m \in State /\ (fp = None \/ fp \in Image) /\ fp \in Image \union {None}
  BY DEF Typed, Proj, Places
<1>2. CASE Missed(p)
  BY <1>2, Missing DEF Goes, GetAlias, GetImage
<1>3. CASE GetAlias(p) /\ ~Missed(p)
  <2> PICK n : n = [m EXCEPT !.pc = "look", !.fp = fp]
    OBVIOUS
  <2>1. n \in State /\ Becomes(p, n)
    <3>1. "look" \in PCs
      BY DEF PCs
    <3>2. n \in State
      BY <1>1, <3>1 DEF State
    <3>3. Becomes(p, n)
      BY <1>3 DEF GetAlias
    <3>4. QED
      BY <3>2, <3>3
  <2>2. Is(p, n, "look", m.at, fp, m.bad)
    BY <1>1, <2>1 DEF Is, State
  <2>3. Route(Kind(p), "look", m.at) /\ ~Inner(Kind(p), "look", m.at) /\ ~Within(Kind(p), m)
        /\ ~Read("look", m.at, m.bad) /\ m.pc # "done"
    BY <1>3 DEF GetAlias, At, Own, Sane, Path, Route, Inner, Within, Read
  <2>4. QED
    BY <2>2, <2>3, Going
<1>4. CASE GetImage(p) /\ ~Missed(p)
  <2>1. Found(p) /\ At(p, "look")
    BY <1>4 DEF GetImage
  <2>2. QED
    BY <2>1, Finding DEF Goes
<1>5. QED
  BY <1>2, <1>3, <1>4

(* Whose alias the image goes under. *)
LEMMA PlaceIs ==
    ASSUME Typed, NEW p \in Procs
    PROVE  /\ Arch(p) \in Archs /\ Proj(p) \in Projects /\ Place(p) \in Places /\ Kind(p) \in Kinds
           /\ Cached(Kind(p)) => Place(p) = Arch(p)
           /\ ~Cached(Kind(p)) => Place(p) = Proj(p)
           /\ Place(p) \in Archs <=> Cached(Kind(p))
BY ImagesAssumption DEF Typed, Arch, Proj, Kind, Place, Places, Cached, ImagesAssumption

(* A hit in the cache is read under its lock. *)
LEMMA Materializes ==
    ASSUME Typed, NEW p \in Procs, Own(p), Materialize(p)
    PROVE  Goes(p)
<1> PICK m : m = me[p]
  OBVIOUS
<1> PICK k : k = Kind(p)
  OBVIOUS
<1> PICK hit : hit = alias[Arch(p)]
  OBVIOUS
<1>1. m \in State /\ hit \in Image \union {None} /\ m.pc = "materialize" /\ alias' = alias
      /\ Route(k, m.pc, m.at) /\ Within(k, m)
  BY PlaceIs DEF Materialize, At, Local, Kept, Typed, Places, Own, Sane, Path, Within, Route, Inner
<1>2. k # "direct" /\ k \notin Builds
  BY <1>1 DEF Route
<1>3. CASE hit # None /\ Stores(p, hit, FALSE, "hit")
  <2>1. PICK n : Is(p, n, "config", "hit", hit, m.bad)
    BY <1>1, <1>3, Steps DEF Ats
  <2>2. Route(k, "config", "hit") /\ Inner(k, "config", "hit")
    BY <1>2 DEF Route, Inner
  <2>3. QED
    BY <1>1, <2>1, <2>2, Going
<1>4. CASE Leaves(p, TRUE)
  BY <1>1, <1>2, <1>4, Failing DEF GivesUp
<1>5. CASE To(p, "source")
  <2>1. PICK n : Is(p, n, "source", m.at, m.fp, m.bad)
    BY <1>5, Steps DEF PCs
  <2>2. Route(k, "source", m.at) /\ Inner(k, "source", m.at) /\ ~Read("source", m.at, m.bad)
    BY <1>1, <1>2 DEF Route, Inner, Read
  <2>3. QED
    BY <1>1, <2>1, <2>2, Going
<1>6. QED
  BY <1>3, <1>4, <1>5 DEF Materialize

(* The source is asked for the platform, if it is a registry. *)
LEMMA PullsSource ==
    ASSUME Typed, NEW p \in Procs, Own(p), PullSource(p)
    PROVE  Goes(p)
<1> PICK m : m = me[p]
  OBVIOUS
<1> PICK k : k = Kind(p)
  OBVIOUS
<1>1. m \in State /\ m.pc = "source" /\ alias' = alias /\ Route(k, m.pc, m.at) /\ (Within(k, m) <=> k # "direct")
  BY DEF PullSource, At, Kept, Typed, Own, Sane, Path, Within, Route, Inner
<1>2. k \notin Builds
  BY <1>1 DEF Route
<1>3. CASE GivesUp(p) \/ NotFound(p)
  BY <1>1, <1>2, <1>3, Failing
<1>4. ASSUME NEW a \in Archs, NEW src \in Image \union {None}, proto = "oci" => a = Arch(p),
             Becomes(p, [me[p] EXCEPT !.pc = "pull", !.fp = Pulled(a), !.src = src])
      PROVE  Goes(p)
  <2> PICK n : n = [m EXCEPT !.pc = "pull", !.fp = Pulled(a), !.src = src]
    OBVIOUS
  <2>1. Pulled(a) \in Image /\ Pulled(a).arch = a /\ Pulled(a) # None
    BY ImagesAssumption DEF Pulled, Image, Typed, ImagesAssumption
  <2>2. n \in State /\ Becomes(p, n) /\ n.pc = "pull" /\ n.at = m.at /\ n.fp = Pulled(a)
        /\ n.ens = m.ens
    BY <1>1, <1>4, <2>1 DEF State, PCs
  <2>3. Path(k, n) /\ Asked(p, n) /\ (Within(k, n) <=> k # "direct") /\ ~Reads(n)
    BY <1>1, <1>2, <1>4, <2>1, <2>2 DEF Own, Sane, Path, Route, Asked, Within, Inner, Reads, Read
  <2>4. QED
    BY <1>1, <2>2, <2>3 DEF Goes, Leads, Sane
<1>5. CASE proto = "oci" /\ Becomes(p, [me[p] EXCEPT !.pc = "pull", !.fp = ociResolveSource(p),
                                                      !.src = ociResolveSource(p)])
  <2>1. Pulled(Arch(p)) \in Image
    BY PlaceIs DEF Pulled, Image, Typed
  <2>2. QED
    BY <1>4, <1>5, <2>1, PlaceIs DEF ociResolveSource
<1>6. ASSUME NEW a \in Archs, proto = "native",
             Becomes(p, [me[p] EXCEPT !.pc = "pull", !.fp = Pulled(a)])
      PROVE  Goes(p)
  <2>1. [m EXCEPT !.pc = "pull", !.fp = Pulled(a)] = [m EXCEPT !.pc = "pull", !.fp = Pulled(a), !.src = m.src]
        /\ m.src \in Image \union {None}
    BY <1>1 DEF State
  <2>2. QED
    BY <1>4, <1>6, <2>1
<1>7. QED
  BY <1>3, <1>5, <1>6 DEF PullSource

(* A pull that finds its alias taken has nothing of its own to look at. *)
LEMMA Pulls ==
    ASSUME Typed, NEW p \in Procs, Own(p), Pull(p)
    PROVE  Goes(p)
<1> PICK m : m = me[p]
  OBVIOUS
<1> PICK k : k = Kind(p)
  OBVIOUS
<1>1. m \in State /\ m.pc = "pull" /\ Route(k, m.pc, m.at) /\ (Within(k, m) <=> k # "direct")
  BY DEF Pull, At, Typed, Own, Sane, Path, Within, Inner
<1>2. k \notin Builds
  BY <1>1 DEF Route
<1>3. CASE NotFound(p)
  BY <1>1, <1>2, <1>3, Failing
<1>4. CASE To(p, "poll")
  <2>1. PICK n : Is(p, n, "poll", m.at, m.fp, m.bad)
    BY <1>4, Steps DEF PCs
  <2>2. Route(k, "poll", m.at) /\ (Inner(k, "poll", m.at) <=> k # "direct") /\ ~Read("poll", m.at, m.bad)
    BY <1>1 DEF Route, Inner, Read
  <2>3. QED
    BY <1>1, <2>1, <2>2, Going
<1>5. QED
  BY <1>3, <1>4 DEF Pull, PullFails

(* Hop A reads the alias it has pulled into. *)
LEMMA Polls ==
    ASSUME Typed, NEW p \in Procs, Own(p), Poll(p)
    PROVE  Goes(p)
<1> PICK m : m = me[p]
  OBVIOUS
<1> PICK k : k = Kind(p)
  OBVIOUS
<1> PICK got : got = alias[Place(p)]
  OBVIOUS
<1>1. /\ m \in State /\ got \in Image \union {None} /\ m.pc = "poll" /\ alias' = alias
      /\ Route(k, m.pc, m.at) /\ (Within(k, m) <=> k # "direct")
      /\ Cached(k) => got = alias'[Arch(p)]
  BY PlaceIs DEF Poll, At, Local, Kept, Typed, Own, Sane, Path, Within, Inner
<1>2. CASE NotFound(p) /\ k \notin Builds
  BY <1>1, <1>2, Failing
<1>3. CASE Leaves(p, TRUE) /\ k \in Builds
  <2>1. k # "direct"
    BY <1>3 DEF Builds
  <2>2. QED
    BY <1>1, <1>3, <2>1, Failing DEF GivesUp
<1>4. CASE got # None /\ k \in Builds /\ Stores(p, got, TRUE, "pulled")
  <2>1. PICK n : Is(p, n, "config", "pulled", got, m.bad)
    BY <1>1, <1>4, Steps DEF Ats
  <2>2. Route(k, "config", "pulled") /\ Inner(k, "config", "pulled") /\ k # "direct"
    BY <1>4 DEF Route, Inner, Builds
  <2>3. QED
    BY <1>1, <2>1, <2>2, Going
<1>5. CASE /\ got # None /\ k \notin Builds
           /\ Becomes(p, [me[p] EXCEPT !.pc = "verify", !.fp = got])
  <2> PICK n : n = [m EXCEPT !.pc = "verify", !.fp = got]
    OBVIOUS
  <2>1. n \in State /\ Becomes(p, n)
    BY <1>1, <1>5 DEF State, PCs
  <2>2. Is(p, n, "verify", m.at, got, m.bad)
    BY <1>1, <2>1 DEF Is, State
  <2>3. Route(k, "verify", m.at) /\ (Inner(k, "verify", m.at) <=> k # "direct")
    BY <1>1, <1>5 DEF Route, Inner
  <2>4. QED
    BY <1>1, <2>2, <2>3, Going
<1>6. QED
  BY <1>2, <1>3, <1>4, <1>5 DEF Poll

(* An OCI image is passed on as it was read. *)
LEMMA Verifies ==
    ASSUME Typed, NEW p \in Procs, Own(p), verifyArch(p)
    PROVE  Goes(p)
<1> PICK m : m = me[p]
  OBVIOUS
<1> PICK k : k = Kind(p)
  OBVIOUS
<1>1. /\ m \in State /\ m.pc = "verify" /\ Route(k, m.pc, m.at) /\ (Within(k, m) <=> k # "direct")
      /\ proto = "oci" /\ Cached(k) => alias[Arch(p)] = m.fp
  BY DEF verifyArch, At, Typed, Own, Sane, Path, Within, Inner, Steady, Reads, Read
<1>2. k \notin Builds
  BY <1>1 DEF Route
<1>3. CASE NotFound(p) \/ GivesUp(p)
  BY <1>1, <1>2, <1>3, Failing
<1>4. ASSUME alias' = alias, Stores(p, m.fp, proto = "oci", "pulled")
      PROVE  Goes(p)
  <2>1. PICK n : Is(p, n, "config", "pulled", m.fp, m.bad)
    BY <1>1, <1>4, Steps DEF Ats, State
  <2>2. Route(k, "config", "pulled") /\ (Inner(k, "config", "pulled") <=> k # "direct")
    BY DEF Route, Inner
  <2>3. QED
    BY <1>1, <1>4, <2>1, <2>2, Going
<1>5. QED
  BY <1>1, <1>3, <1>4 DEF verifyArch, Kept

(* The config is stored, or not, of the image that was read. *)
LEMMA StoresConfig ==
    ASSUME Typed, NEW p \in Procs, Own(p), ociStoreConfig(p)
    PROVE  Goes(p)
<1> PICK m : m = me[p]
  OBVIOUS
<1> PICK k : k = Kind(p)
  OBVIOUS
<1>1. /\ m \in State /\ m.pc = "config" /\ Route(k, m.pc, m.at) /\ alias' = alias
      /\ Within(k, m) <=> k # "direct" /\ m.at # "copied"
      /\ proto = "oci" /\ Cached(k) /\ m.at # "copied" => alias[Arch(p)] = m.fp
  BY DEF ociStoreConfig, At, Typed, Own, Sane, Path, Within, Inner, Steady, Reads, Read
<1>2. m.at \in {"hit", "pulled", "again", "copied"}
  BY <1>1 DEF Route
<1>3. ASSUME Stored(p) PROVE Goes(p)
  <2>1. CASE Look(p, "last") /\ ~Within(k, m)
    BY <1>1, <2>1, Failing
  <2>2. CASE Leaves(p, FALSE) /\ k # "direct" /\ m.at # "copied"
    <3>1. PICK n : Is(p, n, "release", m.at, m.fp, FALSE)
      BY <2>2, Steps
    <3>2. Route(k, "release", m.at) /\ Inner(k, "release", m.at)
      BY <1>2, <2>2 DEF Route, Inner
    <3>3. QED
      BY <1>1, <2>2, <3>1, <3>2, Going
  <2>3. CASE /\ k \in Builds /\ m.at = "pulled"
             /\ Becomes(p, [me[p] EXCEPT !.pc = "release", !.bad = FALSE, !.ens = me[p].fp])
    <3> PICK n : n = [m EXCEPT !.pc = "release", !.bad = FALSE, !.ens = m.fp]
      OBVIOUS
    <3>1. n \in State /\ Becomes(p, n) /\ n.pc = "release" /\ n.at = "pulled" /\ n.fp = m.fp
          /\ n.result = m.result
      <4>1. "release" \in PCs
        BY DEF PCs
      <4>2. n \in State /\ n.pc = "release" /\ n.at = m.at /\ n.fp = m.fp
            /\ n.result = m.result
        BY <1>1, <4>1 DEF State
      <4>3. Becomes(p, n) /\ m.at = "pulled"
        BY <2>3
      <4>4. QED
        BY <4>2, <4>3
    <3>2. k # "direct" /\ m.result # "ok"
      BY <1>1, <2>3 DEF Builds, Own, Sane, Path
    <3>3. Path(k, n) /\ Asked(p, n) /\ Within(k, n) /\ Within(k, m)
      BY <1>1, <2>3, <3>1, <3>2 DEF Path, Route, Asked, Within, Inner
    <3>4. QED
      BY <1>1, <2>3, <3>1, <3>3 DEF Goes, Leads, Sane
  <2>4. QED
    BY <1>1, <1>3, <2>1, <2>2, <2>3 DEF Stored
<1>4. ASSUME NEW missing \in BOOLEAN, StoreFailed(p, missing) PROVE Goes(p)
  <2>1. CASE CreateFailed(p) /\ m.at = "copied"
    BY <1>1, <2>1, Failing
  <2>2. CASE NotFound(p) /\ k \notin Builds /\ m.at # "copied"
    BY <1>1, <2>2, Failing
  <2>3. CASE GivesUp(p) /\ m.at # "copied"
    BY <1>1, <2>3, Failing
  <2>4. QED
    BY <1>4, <2>1, <2>2, <2>3 DEF StoreFailed
<1>5. QED
  BY <1>3, <1>4 DEF ociStoreConfig

(* A miss reads the alias once more. *)
LEMMA Rechecks ==
    ASSUME Typed, NEW p \in Procs, Own(p), Recheck(p)
    PROVE  Goes(p)
<1> PICK m : m = me[p]
  OBVIOUS
<1> PICK k : k = Kind(p)
  OBVIOUS
<1> PICK got : got = alias[Arch(p)]
  OBVIOUS
<1>1. m \in State /\ got \in Image \union {None} /\ m.pc = "recheck" /\ alias' = alias
      /\ Route(k, m.pc, m.at)
  BY PlaceIs DEF Recheck, At, Local, Kept, Typed, Places, Own, Sane, Path
<1>2. k # "direct" /\ k \notin Builds /\ Within(k, m)
  BY <1>1 DEF Route, Within, Inner
<1>3. CASE Leaves(p, TRUE)
  BY <1>1, <1>2, <1>3, Failing DEF GivesUp
<1>4. CASE Stores(p, got, FALSE, "again")
  <2>1. PICK n : Is(p, n, "config", "again", got, m.bad)
    BY <1>1, <1>4, Steps DEF Ats
  <2>2. Route(k, "config", "again") /\ Inner(k, "config", "again")
    BY <1>2 DEF Route, Inner
  <2>3. QED
    BY <1>1, <1>2, <2>1, <2>2, Going
<1>5. QED
  BY <1>3, <1>4 DEF Recheck

(* Hop B is outside every lock. *)
LEMMA Copies ==
    ASSUME Typed, NEW p \in Procs, Own(p), CopyFind(p) \/ CopyClear(p) \/ CopyLand(p)
    PROVE  Goes(p)
<1> PICK m : m = me[p]
  OBVIOUS
<1> PICK k : k = Kind(p)
  OBVIOUS
<1>1. m \in State /\ m.pc \in {"copy", "clear", "land"} /\ Route(k, m.pc, m.at) /\ ~Within(k, m)
  BY DEF CopyFind, CopyClear, CopyLand, At, Typed, Own, Sane, Path, Within, Inner
<1>2. CASE CreateFailed(p) \/ Look(p, "last")
  BY <1>1, <1>2, Failing
<1>3. ASSUME NEW pc \in {"clear", "land"}, To(p, pc) PROVE Goes(p)
  <2>1. PICK n : Is(p, n, pc, m.at, m.fp, m.bad)
    BY <1>3, Steps DEF PCs
  <2>2. Route(k, pc, m.at) /\ ~Inner(k, pc, m.at) /\ ~Read(pc, m.at, m.bad)
    BY <1>1 DEF Route, Inner, Read
  <2>3. QED
    BY <1>1, <2>1, <2>2, Going
<1>4. CASE Stores(p, m.fp, FALSE, "copied")
  <2>1. PICK n : Is(p, n, "config", "copied", m.fp, m.bad)
    BY <1>1, <1>4, Steps DEF Ats, State
  <2>2. Route(k, "config", "copied") /\ ~Inner(k, "config", "copied") /\ ~Read("config", "copied", m.bad)
    BY <1>1 DEF Route, Inner, Read
  <2>3. QED
    BY <1>1, <2>1, <2>2, Going
<1>5. QED
  BY <1>2, <1>3, <1>4 DEF CopyFind, CopyClear, CopyLand

(* So are a build and a look at the source. *)
LEMMA Builded ==
    ASSUME Typed, NEW p \in Procs, Own(p), BuildStored(p) \/ BuildImage(p) \/ readSource(p) \/ refreshImages(p)
    PROVE  Goes(p)
<1> PICK m : m = me[p]
  OBVIOUS
<1> PICK k : k = Kind(p)
  OBVIOUS
<1> PICK fp : fp = alias[Arch(p)]
  OBVIOUS
<1>1. /\ m \in State /\ m.pc \in {"store", "build", "resolve", "compare"} /\ Route(k, m.pc, m.at)
      /\ ~Within(k, m) /\ fp \in Image \union {None}
  BY PlaceIs DEF BuildStored, BuildImage, readSource, refreshImages, At, Typed, Places, Own, Sane, Path, Within, Inner
<1>2. CASE Failed(p)
  BY <1>1, <1>2, Failing
<1>3. ASSUME NEW n, NEW pc, NEW at, NEW f, Is(p, n, pc, at, f, m.bad), pc \in {"build", "lock", "copy", "compare", "get"},
             pc = "lock" => k # "direct", pc = "compare" => k = "always", at = "drop" => k \in {"always", "down"}
      PROVE  Goes(p)
  <2>1. Route(k, pc, at) /\ ~Inner(k, pc, at) /\ ~Read(pc, at, m.bad)
    BY <1>1, <1>3 DEF Route, Inner, Read
  <2>2. QED
    BY <1>1, <1>3, <2>1, Going
<1>4. m.at = "drop" => k \in {"always", "down"}
  BY <1>1 DEF Route
<1>5. ASSUME NEW pc \in {"build", "lock", "compare"}, To(p, pc), pc = "lock" => k # "direct", pc = "compare" => k = "always"
      PROVE  Goes(p)
  <2>1. PICK n : Is(p, n, pc, m.at, m.fp, m.bad)
    BY <1>5, Steps DEF PCs
  <2>2. QED
    BY <1>3, <1>4, <1>5, <2>1
<1>6. CASE Becomes(p, [me[p] EXCEPT !.pc = "copy", !.fp = alias[Arch(p)]])
  <2> PICK n : n = [m EXCEPT !.pc = "copy", !.fp = fp]
    OBVIOUS
  <2>1. n \in State /\ Becomes(p, n)
    BY <1>1, <1>6 DEF State, PCs
  <2>2. Is(p, n, "copy", m.at, fp, m.bad)
    BY <1>1, <2>1 DEF Is, State
  <2>3. QED
    BY <1>3, <1>4, <2>2
<1>7. ASSUME NEW f \in Image, k = "always", Becomes(p, [me[p] EXCEPT !.pc = "compare", !.src = f])
      PROVE  Goes(p)
  <2> PICK n : n = [m EXCEPT !.pc = "compare", !.src = f]
    OBVIOUS
  <2>1. n \in State /\ Becomes(p, n)
    BY <1>1, <1>7 DEF State, PCs
  <2>2. Is(p, n, "compare", m.at, m.fp, m.bad)
    BY <1>1, <2>1 DEF Is, State
  <2>3. QED
    BY <1>3, <1>4, <1>7, <2>2
<1>8. CASE refreshImages(p)
  <2> PICK at : at = IF m.src \in {None, m.ens} THEN "first" ELSE "drop"
    OBVIOUS
  <2> PICK n : n = [m EXCEPT !.pc = "get", !.phase = 2, !.at = at]
    OBVIOUS
  <2>1. at \in {"first", "drop"} /\ at \in Ats /\ "get" \in PCs
    BY DEF Ats, PCs
  <2>2. n \in State /\ Becomes(p, n)
    <3>1. n \in State
      BY <1>1, <2>1, ZenonT(60) DEF State
    <3>2. Becomes(p, n)
      BY <1>8 DEF refreshImages
    <3>3. QED
      BY <3>1, <3>2
  <2>3. Is(p, n, "get", at, m.fp, m.bad)
    BY <1>1, <2>2 DEF Is, State
  <2>4. k = "always"
    BY <1>1, <1>8 DEF refreshImages, At, Route
  <2>5. QED
    BY <1>3, <2>3, <2>4
<1>9. CASE BuildStored(p)
  BY <1>5, <1>6, <1>9 DEF BuildStored
<1>10. CASE BuildImage(p)
  <2>1. k # "direct"
    BY <1>1, <1>10 DEF BuildImage, At, Route
  <2>2. QED
    BY <1>2, <1>5, <1>10, <2>1 DEF BuildImage
<1>11. CASE readSource(p)
  <2>1. k = "always"
    BY <1>1, <1>11 DEF readSource, At, Route
  <2>2. \A a \in Archs : Pulled(a) \in Image
    BY DEF Pulled, Image, Typed
  <2>3. \A f \in sourceFingerprint(p) : f \in Image
    BY <2>2, PlaceIs DEF sourceFingerprint, ociResolveSource
  <2>4. QED
    BY <1>5, <1>7, <1>11, <2>1, <2>3 DEF readSource
<1>12. QED
  BY <1>8, <1>9, <1>10, <1>11

(* An import and a drop of the cache's copy are inside. *)
LEMMA Imports ==
    ASSUME Typed, NEW p \in Procs, Own(p), ImportClear(p) \/ Import(p) \/ DropCached(p)
    PROVE  Goes(p)
<1> PICK m : m = me[p]
  OBVIOUS
<1> PICK k : k = Kind(p)
  OBVIOUS
<1>1. m \in State /\ m.pc \in {"importing", "import", "cached"} /\ Route(k, m.pc, m.at)
  BY DEF ImportClear, Import, DropCached, At, Typed, Own, Sane, Path
<1>2. k # "direct" /\ Within(k, m) /\ (m.pc \in {"importing", "import"} => k \in Builds)
      /\ (m.pc = "cached" => m.at = "drop")
  BY <1>1 DEF Route, Within, Inner
<1>3. CASE Leaves(p, TRUE)
  BY <1>1, <1>2, <1>3, Failing DEF GivesUp
<1>4. CASE Leaves(p, FALSE) /\ DropCached(p)
  <2>1. PICK n : Is(p, n, "release", m.at, m.fp, FALSE)
    BY <1>4, Steps
  <2>2. m.at = "drop"
    BY <1>2, <1>4 DEF DropCached, At
  <2>3. Route(k, "release", m.at) /\ Inner(k, "release", m.at) /\ ~Read("release", m.at, FALSE)
    BY <1>1, <1>2, <2>2 DEF Route, Inner, Read
  <2>4. QED
    BY <1>1, <1>2, <2>1, <2>3, Going
<1>5. ASSUME NEW pc \in {"import", "poll"}, To(p, pc), ImportClear(p) \/ Import(p) PROVE Goes(p)
  <2>1. PICK n : Is(p, n, pc, m.at, m.fp, m.bad)
    BY <1>5, Steps DEF PCs
  <2>2. k \in Builds
    BY <1>2, <1>5 DEF ImportClear, Import, At
  <2>3. Route(k, pc, m.at) /\ Inner(k, pc, m.at) /\ ~Read(pc, m.at, m.bad)
    BY <1>1, <1>2, <2>2 DEF Route, Inner, Read
  <2>4. QED
    BY <1>1, <1>2, <2>1, <2>3, Going
<1>6. QED
  BY <1>3, <1>4, <1>5 DEF ImportClear, Import, DropCached

(* The project's copy is deleted outside. *)
LEMMA Removes ==
    ASSUME Typed, NEW p \in Procs, Own(p), Remove(p)
    PROVE  Goes(p)
<1> PICK m : m = me[p]
  OBVIOUS
<1> PICK k : k = Kind(p)
  OBVIOUS
<1>1. m \in State /\ m.pc = "remove" /\ Path(k, m) /\ ~Within(k, m)
  BY DEF Remove, At, Typed, Own, Sane, Path, Within, Inner
<1>2. CASE Failed(p)
  BY <1>1, <1>2, Failing
<1>3. CASE Becomes(p, [Cleared(me[p]) EXCEPT !.pc = "get", !.at = "first"])
  <2> PICK n : n = [Cleared(m) EXCEPT !.pc = "get", !.at = "first"]
    OBVIOUS
  <2>1. "get" \in PCs /\ "first" \in Ats
    BY DEF PCs, Ats
  <2>2. n \in State /\ n.pc = "get" /\ n.at = "first" /\ n.result = m.result
    BY <1>1, <2>1 DEF Cleared, State
  <2>3. Path(k, n) /\ Asked(p, n) /\ ~Within(k, n) /\ ~Reads(n)
    BY <1>1, <2>2 DEF Path, Route, Asked, Within, Inner, Reads, Read
  <2>4. QED
    BY <1>1, <1>3, <2>2, <2>3 DEF Goes, Leads, Sane
<1>4. CASE Becomes(p, [Cleared(me[p]) EXCEPT !.pc = "done", !.result = "ok"])
  <2> PICK n : n = [Cleared(m) EXCEPT !.pc = "done", !.result = "ok"]
    OBVIOUS
  <2>1. "done" \in PCs
    BY DEF PCs
  <2>2. n \in State /\ n.pc = "done" /\ n.at = m.at /\ n.ens = None
    BY <1>1, <2>1 DEF Cleared, State
  <2>3. Becomes(p, n)
    BY <1>4
  <2>4. QED
    BY <1>1, <2>2, <2>3, Ending DEF Ended
<1>5. QED
  BY <1>2, <1>3, <1>4 DEF Remove

(* The steps that leave the locks alone. *)
Apart(p) ==
    \/ GetAlias(p) \/ GetImage(p) \/ Materialize(p) \/ PullSource(p) \/ Pull(p) \/ Poll(p)
    \/ verifyArch(p) \/ ociStoreConfig(p) \/ Recheck(p) \/ CopyFind(p) \/ CopyClear(p) \/ CopyLand(p)
    \/ BuildStored(p) \/ BuildImage(p) \/ ImportClear(p) \/ Import(p) \/ readSource(p)
    \/ refreshImages(p) \/ DropCached(p) \/ Remove(p)

(* No step but a lock's, a release and a death touches a lock or a job.  *)
LEMMA ApartGoes ==
    ASSUME Typed, NEW p \in Procs, Own(p), Apart(p)
    PROVE  Goes(p) /\ UNCHANGED <<proto, job, holder, rev>>
<1>1. Goes(p)
  BY Gets, Materializes, PullsSource, Pulls, Polls, Verifies, StoresConfig, Rechecks, Copies, Builded,
     Imports, Removes DEF Apart
<1>2. UNCHANGED <<proto, job, holder, rev>>
  BY DEF Apart, GetAlias, GetImage, Materialize, PullSource, Pull, Poll, verifyArch, ociStoreConfig,
         Recheck, CopyFind, CopyClear, CopyLand, BuildStored, BuildImage, ImportClear, Import, readSource,
         refreshImages, DropCached, Remove, Local, Fixed
<1>3. QED
  BY <1>1, <1>2

-----------------------------------------------------------------------------
(* What a step of p does to the cache: its own platform's alias is filled, *)
(* or aliases are emptied, of an OCI image only those that name the one    *)
(* under its own platform's alias.                                         *)
Fills(p, a) ==
    /\ a = Arch(p) /\ Cached(Kind(p)) /\ Within(Kind(p), me[p])
    /\ To(p, "poll")
    /\ \/ At(p, "pull") /\ Kind(p) \notin Builds /\ alias'[a] = me[p].fp
       \/ alias'[a] = Built(p)
Empties(p, a) ==
    /\ alias'[a] = None
    /\ proto = "oci" => /\ Cached(Kind(p)) /\ Within(Kind(p), me[p])
                        /\ alias[a] # None /\ alias[a] = alias[Arch(p)]
Effect(p) ==
    /\ alias' \in [Places -> Image \union {None}]
    /\ \A a \in Archs : alias'[a] = alias[a] \/ Fills(p, a) \/ Empties(p, a)

(* Dropping an image empties aliases that named it, and no project's drop  *)
(* reaches the cache.                                                      *)
LEMMA Dropping ==
    ASSUME Typed, NEW x \in Places, NEW fp, Dropped(fp, x)
    PROVE  /\ alias' \in [Places -> Image \union {None}]
           /\ x \in Projects => \A a \in Archs : alias'[a] = alias[a]
           /\ \A a \in Archs : alias'[a] = alias[a] \/ (alias'[a] = None /\ alias[a] = fp)
           /\ x \in Archs => \A a \in Archs : alias[a] = fp => alias'[a] = None
<1>1. alias' = [y \in Places |-> IF y \in Store(x) /\ alias[y] = fp THEN None ELSE alias[y]]
  BY DEF Dropped, Without
<1>2. alias' \in [Places -> Image \union {None}]
  BY <1>1 DEF Typed
<1>3. x \in Projects => x \notin Archs /\ \A a \in Archs : a \notin Store(x)
  BY ImagesAssumption DEF ImagesAssumption, Store
<1>4. x \in Archs => Store(x) = Archs
  BY DEF Store
<1>5. Archs \subseteq Places
  BY DEF Places
<1>6. QED
  BY <1>1, <1>2, <1>3, <1>4, <1>5

(* A pull and an import land under the process's own place.                *)
LEMMA Lands ==
    ASSUME Typed, NEW p \in Procs, NEW fp \in Image, alias' = [alias EXCEPT ![Place(p)] = fp]
    PROVE  /\ alias' \in [Places -> Image \union {None}]
           /\ \A a \in Archs : alias'[a] = alias[a] \/ (a = Arch(p) /\ Cached(Kind(p)) /\ alias'[a] = fp)
<1>1. Place(p) \in Places /\ (Place(p) \in Archs => Cached(Kind(p)) /\ Place(p) = Arch(p))
  BY PlaceIs
<1>2. Archs \subseteq Places
  BY DEF Places
<1>3. QED
  BY <1>1, <1>2 DEF Typed

(* The steps that make or drop an image in the cache.                      *)
LEMMA Writes ==
    ASSUME Typed, NEW p \in Procs, Own(p),
           Pull(p) \/ Import(p) \/ ImportClear(p) \/ DropCached(p) \/ verifyArch(p)
    PROVE  Effect(p)
<1>1. me[p] \in State /\ Route(Kind(p), me[p].pc, me[p].at)
  BY DEF Typed, Own, Sane, Path
<1>2. Cached(Kind(p)) => Kind(p) # "direct"
  BY DEF Cached
<1>3. Kept => Effect(p)
  BY DEF Kept, Effect, Typed
<1>4. CASE Pull(p) /\ ~Kept
  <2>1. /\ alias[Place(p)] = None /\ alias' = [alias EXCEPT ![Place(p)] = me[p].fp]
        /\ To(p, "poll") /\ At(p, "pull")
    BY <1>4 DEF Pull
  <2>2. Kind(p) \notin Builds /\ (Cached(Kind(p)) => Within(Kind(p), me[p]))
    BY <1>1, <1>2, <2>1 DEF At, Route, Within, Inner
  <2>3. CASE me[p].fp = None
    <3>1. alias' = alias
      BY <2>1, <2>3, PlaceIs DEF Typed
    <3>2. QED
      BY <3>1 DEF Effect, Typed
  <2>4. CASE me[p].fp # None
    <3>1. me[p].fp \in Image
      BY <1>1, <2>4 DEF State
    <3>2. QED
      BY <2>1, <2>2, <3>1, Lands DEF Effect, Fills
  <2>5. QED
    BY <2>3, <2>4
<1>5. CASE Import(p) /\ ~Kept
  <2>1. alias' = [alias EXCEPT ![Place(p)] = Built(p)] /\ At(p, "import") /\ To(p, "poll")
    BY <1>5 DEF Import
  <2>2. Cached(Kind(p)) => Within(Kind(p), me[p])
    BY <1>1, <1>2, <2>1 DEF At, Within, Inner
  <2>3. Built(p) \in Image
    BY PlaceIs DEF Built, Image
  <2>4. QED
    BY <2>1, <2>2, <2>3, Lands DEF Effect, Fills
<1>6. CASE (ImportClear(p) \/ DropCached(p)) /\ ~Kept
  <2>1. PICK x \in {Place(p), Arch(p)} :
           alias[x] # None /\ Dropped(alias[x], x) /\ (At(p, "cached") => x = Arch(p))
           /\ (At(p, "importing") => x = Place(p)) /\ (At(p, "importing") \/ At(p, "cached"))
    BY <1>6 DEF ImportClear, DropCached, At
  <2>2. x \in Places /\ (x \in Archs => x = Arch(p)) /\ (x \in Archs \/ x \in Projects)
    BY <2>1, PlaceIs DEF Places
  <2>3. x \in Archs => Cached(Kind(p)) /\ Within(Kind(p), me[p])
    <3>1. CASE At(p, "importing")
      BY <1>1, <1>2, <2>1, <3>1, PlaceIs DEF At, Route, Within, Inner
    <3>2. CASE At(p, "cached")
      <4>1. me[p].at = "drop" /\ Kind(p) \in {"always", "down"}
        BY <1>1, <3>2 DEF At, Route
      <4>2. QED
        BY <3>2, <4>1 DEF At, Within, Inner, Cached
    <3>3. QED
      BY <2>1, <3>1, <3>2
  <2>4. QED
    BY <2>1, <2>2, <2>3, Dropping DEF Effect, Empties
<1>7. CASE verifyArch(p) /\ ~Kept
  <2>1. Dropped(me[p].fp, Place(p)) /\ proto # "oci"
    BY <1>7 DEF verifyArch
  <2>2. QED
    BY <2>1, PlaceIs, Dropping DEF Effect, Empties
<1>8. QED
  BY <1>3, <1>4, <1>5, <1>6, <1>7

(* The steps of a project's own copy, and those that only read.            *)
LEMMA Spares ==
    ASSUME Typed, NEW p \in Procs, Own(p), Apart(p),
           ~(Pull(p) \/ Import(p) \/ ImportClear(p) \/ DropCached(p) \/ verifyArch(p))
    PROVE  Effect(p)
<1>1. alias' = alias => Effect(p)
  BY DEF Effect, Typed
<1>2. CASE GetAlias(p) \/ GetImage(p) \/ Materialize(p) \/ PullSource(p) \/ Poll(p) \/ ociStoreConfig(p)
           \/ Recheck(p) \/ CopyFind(p) \/ BuildStored(p) \/ BuildImage(p) \/ readSource(p) \/ refreshImages(p)
  BY <1>1, <1>2 DEF GetAlias, GetImage, Materialize, PullSource, Poll, ociStoreConfig, Recheck, CopyFind,
         BuildStored, BuildImage, readSource, refreshImages, Local, Kept
<1>3. Proj(p) \in Projects /\ Proj(p) \in Places
  BY PlaceIs DEF Places
<1>4. CASE (CopyClear(p) \/ Remove(p)) /\ alias' # alias
  <2>1. PICK fp : Dropped(fp, Proj(p))
    BY <1>4 DEF CopyClear, Remove, Kept
  <2>2. QED
    BY <1>3, <2>1, Dropping DEF Effect
<1>5. CASE CopyLand(p) /\ alias' # alias
  <2>1. alias' = [alias EXCEPT ![Proj(p)] = me[p].fp] /\ me[p].fp \in Image \union {None}
    BY <1>5 DEF CopyLand, Kept, Typed, State
  <2>2. \A a \in Archs : a # Proj(p) /\ a \in Places
    BY <1>3, ImagesAssumption DEF ImagesAssumption, Places
  <2>3. QED
    BY <1>3, <2>1, <2>2 DEF Effect, Typed
<1>6. QED
  BY <1>1, <1>2, <1>4, <1>5 DEF Apart


-----------------------------------------------------------------------------
(* A process that reads under the lock is inside it.                       *)
LEMMA Reading ==
    ASSUME NEW p \in Procs, Path(Kind(p), me[p]), Cached(Kind(p)), Reads(me[p])
    PROVE  Within(Kind(p), me[p])
BY DEF Path, Route, Cached, Reads, Read, Within, Inner

(* Two processes inside are under different aliases.                       *)
LEMMA Separate ==
    ASSUME Typed, NEW p \in Procs, NEW q \in Procs \ {p}, Own(p), Own(q),
           Within(Kind(p), me[p]), Within(Kind(q), me[q])
    PROVE  Arch(p) # Arch(q)
BY PlaceIs DEF Own, Locking

(* Who does not move keeps what is his own, if nobody takes or gives his   *)
(* locks, nor changes the OCI image he reads.                              *)
LEMMA Staying ==
    ASSUME Typed, NEW q \in Procs, Own(q), UNCHANGED <<proto, job>>, me'[q] = me[q],
           \A a \in Archs : holder'[a] = q <=> holder[a] = q,
           proto = "oci" /\ Cached(Kind(q)) /\ Reads(me[q]) => alias'[Arch(q)] = alias[Arch(q)]
    PROVE  Own(q)'
<1>1. Sane(q, me[q])'
  BY Constant DEF Own, Sane, Path, Route, Asked
<1>2. Locking(q)'
  BY Constant DEF Own, Locking, Within, Inner
<1>3. Steady(q, me[q])'
  BY Constant DEF Own, Steady, Reads, Read
<1>4. QED
  BY <1>1, <1>2, <1>3 DEF Own

(* The steps inside a lock or away from all keep what is everyone's own.   *)
LEMMA ApartOwns ==
    ASSUME IInv, NEW p \in Procs, Apart(p)
    PROVE  /\ UNCHANGED <<proto, job, holder, rev>> /\ Effect(p)
           /\ me' \in [Procs -> State] /\ \A q \in Procs : Own(q)'
           /\ \A q \in Procs \ {p} : me'[q] = me[q]
<1>1. Typed /\ (\A q \in Procs : Own(q)) /\ Sorting
  BY DEF IInv
<1>2. Goes(p) /\ UNCHANGED <<proto, job, holder, rev>>
  BY <1>1, ApartGoes
<1>3. Effect(p)
  BY <1>1, Writes, Spares
<1>4. PICK n : Leads(p, n) /\ (proto = "oci" /\ Cached(Kind(p)) /\ Reads(n) => alias'[Arch(p)] = n.fp)
  BY <1>2 DEF Goes
<1>5. me' \in [Procs -> State] /\ Own(p)' /\ \A q \in Procs \ {p} : me'[q] = me[q]
  BY <1>1, <1>2, <1>4, Leading
<1>6. ASSUME NEW q \in Procs \ {p}, proto = "oci", Cached(Kind(q)), Reads(me[q])
      PROVE  alias'[Arch(q)] = alias[Arch(q)]
  <2>1. Within(Kind(q), me[q])
    BY <1>1, <1>6, Reading DEF Own, Sane
  <2>2. Within(Kind(p), me[p]) => Arch(p) # Arch(q)
    BY <1>1, <2>1, Separate
  <2>3. Arch(q) \in Archs /\ Arch(p) \in Archs /\ Sorted(Arch(q)) /\ Sorted(Arch(p))
    BY <1>1, <1>6, PlaceIs DEF Sorting
  <2>4. ~Fills(p, Arch(q))
    BY <2>2 DEF Fills
  <2>5. ~Empties(p, Arch(q))
    BY <1>6, <2>2, <2>3 DEF Empties, Sorted
  <2>6. QED
    BY <1>3, <2>3, <2>4, <2>5 DEF Effect
<1>7. \A q \in Procs \ {p} : Own(q)'
  BY <1>1, <1>2, <1>5, <1>6, Staying
<1>8. QED
  BY <1>2, <1>3, <1>5, <1>7

-----------------------------------------------------------------------------

(* Where a process that has taken or given its lock stands.                *)
LEMMA Turning ==
    ASSUME Typed, NEW p \in Procs, Own(p), UNCHANGED <<proto, job, alias>>,
           holder' \in [Archs -> Procs \union {None}],
           \A b \in Archs, q \in Procs \ {p} : holder'[b] = q <=> holder[b] = q,
           \A q \in Procs : Own(q),
           NEW n \in State, Becomes(p, n), Sane(p, n), ~Reads(n),
           \A b \in Archs : holder'[b] = p <=> b = Arch(p) /\ Within(Kind(p), n)
    PROVE  /\ me' \in [Procs -> State] /\ \A q \in Procs : Own(q)'
           /\ me'[p] = n /\ \A q \in Procs \ {p} : me'[q] = me[q]
<1>1. me' \in [Procs -> State] /\ me'[p] = n /\ \A q \in Procs \ {p} : me'[q] = me[q]
  BY Become DEF Typed
<1>2. Own(p)'
  <2>1. Sane(p, me[p])'
    BY <1>1, Constant DEF Sane, Path, Route, Asked
  <2>2. Locking(p)'
    BY <1>1, Constant DEF Locking, Within, Inner
  <2>3. Steady(p, me[p])'
    BY <1>1, Constant DEF Steady, Reads, Read
  <2>4. QED
    BY <2>1, <2>2, <2>3 DEF Own
<1>3. \A q \in Procs \ {p} : Own(q)'
  BY <1>1, Staying
<1>4. QED
  BY <1>1, <1>2, <1>3

(* A platform's alias is locked by who goes inside.                        *)
LEMMA Locks ==
    ASSUME IInv, NEW p \in Procs, LockStore(p)
    PROVE  /\ holder' \in [Archs -> Procs \union {None}] /\ me' \in [Procs -> State]
           /\ \A q \in Procs : Own(q)'
           /\ me'[p].pc \notin {"poll", "verify"} /\ me[p].pc \notin {"poll", "verify"}
           /\ \A q \in Procs \ {p} : me'[q] = me[q]
<1> PICK m : m = me[p]
  OBVIOUS
<1> PICK k : k = Kind(p)
  OBVIOUS
<1>1. Typed /\ Own(p) /\ (\A q \in Procs : Own(q)) /\ Arch(p) \in Archs
  BY PlaceIs DEF IInv
<1>2. m \in State /\ m.pc = "lock" /\ Route(k, m.pc, m.at) /\ ~Within(k, m) /\ Path(k, m)
  BY <1>1 DEF LockStore, At, Typed, Own, Sane, Path, Within, Inner
<1>3. holder[Arch(p)] = None /\ holder' = [holder EXCEPT ![Arch(p)] = p]
      /\ UNCHANGED <<proto, job, alias>>
  BY DEF LockStore, M!Acquire, Fixed, Kept
<1>4. /\ holder' \in [Archs -> Procs \union {None}]
      /\ \A b \in Archs, q \in Procs \ {p} : holder'[b] = q <=> holder[b] = q
      /\ \A b \in Archs : holder'[b] = p <=> b = Arch(p)
  <2>1. \A b \in Archs : holder[b] # p
    BY <1>1, <1>2 DEF Own, Locking
  <2>2. None \notin Procs
    BY ImagesAssumption DEF ImagesAssumption
  <2>3. QED
    BY <1>1, <1>3, <2>1, <2>2 DEF Typed
<1>5. PICK n, pc : /\ Is(p, n, pc, m.at, m.fp, m.bad)
                   /\ \/ pc = "importing" /\ k \in Builds
                      \/ pc = "cached" /\ k \notin Builds /\ m.at = "drop"
                      \/ pc = "materialize" /\ k \notin Builds
  <2>1. {"importing", "cached", "materialize"} \subseteq PCs
    BY DEF PCs
  <2>2. QED
    BY <1>1, <2>1, Steps DEF LockStore, Entered
<1>6. k # "direct" /\ Route(k, pc, m.at) /\ Inner(k, pc, m.at) /\ ~Read(pc, m.at, m.bad)
  BY <1>2, <1>5 DEF Route, Inner, Read
<1>7. Path(k, n) /\ Asked(p, n) /\ Within(k, n) /\ ~Reads(n)
  BY <1>1, <1>2, <1>5, <1>6 DEF Is, Own, Sane, Path, Asked, Within, Reads
<1>8. n \in State /\ Becomes(p, n) /\ n.pc \notin {"poll", "verify"}
  BY <1>5 DEF Is
<1>9. QED
  BY <1>1, <1>2, <1>3, <1>4, <1>7, <1>8, Turning DEF Sane

(* It is given back by who leaves.                                         *)
LEMMA Gives ==
    ASSUME IInv, NEW p \in Procs, Release(p)
    PROVE  /\ holder' \in [Archs -> Procs \union {None}] /\ me' \in [Procs -> State]
           /\ \A q \in Procs : Own(q)'
           /\ me[p].pc \notin {"poll", "verify"}
           /\ \A q \in Procs \ {p} : me'[q] = me[q]
<1> PICK m : m = me[p]
  OBVIOUS
<1> PICK k : k = Kind(p)
  OBVIOUS
<1>1. Typed /\ Own(p) /\ (\A q \in Procs : Own(q)) /\ Arch(p) \in Archs
  BY PlaceIs DEF IInv
<1>2. m \in State /\ m.pc = "release" /\ Route(k, m.pc, m.at) /\ Within(k, m) /\ Path(k, m)
  BY <1>1 DEF Release, At, Typed, Own, Sane, Path, Route, Within, Inner
<1>3. holder[Arch(p)] = p /\ holder' = [holder EXCEPT ![Arch(p)] = None]
      /\ UNCHANGED <<proto, job, alias>>
  BY DEF Release, M!Release, Fixed, Kept
<1>4. /\ holder' \in [Archs -> Procs \union {None}]
      /\ \A b \in Archs, q \in Procs \ {p} : holder'[b] = q <=> holder[b] = q
      /\ \A b \in Archs : holder'[b] # p
  <2>1. \A b \in Archs : holder[b] = p => b = Arch(p)
    BY <1>1 DEF Own, Locking
  <2>2. None \notin Procs
    BY ImagesAssumption DEF ImagesAssumption
  <2>3. QED
    BY <1>1, <1>3, <2>1, <2>2 DEF Typed
<1>5. ASSUME NEW n \in State, Becomes(p, n), Path(k, n), n.pc \in {"done", "get", "remove", "copy"}
      PROVE  me' \in [Procs -> State] /\ (\A q \in Procs : Own(q)') /\ \A q \in Procs \ {p} : me'[q] = me[q]
  <2>1. ~Within(k, n) /\ ~Reads(n) /\ Asked(p, n)
    BY <1>5 DEF Within, Inner, Reads, Read, Asked
  <2>2. QED
    BY <1>1, <1>3, <1>4, <1>5, <2>1, Turning DEF Sane
<1>6. ASSUME NEW n, Ended(p, n)
      PROVE  n \in State /\ Becomes(p, n) /\ Path(k, n) /\ n.pc = "done"
  BY <1>2, <1>6 DEF Ended, Path, Route
<1>7. ASSUME NEW n, NEW pc \in {"get", "remove", "copy"}, NEW at \in {m.at, "adopt"}, Is(p, n, pc, at, m.fp, m.bad)
      PROVE  n \in State /\ Becomes(p, n) /\ Path(k, n) /\ n.pc = pc
  BY <1>2, <1>7 DEF Is, Path, Route
<1>8. /\ Failed(p) => \E n : Ended(p, n)
      /\ Look(p, "adopt") => \E n : Is(p, n, "get", "adopt", m.fp, m.bad)
      /\ \A pc \in {"remove", "copy"} : To(p, pc) => \E n : Is(p, n, pc, m.at, m.fp, m.bad)
  <2>1. {"remove", "copy"} \subseteq PCs /\ "adopt" \in Ats
    BY DEF PCs, Ats
  <2>2. QED
    BY <1>1, <2>1, Steps
<1>9. CASE k = "nocache" /\ Becomes(p, [me[p] EXCEPT !.pc = "done", !.result = "ok"])
  <2> PICK n : n = [m EXCEPT !.pc = "done", !.result = "ok"]
    OBVIOUS
  <2>1. n \in State /\ n.pc = "done" /\ n.at = m.at /\ n.ens = m.ens
    BY <1>2 DEF State, PCs
  <2>2. Path(k, n)
    BY <1>2, <2>1 DEF Path, Route
  <2>3. Becomes(p, n)
    BY <1>9
  <2>4. QED
    BY <1>2, <1>4, <1>5, <2>1, <2>2, <2>3
<1>10. \/ Failed(p) \/ Look(p, "adopt") \/ (\E pc \in {"remove", "copy"} : To(p, pc))
       \/ k = "nocache" /\ Becomes(p, [me[p] EXCEPT !.pc = "done", !.result = "ok"])
  BY DEF Release, CreateFailed
<1>11. me' \in [Procs -> State] /\ (\A q \in Procs : Own(q)') /\ \A q \in Procs \ {p} : me'[q] = me[q]
  BY <1>5, <1>6, <1>7, <1>8, <1>9, <1>10
<1>12. QED
  BY <1>2, <1>4, <1>11

(* And by who dies.                                                        *)
LEMMA Dies ==
    ASSUME IInv, NEW p \in Procs, Crash(p)
    PROVE  /\ holder' \in [Archs -> Procs \union {None}] /\ me' \in [Procs -> State]
           /\ \A q \in Procs : Own(q)'
           /\ \A q \in Procs \ {p} : me'[q] = me[q]
<1> PICK m : m = me[p]
  OBVIOUS
<1> PICK k : k = Kind(p)
  OBVIOUS
<1>1. Typed /\ Own(p) /\ (\A q \in Procs : Own(q)) /\ Arch(p) \in Archs
  BY PlaceIs DEF IInv
<1>2. m \in State /\ Path(k, m)
  BY <1>1 DEF Typed, Own, Sane
<1>3. holder' = [a \in Archs |-> IF holder[a] = p THEN None ELSE holder[a]]
      /\ UNCHANGED <<proto, job, alias>>
  BY DEF Crash, M!Die, Kept
<1>4. /\ holder' \in [Archs -> Procs \union {None}]
      /\ \A b \in Archs, q \in Procs \ {p} : holder'[b] = q <=> holder[b] = q
      /\ \A b \in Archs : holder'[b] # p
  <2>1. None \notin Procs
    BY ImagesAssumption DEF ImagesAssumption
  <2>2. QED
    BY <1>1, <1>3, <2>1 DEF Typed
<1> PICK n : n = [Cleared(m) EXCEPT !.pc = "done", !.result = "dead"]
  OBVIOUS
<1>5. n \in State /\ Becomes(p, n) /\ n.pc = "done" /\ n.at = m.at
  <2>1. Becomes(p, n)
    BY DEF Crash
  <2>2. "done" \in PCs
    BY DEF PCs
  <2>3. n \in State /\ n.pc = "done" /\ n.at = m.at
    BY <1>2, <2>2 DEF Cleared, State
  <2>4. QED
    BY <2>1, <2>3
<1>6. Path(k, n) /\ Asked(p, n) /\ ~Within(k, n) /\ ~Reads(n)
  BY <1>2, <1>5 DEF Path, Route, Asked, Within, Inner, Reads, Read
<1>7. QED
  BY <1>1, <1>3, <1>4, <1>5, <1>6, Turning DEF Sane

-----------------------------------------------------------------------------
(* What the cache has.                                                     *)

(* A pulled image shows its architecture, but for an OCI one.              *)
LEMMA Labels ==
    ASSUME NEW fp \in Image, proto # "oci"
    PROVE  Label(fp) = fp.arch
BY ImagesAssumption DEF ImagesAssumption, Image, Label

(* The image that p has pulled is looked at before p goes on.              *)
LEMMA Judging ==
    ASSUME Typed, NEW p \in Procs, Own(p), NEW a \in Archs, Judges(p, a), Apart(p),
           proto = "oci" => Sorted(a), UNCHANGED <<proto, job>>, me' \in [Procs -> State]
    PROVE  \/ Sorted(a) /\ alias'[a] = alias[a]
           \/ alias'[a] = None \/ a \in tainted' \/ Judges(p, a)'
<1> PICK fp : fp = me[p].fp
  OBVIOUS
<1>1. /\ Arch(p) = a /\ Place(p) = a /\ Kind(p) \notin Builds /\ fp = alias[a]
      /\ fp \in Image \union {None} /\ me[p] \in State /\ a \in Places
      /\ me[p].pc \in {"poll", "verify"}
  BY PlaceIs DEF Judges, Typed, Places
<1>2. Poll(p) \/ verifyArch(p)
  BY <1>1 DEF Apart, At, GetAlias, GetImage, Materialize, PullSource, Pull, ociStoreConfig,
         Recheck, CopyFind, CopyClear, CopyLand, BuildStored, BuildImage, ImportClear, Import, readSource,
         refreshImages, DropCached, Remove
<1>3. CASE fp = None
  <2>1. alias'[a] = alias[a] \/ alias'[a] = None
    <3>1. CASE Poll(p)
      BY <3>1 DEF Poll, Local, Kept
    <3>2. CASE verifyArch(p)
      <4>1. Kept \/ Dropped(fp, Place(p))
        BY <3>2 DEF verifyArch
      <4>2. QED
        BY <1>1, <4>1, Dropping DEF Kept
    <3>3. QED
      BY <1>2, <3>1, <3>2
  <2>2. QED
    BY <1>1, <1>3, <2>1 DEF Sorted
<1>4. CASE fp # None /\ Poll(p)
  <2>1. alias' = alias
    BY <1>4 DEF Poll, Local, Kept
  <2>2. Becomes(p, [me[p] EXCEPT !.pc = "verify", !.fp = fp])
    BY <1>1, <1>4 DEF Poll
  <2>3. me'[p].pc = "verify" /\ me'[p].fp = fp
    BY <1>1, <2>2 DEF Becomes, Typed, State
  <2>4. QED
    BY <1>1, <2>1, <2>3, Constant DEF Judges
<1>5. CASE fp # None /\ verifyArch(p)
  <2>1. fp \in Held(Place(p))
    BY <1>1, <1>5 DEF Held, Store
  <2>2. CASE Kept /\ (proto = "oci" \/ Label(fp) = Arch(p))
    <3>1. alias' = alias
      BY <2>2 DEF Kept
    <3>2. QED
      BY <1>1, <1>5, <2>2, <3>1, Labels DEF Sorted
  <2>3. CASE Dropped(fp, Place(p))
    BY <1>1, <2>3, Dropping
  <2>4. CASE tainted' = tainted \union {Place(p)}
    BY <1>1, <2>4
  <2>5. QED
    BY <1>5, <2>1, <2>2, <2>3, <2>4 DEF verifyArch
<1>6. QED
  BY <1>2, <1>3, <1>4, <1>5

(* A step inside a lock or away from all keeps the cache sorted.           *)
LEMMA ApartSorts ==
    ASSUME IInv, NEW p \in Procs, Apart(p)
    PROVE  Sorting'
<1>1. Typed /\ Own(p) /\ Sorting
  BY DEF IInv
<1>2. /\ UNCHANGED <<proto, job>> /\ Effect(p) /\ me' \in [Procs -> State]
      /\ \A q \in Procs \ {p} : me'[q] = me[q]
  BY ApartOwns
<1>3. tainted \subseteq tainted'
  BY DEF Apart, GetAlias, GetImage, Materialize, PullSource, Pull, Poll, verifyArch, ociStoreConfig,
         Recheck, CopyFind, CopyClear, CopyLand, BuildStored, BuildImage, ImportClear, Import, readSource,
         refreshImages, DropCached, Remove, Local, Fixed
<1> SUFFICES ASSUME NEW a \in Archs
             PROVE  /\ proto = "oci" => Sorted(a)'
                    /\ Sorted(a)' \/ a \in tainted' \/ \E q \in Procs : Judges(q, a)'
  BY <1>2 DEF Sorting
<1>4. alias'[a] = None => Sorted(a)'
  BY DEF Sorted
<1>5. CASE Fills(p, a)
  <2>1. CASE alias'[a] = Built(p)
    BY <1>5, <2>1 DEF Fills, Built, Sorted
  <2>2. CASE At(p, "pull") /\ Kind(p) \notin Builds /\ alias'[a] = me[p].fp
    <3>1. me'[p].pc = "poll" /\ me'[p].fp = me[p].fp
      BY <1>1, <1>5, <2>2 DEF Fills, To, Becomes, Typed, State
    <3>2. Judges(p, a)'
      BY <1>2, <1>5, <2>2, <3>1, Constant DEF Fills, Judges
    <3>3. proto = "oci" => me[p].fp.arch = a
      BY <1>1, <1>5, <2>2 DEF Own, Sane, Asked, At, Fills
    <3>4. QED
      BY <2>2, <3>2, <3>3 DEF Sorted
  <2>3. QED
    BY <1>5, <2>1, <2>2 DEF Fills
<1>6. CASE Empties(p, a)
  BY <1>4, <1>6 DEF Empties
<1>7. CASE alias'[a] = alias[a]
  <2>1. proto = "oci" => Sorted(a)'
    BY <1>1, <1>7 DEF Sorting, Sorted
  <2>2. Sorted(a) => Sorted(a)'
    BY <1>7 DEF Sorted
  <2>3. \A q \in Procs \ {p} : Judges(q, a) => Judges(q, a)'
    BY <1>2, <1>7, Constant DEF Judges
  <2>4. Judges(p, a) => Sorted(a)' \/ a \in tainted' \/ Judges(p, a)'
    BY <1>1, <1>2, <1>4, <2>2, Judging DEF Sorting
  <2>5. QED
    BY <1>1, <1>3, <2>1, <2>2, <2>3, <2>4 DEF Sorting
<1>8. QED
  BY <1>2, <1>5, <1>6, <1>7 DEF Effect

(* So does one that takes or gives a lock, or a death.                     *)
LEMMA LocksSort ==
    ASSUME IInv, NEW p \in Procs, LockStore(p) \/ Release(p) \/ Crash(p)
    PROVE  Sorting'
<1>1. Typed /\ Own(p) /\ Sorting
  BY DEF IInv
<1>2. UNCHANGED <<proto, job, alias>> /\ \A q \in Procs \ {p} : me'[q] = me[q]
  BY Locks, Gives, Dies DEF LockStore, Release, Crash, Fixed, Kept
<1>3. tainted \subseteq tainted'
  BY DEF LockStore, Release, Crash, Fixed
<1> SUFFICES ASSUME NEW a \in Archs
             PROVE  /\ proto = "oci" => Sorted(a)'
                    /\ Sorted(a)' \/ a \in tainted' \/ \E q \in Procs : Judges(q, a)'
  BY <1>2 DEF Sorting
<1>4. Sorted(a) <=> Sorted(a)'
  BY <1>2 DEF Sorted
<1>5. \A q \in Procs \ {p} : Judges(q, a) => Judges(q, a)'
  BY <1>2, Constant DEF Judges
<1>6. Judges(p, a) => a \in tainted'
  <2> SUFFICES ASSUME Judges(p, a)
               PROVE  a \in tainted'
    OBVIOUS
  <2>1. holder[a] = p
    BY <1>1 DEF Judges, Own, Locking, Within, Inner, Cached
  <2>2. Crash(p)
    BY Locks, Gives DEF Judges
  <2>3. QED
    BY <2>1, <2>2 DEF Crash
<1>7. QED
  BY <1>1, <1>3, <1>4, <1>5, <1>6 DEF Sorting

-----------------------------------------------------------------------------
(* The invariant at the start. *)
LEMMA Starts == Init => IInv
<1> SUFFICES ASSUME Init PROVE IInv
  OBVIOUS
<1>1. PICK left \in Seeds, a \in Archs :
          alias = [x \in Places |->
                      IF x \in left
                      THEN [arch |-> IF x \in Archs THEN x ELSE a, rev |-> 1, by |-> proto]
                      ELSE None]
  BY DEF Init
<1>2. proto \in Protocols /\ rev = 1 /\ job \in Jobs /\ holder = [l \in Archs |-> None]
      /\ me = [p \in Procs |-> NewImage]
  BY DEF Init, M!MutexInit
<1>3. job \in [Procs -> [kind : Kinds, arch : Archs, project : Projects]]
  BY <1>2, ImagesAssumption DEF ImagesAssumption
<1>4. NewImage \in State
  <2>1. "get" \in PCs /\ "first" \in Ats
    BY DEF PCs, Ats
  <2>2. QED
    BY <2>1 DEF NewImage, State
<1>5. \A x \in Places : (IF x \in left
                        THEN [arch |-> IF x \in Archs THEN x ELSE a, rev |-> 1, by |-> proto]
                        ELSE None) \in Image \union {None}
  BY DEF Image
<1>6. Typed
  <2>1. alias \in [Places -> Image \union {None}]
    BY <1>1, <1>5
  <2>2. QED
    BY <1>2, <1>3, <1>4, <2>1 DEF Typed
<1>7. \A p \in Procs : Own(p)
  <2> SUFFICES ASSUME NEW p \in Procs PROVE Own(p)
    OBVIOUS
  <2>1. me[p].pc = "get" /\ me[p].at = "first" /\ me[p].result = "none"
    BY <1>2 DEF NewImage
  <2>2. Sane(p, me[p])
    BY <2>1 DEF Sane, Path, Route, Asked
  <2>3. ~Within(Kind(p), me[p]) /\ ~Reads(me[p])
    BY <2>1 DEF Within, Inner, Reads, Read
  <2>4. \A b \in Archs : holder[b] # p
    BY <1>2, ImagesAssumption DEF ImagesAssumption
  <2>5. QED
    BY <2>2, <2>3, <2>4 DEF Own, Locking, Steady
<1>8. \A b \in Archs : Sorted(b)
  BY <1>1 DEF Sorted, Places
<1>9. QED
  BY <1>6, <1>7, <1>8 DEF IInv, Sorting

(* Every step keeps the invariant. *)
LEMMA Keeps == IInv /\ [Next]_vars => IInv'
<1> SUFFICES ASSUME IInv, [Next]_vars PROVE IInv'
  OBVIOUS
<1>1. Typed /\ (\A p \in Procs : Own(p)) /\ Sorting
  BY DEF IInv
<1>2. ASSUME NEW p \in Procs, Apart(p) PROVE IInv'
  <2>1. /\ UNCHANGED <<proto, job, holder, rev>> /\ alias' \in [Places -> Image \union {None}]
        /\ me' \in [Procs -> State] /\ (\A q \in Procs : Own(q)')
    BY <1>2, ApartOwns DEF Effect
  <2>2. Typed'
    BY <1>1, <2>1, Constant DEF Typed
  <2>3. QED
    BY <1>2, <2>1, <2>2, ApartSorts DEF IInv
<1>3. ASSUME NEW p \in Procs, LockStore(p) \/ Release(p) \/ Crash(p) PROVE IInv'
  <2>1. /\ holder' \in [Archs -> Procs \union {None}] /\ me' \in [Procs -> State]
        /\ \A q \in Procs : Own(q)'
    BY <1>3, Locks, Gives, Dies
  <2>2. UNCHANGED <<proto, job, alias, rev>>
    BY <1>3 DEF LockStore, Release, Crash, Fixed, Kept
  <2>3. Typed'
    BY <1>1, <2>1, <2>2, Constant DEF Typed
  <2>4. QED
    BY <1>3, <2>1, <2>3, LocksSort DEF IInv
<1>4. ASSUME UNCHANGED <<proto, job, holder, alias, me, tainted>>, rev' \in Nat PROVE IInv'
  <2>1. Typed'
    BY <1>1, <1>4, Constant DEF Typed
  <2>2. \A p \in Procs : Own(p)'
    BY <1>1, <1>4, Staying
  <2>3. Sorting'
    BY <1>1, <1>4, Constant DEF Sorting, Sorted, Judges
  <2>4. QED
    BY <2>1, <2>2, <2>3 DEF IInv
<1>5. CASE Moves
  <2>1. rev' \in Nat
    BY <1>1, <1>5 DEF Typed, Moves
  <2>2. QED
    BY <1>4, <1>5, <2>1 DEF Moves
<1>6. CASE UNCHANGED vars
  BY <1>1, <1>4, <1>6 DEF vars, Typed
<1>7. ASSUME NEW p \in Procs, Act(p) PROVE Apart(p) \/ LockStore(p) \/ Release(p)
  BY <1>7 DEF Act, Apart
<1>8. QED
  BY <1>2, <1>3, <1>5, <1>6, <1>7 DEF Next

(* The invariant of every behaviour. *)
LEMMA Always == Spec => []IInv
<1>1. QED
  BY Starts, Keeps, PTL DEF Spec

(* What the invariant says of two platforms. *)
LEMMA IsRight == IInv => RightArch
<1> SUFFICES ASSUME IInv PROVE RightArch
  OBVIOUS
<1>1. Typed /\ (\A p \in Procs : Own(p)) /\ Sorting
  BY DEF IInv
<1>2. ASSUME NEW a \in Archs, a \notin tainted, holder[a] = None, alias[a] # None
      PROVE  alias[a].arch = a
  <2>1. ASSUME NEW p \in Procs, Judges(p, a) PROVE FALSE
    <3>1. holder[a] = p
      BY <1>1, <2>1 DEF Judges, Own, Locking, Within, Inner, Cached
    <3>2. QED
      BY <1>2, <3>1, ImagesAssumption DEF ImagesAssumption
  <2>2. QED
    BY <1>1, <1>2, <2>1 DEF Sorting, Sorted
<1>3. QED
  BY <1>2 DEF RightArch

(* And of who holds a lock. *)
LEMMA IsStable == IInv => HopAStable
<1> SUFFICES ASSUME IInv, NEW p \in Procs,
                    proto = "oci", me[p].pc \in {"verify", "config", "release"}, ~me[p].bad,
                    holder[Arch(p)] = p, Place(p) = Arch(p), me[p].at # "drop"
             PROVE  alias[Arch(p)] = me[p].fp
  BY DEF HopAStable
<1>1. Typed /\ Own(p)
  BY DEF IInv
<1>2. Arch(p) \in Archs /\ Cached(Kind(p))
  BY <1>1, PlaceIs
<1>3. Within(Kind(p), me[p])
  BY <1>1, <1>2 DEF Own, Locking
<1>4. Reads(me[p])
  BY <1>3 DEF Within, Inner, Reads, Read
<1>5. QED
  BY <1>1, <1>2, <1>4 DEF Own, Steady

(* No platform's image is filed under another's alias in the shared cache, *)
(* whatever the source answers, however many commands and projects share   *)
(* it: an alias nobody holds names an image of its own platform            *)
(* (verifyArch), unless who held it died or could not delete what it       *)
(* refused.                                                                *)
THEOREM CacheKeepsPlatforms == Spec => []RightArch
<1>1. QED
  BY Always, IsRight, PTL

(* No deleteCached, import or verifyArch of another process reaches the    *)
(* image that the holder of an OCI alias's lock has read, until it lets go *)
(* of the lock (withVolumeLock around hop A).                              *)
THEOREM CacheKeepsStill == Spec => []HopAStable
<1>1. QED
  BY Always, IsStable, PTL


-----------------------------------------------------------------------------
(* While no call has failed, an OCI image has its config but where a       *)
(* process is yet to store it.                                             *)
Quiet == proto = "oci" /\ troubles = 0
Named(x) == alias[x] # None => <<x, alias[x]>> \in conf
Late(pc, at, own) == pc \in {"poll", "verify"} \/ (pc = "config" /\ at = "pulled" /\ own)
Pending(m) == Late(m.pc, m.at, m.own)
CacheNamed ==
    \A a \in Archs :
        Named(a) \/ \E p \in Procs : Arch(p) = a /\ Cached(Kind(p)) /\ Pending(me[p])

(* The copy of a project that one command has to itself. *)
Alone(p) == \A q \in Procs \ {p} : Proj(q) # Proj(p)
Unsure(k, pc, at, own) == (~Cached(k) /\ Late(pc, at, own)) \/ (pc = "config" /\ at = "copied")
Seen(k, pc, at) ==
    \/ pc = "look" \/ (pc = "config" /\ at = "copied")
    \/ ~Cached(k) /\ pc \in {"verify", "config"}
Ready(k, m) == m.result = "ok" \/ (m.pc = "release" /\ k = "nocache" /\ ~m.bad)
HasCopy(p, m) ==
    /\ Named(Proj(p)) \/ Unsure(Kind(p), m.pc, m.at, m.own)
    /\ Seen(Kind(p), m.pc, m.at) => alias[Proj(p)] = m.fp
    /\ Ready(Kind(p), m) => m.ens \in {None, alias[Proj(p)]}

CInv ==
    /\ IInv /\ troubles \in Nat
    /\ Quiet => CacheNamed /\ \A p \in Procs : Alone(p) => HasCopy(p, me[p])

(* No step takes a config from an image that keeps its alias, nor touches  *)
(* another project's.                                                      *)
LEMMA NamesStay ==
    ASSUME Typed, NEW p \in Procs, Apart(p)
    PROVE  /\ \A y \in Places : alias'[y] # None /\ <<y, alias'[y]>> \in conf => <<y, alias'[y]>> \in conf'
           /\ \A y \in Projects \ {Proj(p)} : alias'[y] = alias[y]
<1>1. /\ Arch(p) \in Archs /\ Proj(p) \in Projects /\ Place(p) \in {Arch(p), Proj(p)}
      /\ Places = Archs \union Projects /\ Archs \intersect Projects = {}
  BY PlaceIs, ImagesAssumption DEF ImagesAssumption, Places, Place
<1>2. ASSUME NEW x \in {Arch(p), Proj(p)}, NEW fp, Dropped(fp, x)
      PROVE  /\ \A y \in Places : alias'[y] # None /\ <<y, alias'[y]>> \in conf => <<y, alias'[y]>> \in conf'
             /\ \A y \in Projects \ {Proj(p)} : alias'[y] = alias[y]
  <2>1. /\ alias' = [y \in Places |-> IF y \in Store(x) /\ alias[y] = fp THEN None ELSE alias[y]]
        /\ conf' = conf \ (Store(x) \X {fp})
    BY <1>2 DEF Dropped, Without
  <2>2. \A y \in Projects \ {Proj(p)} : y \notin Store(x)
    BY <1>1, <1>2 DEF Store
  <2>3. ASSUME NEW y \in Places, alias'[y] # None, <<y, alias'[y]>> \in conf
        PROVE  <<y, alias'[y]>> \in conf'
    <3>1. y \notin Store(x) \/ alias'[y] # fp
      BY <2>1, <2>3
    <3>2. QED
      BY <2>1, <2>3, <3>1
  <2>4. QED
    BY <1>1, <2>1, <2>2, <2>3
<1>3. ASSUME NEW x \in {Arch(p), Proj(p)}, NEW fp, alias' = [alias EXCEPT ![x] = fp], conf \subseteq conf'
      PROVE  /\ \A y \in Places : <<y, alias'[y]>> \in conf => <<y, alias'[y]>> \in conf'
             /\ \A y \in Projects \ {Proj(p)} : alias'[y] = alias[y]
  BY <1>1, <1>3 DEF Typed
<1>4. CASE alias' = alias /\ conf \subseteq conf'
  BY <1>4
<1>5. CASE GetAlias(p) \/ GetImage(p) \/ Materialize(p) \/ PullSource(p) \/ Poll(p) \/ ociStoreConfig(p)
           \/ Recheck(p) \/ CopyFind(p) \/ BuildStored(p) \/ BuildImage(p) \/ readSource(p) \/ refreshImages(p)
  BY <1>4, <1>5 DEF GetAlias, GetImage, Materialize, PullSource, Poll, ociStoreConfig, Recheck, CopyFind,
         BuildStored, BuildImage, readSource, refreshImages, Local, Kept
<1>6. CASE Pull(p) \/ Import(p) \/ CopyLand(p)
  BY <1>1, <1>3, <1>4, <1>6 DEF Pull, Import, CopyLand, Kept
<1>7. CASE CopyClear(p) \/ ImportClear(p) \/ DropCached(p) \/ Remove(p) \/ verifyArch(p)
  BY <1>1, <1>2, <1>4, <1>7 DEF CopyClear, ImportClear, DropCached, Remove, verifyArch, Kept
<1>8. QED
  BY <1>5, <1>6, <1>7 DEF Apart

(* A record that keeps the copy of a project in order. *)
LEMMA Keeping ==
    ASSUME Typed, NEW p \in Procs, UNCHANGED <<proto, job>>, NEW n \in State, Becomes(p, n),
           Named(Proj(p))' \/ Unsure(Kind(p), n.pc, n.at, n.own),
           Seen(Kind(p), n.pc, n.at) => alias'[Proj(p)] = n.fp,
           Ready(Kind(p), n) => n.ens \in {None, alias'[Proj(p)]}
    PROVE  HasCopy(p, me[p])'
<1>1. me'[p] = n
  BY Become DEF Typed
<1>2. QED
  BY <1>1, Constant DEF HasCopy, Unsure, Seen, Ready, Late, Cached, Named

(* So does a common step, but from a look that has yet to be taken. *)
LEMMA Passing ==
    ASSUME Typed, NEW p \in Procs, Own(p), me[p].pc # "done", UNCHANGED <<proto, job>>,
           NEW k, k = Kind(p), NEW n, NEW pc, NEW at, NEW fp, NEW bad, Is(p, n, pc, at, fp, bad),
           Named(Proj(p))' \/ Unsure(k, pc, at, n.own),
           Seen(k, pc, at) => alias'[Proj(p)] = fp,
           pc = "release" /\ k = "nocache" => bad
    PROVE  HasCopy(p, me[p])'
<1>1. n \in State /\ Becomes(p, n) /\ n.pc = pc /\ n.at = at /\ n.fp = fp /\ n.bad = bad /\ n.result # "ok"
  BY DEF Is, Own, Sane, Path
<1>2. ~Ready(k, n)
  BY <1>1 DEF Ready
<1>3. QED
  BY <1>1, <1>2, Keeping

(* What stays in order, with a name that stays. *)
LEMMA Resting ==
    ASSUME Typed, NEW p \in Procs, Own(p), me[p].pc # "done", UNCHANGED <<proto, job>>, Named(Proj(p))'
    PROVE  /\ \A pc \in PCs \ {"look", "config", "verify", "release"} : To(p, pc) => HasCopy(p, me[p])'
           /\ \A at \in Ats : Look(p, at) => HasCopy(p, me[p])'
           /\ Leaves(p, TRUE) => HasCopy(p, me[p])'
           /\ Kind(p) # "nocache" => (Leaves(p, FALSE) => HasCopy(p, me[p])')
           /\ Failed(p) \/ CreateFailed(p) \/ NotFound(p) \/ GivesUp(p) => HasCopy(p, me[p])'
<1> PICK k : k = Kind(p)
  OBVIOUS
<1> PICK m : m = me[p]
  OBVIOUS
<1>1. ASSUME NEW n, NEW pc, NEW at, NEW fp, NEW bad, Is(p, n, pc, at, fp, bad),
             pc \notin {"look", "config", "verify"}, pc = "release" /\ k = "nocache" => bad
      PROVE  HasCopy(p, me[p])'
  <2>1. ~Seen(k, pc, at)
    BY <1>1 DEF Seen
  <2>2. QED
    BY <1>1, <2>1, Passing
<1>2. \A pc \in PCs \ {"look", "config", "verify", "release"} : To(p, pc) => HasCopy(p, me[p])'
  BY <1>1, Steps
<1>3. \A at \in Ats : Look(p, at) => HasCopy(p, me[p])'
  BY <1>1, Steps
<1>4. /\ Leaves(p, TRUE) => HasCopy(p, me[p])'
      /\ k # "nocache" => (Leaves(p, FALSE) => HasCopy(p, me[p])')
  BY <1>1, Steps
<1>5. ASSUME Failed(p) PROVE HasCopy(p, me[p])'
  <2>1. PICK n : Ended(p, n)
    BY <1>5, Steps
  <2>2. n \in State /\ Becomes(p, n) /\ ~Seen(k, n.pc, n.at) /\ n.ens = None
    BY <2>1 DEF Ended, Seen
  <2>3. QED
    BY <2>2, Keeping
<1>6. "adopt" \in Ats /\ "recheck" \in PCs
  BY DEF Ats, PCs
<1>7. QED
  BY <1>2, <1>3, <1>4, <1>5, <1>6 DEF CreateFailed, NotFound, GivesUp

(* A name stays if its alias does, or goes. *)
LEMMA NameStays ==
    ASSUME Typed, NEW p \in Procs, Apart(p), UNCHANGED job, Named(Proj(p)),
           alias'[Proj(p)] \in {None, alias[Proj(p)]}
    PROVE  Named(Proj(p))'
<1>1. Proj(p)' = Proj(p) /\ Proj(p) \in Places
  BY PlaceIs DEF Proj, Places
<1>2. QED
  BY <1>1, NamesStay DEF Named

(* Away from the image and its lock, what a process had seen is no matter. *)
LEMMA Outside ==
    ASSUME Typed, NEW p \in Procs, UNCHANGED <<proto, job>>, NEW n, n = me'[p], Named(Proj(p))',
           Out(n.pc), n.result # "ok" \/ n.ens \in {None, alias'[Proj(p)]}
    PROVE  HasCopy(p, me[p])'
<1>1. ~Seen(Kind(p), n.pc, n.at) /\ (Ready(Kind(p), n) => n.ens \in {None, alias'[Proj(p)]})
  BY DEF Seen, Ready, Out
<1>2. QED
  BY <1>1, Constant DEF HasCopy, Unsure, Seen, Ready, Late, Cached, Named

(* The steps of a command alone in its project, one by one: what a look    *)
(* has found is there.                                                     *)
LEMMA LooksCopy ==
    ASSUME Typed, NEW p \in Procs, Own(p), HasCopy(p, me[p]), GetAlias(p) \/ GetImage(p)
    PROVE  HasCopy(p, me[p])'
<1> PICK m : m = me[p]
  OBVIOUS
<1> PICK fp : fp = alias[Proj(p)]
  OBVIOUS
<1>1. /\ m \in State /\ m.result # "ok" /\ m.pc \in {"get", "look"}
      /\ UNCHANGED <<proto, job, alias, conf>>
  BY DEF GetAlias, GetImage, At, Local, Fixed, Kept, Typed, Own, Sane, Path
<1>2. Named(Proj(p))' /\ alias'[Proj(p)] = fp /\ (m.pc = "look" => m.fp = fp)
  BY <1>1, Constant DEF HasCopy, Unsure, Late, Seen, Named
<1>3. ASSUME NEW n, Leads(p, n), Out(n.pc), n.ens \in {None, fp}
      PROVE  HasCopy(p, me[p])'
  <2>1. n = me'[p]
    BY <1>3, Become DEF Leads, Typed
  <2>2. QED
    BY <1>1, <1>2, <1>3, <2>1, Outside
<1>4. CASE Missed(p)
  <2>1. \E n : Leads(p, n) /\ n.ens = None /\ Out(n.pc)
    BY <1>4, Missing DEF GetAlias, GetImage
  <2>2. QED
    BY <1>3, <2>1
<1>5. CASE GetAlias(p) /\ ~Missed(p)
  <2>1. Becomes(p, [me[p] EXCEPT !.pc = "look", !.fp = alias[Proj(p)]])
    BY <1>5 DEF GetAlias
  <2>2. me'[p].pc = "look" /\ me'[p].fp = fp /\ me'[p].result # "ok"
    BY <1>1, <2>1 DEF Becomes, Typed, State
  <2>3. QED
    BY <1>1, <1>2, <2>2, Constant DEF HasCopy, Seen, Ready, Named
<1>6. CASE GetImage(p) /\ ~Missed(p)
  <2>1. Found(p) /\ At(p, "look")
    BY <1>6 DEF GetImage
  <2>2. \E n : Leads(p, n) /\ n.ens \in {None, me[p].fp} /\ Out(n.pc)
    BY <2>1, Finding
  <2>3. QED
    BY <1>2, <1>3, <2>1, <2>2 DEF At
<1>7. QED
  BY <1>4, <1>5, <1>6

(* Work on the cache, and on a copy that goes, leaves it in order.         *)
LEMMA RestsCopy ==
    ASSUME Typed, NEW p \in Procs, Own(p), HasCopy(p, me[p]),
           \/ Materialize(p) \/ PullSource(p) \/ Recheck(p) \/ CopyFind(p) \/ CopyClear(p)
           \/ BuildStored(p) \/ BuildImage(p) \/ ImportClear(p) \/ readSource(p) \/ refreshImages(p)
           \/ DropCached(p) \/ Remove(p)
    PROVE  HasCopy(p, me[p])'
<1> PICK m : m = me[p]
  OBVIOUS
<1> PICK k : k = Kind(p)
  OBVIOUS
<1>1. Apart(p)
  BY DEF Apart
<1>2. /\ m \in State /\ m.result # "ok" /\ Route(k, m.pc, m.at) /\ m.pc # "done"
      /\ m.pc \notin {"poll", "verify", "config", "look", "release"}
  BY DEF Typed, Own, Sane, Path, At, Materialize, PullSource, Recheck, CopyFind, CopyClear,
         BuildStored, BuildImage, ImportClear, readSource, refreshImages, DropCached, Remove
<1>3. UNCHANGED <<proto, job>>
  BY <1>1, ApartGoes
<1>4. Named(Proj(p)) /\ Proj(p) \in Places /\ Place(p) \in Places /\ Arch(p) \in Places
  BY <1>2, PlaceIs DEF HasCopy, Unsure, Late, Places
<1>5. alias'[Proj(p)] \in {None, alias[Proj(p)]}
  <2>1. ASSUME NEW x \in Places, NEW fp, Dropped(fp, x) PROVE alias'[Proj(p)] \in {None, alias[Proj(p)]}
    BY <1>4, <2>1 DEF Dropped, Without
  <2>2. QED
    BY <1>4, <2>1 DEF Materialize, PullSource, Recheck, CopyFind, CopyClear, Local, Kept,
         BuildStored, BuildImage, ImportClear, readSource, refreshImages, DropCached, Remove
<1>6. Named(Proj(p))'
  BY <1>1, <1>3, <1>4, <1>5, NameStays
<1>7. /\ \A pc \in {"source", "clear", "land", "build", "lock", "import", "compare"} : To(p, pc) => HasCopy(p, me[p])'
      /\ Leaves(p, TRUE) => HasCopy(p, me[p])'
      /\ k # "nocache" => (Leaves(p, FALSE) => HasCopy(p, me[p])')
      /\ Failed(p) \/ CreateFailed(p) \/ NotFound(p) \/ GivesUp(p) => HasCopy(p, me[p])'
  <2>1. {"source", "clear", "land", "build", "lock", "import", "compare"} \subseteq PCs
    BY DEF PCs
  <2>2. QED
    BY <1>2, <1>3, <1>6, <2>1, Resting
<1>8. ASSUME Out(me'[p].pc), me'[p].result # "ok" \/ me'[p].ens = None PROVE HasCopy(p, me[p])'
  BY <1>3, <1>6, <1>8, Outside
<1>9. ASSUME NEW fp \in Image \union {None}, NEW at \in {"hit", "again"}, Stores(p, fp, FALSE, at), Cached(k)
      PROVE  HasCopy(p, me[p])'
  <2>0. at \in Ats /\ FALSE \in BOOLEAN
    BY <1>9 DEF Ats
  <2>1. PICK n : Is(p, n, "config", at, fp, m.bad)
    BY <1>9, <2>0, Steps
  <2>2. ~Seen(k, "config", at)
    BY <1>9 DEF Seen
  <2>3. QED
    BY <1>2, <1>3, <1>6, <2>1, <2>2, Passing
<1>10. CASE Materialize(p) \/ Recheck(p)
  <2>1. Cached(k) /\ alias[Arch(p)] \in Image \union {None}
    BY <1>2, <1>4, <1>10 DEF Materialize, Recheck, At, Route, Cached, Builds, Typed
  <2>2. QED
    BY <1>7, <1>9, <1>10, <2>1 DEF Materialize, Recheck
<1>11. ASSUME NEW fp
       PROVE  /\ Becomes(p, [me[p] EXCEPT !.pc = "pull", !.fp = fp]) => HasCopy(p, me[p])'
              /\ Becomes(p, [me[p] EXCEPT !.pc = "pull", !.fp = fp, !.src = fp]) => HasCopy(p, me[p])'
              /\ Becomes(p, [me[p] EXCEPT !.pc = "copy", !.fp = fp]) => HasCopy(p, me[p])'
              /\ Becomes(p, [me[p] EXCEPT !.pc = "compare", !.src = fp]) => HasCopy(p, me[p])'
  <2>1. ASSUME NEW n, Becomes(p, n), n.result = m.result, n.pc \in {"pull", "copy", "compare"}
        PROVE  HasCopy(p, me[p])'
    <3>1. me'[p] = n
      BY <2>1 DEF Becomes, Typed
    <3>2. QED
      BY <1>2, <1>8, <2>1, <3>1 DEF Out
  <2>2. LET n == [me[p] EXCEPT !.pc = "pull", !.fp = fp] IN n.result = m.result /\ n.pc = "pull"
    BY <1>2 DEF State
  <2>3. LET n == [me[p] EXCEPT !.pc = "pull", !.fp = fp, !.src = fp] IN n.result = m.result /\ n.pc = "pull"
    BY <1>2 DEF State
  <2>4. LET n == [me[p] EXCEPT !.pc = "copy", !.fp = fp] IN n.result = m.result /\ n.pc = "copy"
    BY <1>2 DEF State
  <2>5. LET n == [me[p] EXCEPT !.pc = "compare", !.src = fp] IN n.result = m.result /\ n.pc = "compare"
    BY <1>2 DEF State
  <2>6. QED
    BY <2>1, <2>2, <2>3, <2>4, <2>5
<1>12. CASE PullSource(p)
  BY <1>7, <1>11, <1>12 DEF PullSource
<1>13. CASE CopyFind(p) \/ CopyClear(p) \/ BuildImage(p) \/ ImportClear(p)
  BY <1>7, <1>13 DEF CopyFind, CopyClear, BuildImage, ImportClear
<1>14. CASE BuildStored(p) \/ readSource(p)
  BY <1>7, <1>11, <1>14 DEF BuildStored, readSource
<1>15. CASE refreshImages(p)
  <2>1. me'[p].pc = "get" /\ me'[p].result = m.result
    BY <1>2, <1>15 DEF refreshImages, Becomes, Typed, State
  <2>2. QED
    BY <1>2, <1>8, <2>1 DEF Out
<1>16. CASE DropCached(p)
  <2>1. k # "nocache"
    BY <1>2, <1>16 DEF DropCached, At, Route
  <2>2. QED
    BY <1>7, <1>16, <2>1 DEF DropCached
<1>17. CASE Remove(p) /\ ~Failed(p)
  <2>1. \/ Becomes(p, [Cleared(me[p]) EXCEPT !.pc = "get", !.at = "first"])
        \/ Becomes(p, [Cleared(me[p]) EXCEPT !.pc = "done", !.result = "ok"])
    BY <1>17 DEF Remove
  <2>2. LET n == [Cleared(m) EXCEPT !.pc = "get", !.at = "first"] IN n.pc = "get" /\ n.ens = None
    BY <1>2 DEF Cleared, State
  <2>3. LET n == [Cleared(m) EXCEPT !.pc = "done", !.result = "ok"] IN n.pc = "done" /\ n.ens = None
    BY <1>2 DEF Cleared, State
  <2>4. me'[p].pc \in {"get", "done"} /\ me'[p].ens = None
    BY <2>1, <2>2, <2>3 DEF Becomes, Typed
  <2>5. QED
    BY <1>8, <2>4 DEF Out
<1>18. QED
  BY <1>7, <1>10, <1>12, <1>13, <1>14, <1>15, <1>16, <1>17

(* What is pulled or built straight into a project is yet to be looked at. *)
LEMMA LandsCopy ==
    ASSUME Typed, NEW p \in Procs, Own(p), HasCopy(p, me[p]), Pull(p) \/ Import(p)
    PROVE  HasCopy(p, me[p])'
<1> PICK m : m = me[p]
  OBVIOUS
<1> PICK k : k = Kind(p)
  OBVIOUS
<1>1. Apart(p)
  BY DEF Apart
<1>2. /\ m \in State /\ m.pc \in {"pull", "import"} /\ m.pc # "done" /\ UNCHANGED <<proto, job>>
  BY DEF Typed, At, Pull, Import, Fixed
<1>3. Named(Proj(p)) /\ Proj(p) \in Places /\ Place(p) \in Places
      /\ (Cached(k) => Place(p) # Proj(p))
  BY <1>2, PlaceIs, ImagesAssumption DEF HasCopy, Unsure, Late, Places, ImagesAssumption
<1>4. CASE Cached(k) \/ Kept
  <2>1. alias'[Proj(p)] = alias[Proj(p)]
    BY <1>3, <1>4 DEF Pull, Import, Kept, Typed
  <2>2. Named(Proj(p))'
    BY <1>1, <1>2, <1>3, <2>1, NameStays
  <2>3. "poll" \in PCs
    BY DEF PCs
  <2>4. (To(p, "poll") => HasCopy(p, me[p])') /\ (Leaves(p, TRUE) => HasCopy(p, me[p])')
        /\ (NotFound(p) => HasCopy(p, me[p])')
    BY <1>2, <2>2, <2>3, Resting
  <2>5. QED
    BY <2>4 DEF Pull, Import, PullFails
<1>5. CASE ~Cached(k) /\ ~Kept
  <2>1. To(p, "poll")
    BY <1>5 DEF Pull, Import
  <2>2. PICK n : Is(p, n, "poll", m.at, m.fp, m.bad)
    BY <2>1, Steps DEF PCs
  <2>3. Unsure(k, "poll", m.at, n.own) /\ ~Seen(k, "poll", m.at)
    BY <1>5 DEF Unsure, Late, Seen
  <2>4. QED
    BY <1>2, <2>2, <2>3, Passing
<1>6. QED
  BY <1>4, <1>5

(* The look at it finds it.                                                *)
LEMMA PollsCopy ==
    ASSUME Typed, NEW p \in Procs, Own(p), HasCopy(p, me[p]), Poll(p)
    PROVE  HasCopy(p, me[p])'
<1> PICK m : m = me[p]
  OBVIOUS
<1> PICK k : k = Kind(p)
  OBVIOUS
<1> PICK got : got = alias[Place(p)]
  OBVIOUS
<1>1. /\ m \in State /\ m.pc = "poll" /\ m.pc # "done" /\ UNCHANGED <<proto, job, alias, conf>>
      /\ got \in Image \union {None} /\ (~Cached(k) => got = alias[Proj(p)])
  BY PlaceIs DEF Typed, At, Poll, Local, Fixed, Kept
<1>2. Cached(k) \/ got = None => Named(Proj(p))'
  BY <1>1, Constant DEF HasCopy, Unsure, Late, Named
<1>3. CASE NotFound(p) /\ got = None
  BY <1>1, <1>2, <1>3, Resting
<1>4. CASE Leaves(p, TRUE) /\ got = None
  BY <1>1, <1>2, <1>4, Resting
<1>5. CASE Stores(p, got, TRUE, "pulled")
  <2>1. PICK n : Is(p, n, "config", "pulled", got, m.bad) /\ n.own
    BY <1>1, <1>5, Steps DEF Ats
  <2>2. CASE Cached(k)
    <3>1. ~Seen(k, "config", "pulled")
      BY <2>2 DEF Seen
    <3>2. QED
      BY <1>1, <1>2, <2>1, <2>2, <3>1, Passing
  <2>3. CASE ~Cached(k)
    <3>1. Unsure(k, "config", "pulled", n.own)
      BY <2>1, <2>3 DEF Unsure, Late
    <3>2. QED
      BY <1>1, <2>1, <2>3, <3>1, Passing
  <2>4. QED
    BY <2>2, <2>3
<1>6. CASE Becomes(p, [me[p] EXCEPT !.pc = "verify", !.fp = got])
  <2>1. "verify" \in PCs
    BY DEF PCs
  <2>2. PICK n : Is(p, n, "verify", m.at, got, m.bad)
    <3> PICK n : n = [m EXCEPT !.pc = "verify", !.fp = got]
      OBVIOUS
    <3>1. Is(p, n, "verify", m.at, got, m.bad)
      BY <1>1, <1>6, <2>1 DEF Is, State
    <3>2. QED
      BY <3>1
  <2>3. CASE Cached(k)
    <3>1. ~Seen(k, "verify", m.at)
      BY <2>3 DEF Seen
    <3>2. QED
      BY <1>1, <1>2, <2>2, <2>3, <3>1, Passing
  <2>4. CASE ~Cached(k)
    <3>1. Unsure(k, "verify", m.at, n.own)
      BY <2>4 DEF Unsure, Late
    <3>2. QED
      BY <1>1, <2>2, <2>4, <3>1, Passing
  <2>5. QED
    BY <2>3, <2>4
<1>7. QED
  BY <1>3, <1>4, <1>5, <1>6 DEF Poll

(* An OCI image passes with its config to store.                           *)
LEMMA VerifiesCopy ==
    ASSUME Typed, NEW p \in Procs, Own(p), HasCopy(p, me[p]), verifyArch(p), proto = "oci"
    PROVE  HasCopy(p, me[p])'
<1> PICK m : m = me[p]
  OBVIOUS
<1> PICK k : k = Kind(p)
  OBVIOUS
<1>1. /\ m \in State /\ m.pc = "verify" /\ m.pc # "done" /\ UNCHANGED <<proto, job, alias, conf>>
      /\ Stores(p, m.fp, TRUE, "pulled")
  BY DEF Typed, At, verifyArch, Kept
<1>2. (~Cached(k) => alias[Proj(p)] = m.fp) /\ (Cached(k) => Named(Proj(p))')
  BY <1>1, Constant DEF HasCopy, Unsure, Late, Seen, Named
<1>3. m.fp \in Image \union {None} /\ "pulled" \in Ats
  BY <1>1 DEF State, Ats
<1>4. PICK n : Is(p, n, "config", "pulled", m.fp, m.bad) /\ n.own
  BY <1>1, <1>3, Steps
<1>5. CASE Cached(k)
  <2>1. ~Seen(k, "config", "pulled")
    BY <1>5 DEF Seen
  <2>2. QED
    BY <1>1, <1>2, <1>4, <1>5, <2>1, Passing
<1>6. CASE ~Cached(k)
  <2>1. Unsure(k, "config", "pulled", n.own)
    BY <1>4, <1>6 DEF Unsure, Late
  <2>2. QED
    BY <1>1, <1>2, <1>4, <1>6, <2>1, Passing
<1>7. QED
  BY <1>5, <1>6

(* So does the copy of hop B.                                              *)
LEMMA CopiesCopy ==
    ASSUME Typed, NEW p \in Procs, Own(p), HasCopy(p, me[p]), CopyLand(p)
    PROVE  HasCopy(p, me[p])'
<1> PICK m : m = me[p]
  OBVIOUS
<1> PICK k : k = Kind(p)
  OBVIOUS
<1>1. m \in State /\ m.pc = "land" /\ UNCHANGED <<proto, job>> /\ Proj(p) \in Places
  BY PlaceIs DEF Typed, At, CopyLand, Fixed, Places
<1>2. CASE Kept /\ Look(p, "last")
  <2>1. Named(Proj(p))'
    BY <1>1, <1>2, Constant DEF HasCopy, Unsure, Late, Kept, Named
  <2>2. QED
    BY <1>1, <1>2, <2>1, Resting DEF Ats
<1>3. CASE alias' = [alias EXCEPT ![Proj(p)] = m.fp] /\ Stores(p, m.fp, FALSE, "copied")
  <2>1. alias'[Proj(p)] = m.fp
    BY <1>1, <1>3 DEF Typed
  <2>2. m.fp \in Image \union {None} /\ "copied" \in Ats /\ FALSE \in BOOLEAN
    BY <1>1 DEF State, Ats
  <2>3. PICK n : Is(p, n, "config", "copied", m.fp, m.bad)
    BY <1>3, <2>2, Steps
  <2>4. Unsure(k, "config", "copied", n.own)
    BY DEF Unsure
  <2>5. QED
    BY <1>1, <2>1, <2>3, <2>4, Passing
<1>4. QED
  BY <1>2, <1>3 DEF CopyLand

(* The config is stored where the image was seen.                          *)
LEMMA ConfigsCopy ==
    ASSUME Typed, NEW p \in Procs, Own(p), HasCopy(p, me[p]), ociStoreConfig(p),
           proto = "oci", troubles = 0, troubles' = 0
    PROVE  HasCopy(p, me[p])'
<1> PICK m : m = me[p]
  OBVIOUS
<1> PICK k : k = Kind(p)
  OBVIOUS
<1> PICK y : y = Proj(p)
  OBVIOUS
<1>1. /\ m \in State /\ m.pc = "config" /\ m.pc # "done" /\ UNCHANGED <<proto, job, alias>>
      /\ Route(k, m.pc, m.at)
  BY DEF Typed, At, ociStoreConfig, Fixed, Own, Sane, Path
<1>2. conf \subseteq conf'
  BY DEF ociStoreConfig
<1>3. y \in Places /\ y \notin Archs /\ Store(y) = {y}
  BY PlaceIs, ImagesAssumption DEF ImagesAssumption, Places, Store
<1>4. CASE Seen(k, m.pc, m.at)
  <2>1. alias[y] = m.fp
    BY <1>4 DEF HasCopy
  <2>2. (IF m.at = "copied" THEN Proj(p) ELSE Place(p)) = y
    BY <1>1, <1>4, PlaceIs DEF Seen
  <2>3. {z \in Store(y) : alias[z] = m.fp} = {y}
    BY <1>3, <2>1
  <2>4. /\ <<y, m.fp>> \in conf' /\ Stored(p)
    <3> DEFINE x == IF m.at = "copied" THEN Proj(p) ELSE Place(p)
               here == {z \in Store(x) : alias[z] = m.fp}
               wanted == m.own \/ (proto = "oci" /\ conf \intersect (here \X {m.fp}) = {})
    <3>1. here = {y}
      BY <2>2, <2>3
    <3>2. <<y, m.fp>> \in here \X {m.fp}
      BY <3>1
    <3>3. ~wanted => <<y, m.fp>> \in conf
      BY <3>1, <3>2
    <3>4. \/ here # {} /\ ~wanted /\ UNCHANGED conf /\ Stored(p)
          \/ here # {} /\ wanted /\ Stored(p) /\ conf' = conf \union (here \X {m.fp})
      <4>1. here # {}
        BY <3>1
      <4>2. ~Fails
        BY DEF Fails
      <4>3. \/ here = {}
            \/ here # {} /\ ~wanted /\ UNCHANGED conf /\ Stored(p)
            \/ here # {} /\ wanted /\ Stored(p) /\ conf' = conf \union (here \X {m.fp})
            \/ Fails
        BY DEF ociStoreConfig
      <4>4. QED
        BY ONLY <4>1, <4>2, <4>3
    <3> HIDE DEF here, wanted
    <3>5. QED
      BY <3>2, <3>3, <3>4
  <2>5. Named(y)'
    BY <1>1, <2>1, <2>4, Constant DEF Named
  <2>6. CASE Look(p, "last")
    BY <1>1, <2>5, <2>6, Resting, Constant DEF Ats
  <2>7. CASE Leaves(p, FALSE) /\ m.at # "copied" /\ ~(k \in Builds /\ m.at = "pulled")
    <3>1. k # "nocache"
      BY <1>1, <2>7 DEF Route, Builds
    <3>2. QED
      BY <1>1, <2>5, <2>7, <3>1, Resting, Constant
  <2>8. CASE Becomes(p, [me[p] EXCEPT !.pc = "release", !.bad = FALSE, !.ens = me[p].fp])
    <3> PICK n : n = [m EXCEPT !.pc = "release", !.bad = FALSE, !.ens = m.fp]
      OBVIOUS
    <3>1. n.pc = "release" /\ n.ens = m.fp
      BY <1>1 DEF State
    <3>2. "release" \in PCs
      BY DEF PCs
    <3>3. n \in State /\ Becomes(p, n)
      BY <1>1, <2>8, <3>2 DEF State
    <3>4. ~Seen(k, n.pc, n.at)
      BY <3>1 DEF Seen
    <3>5. QED
      BY <1>1, <2>1, <2>5, <3>1, <3>3, <3>4, Keeping, Constant
  <2>9. QED
    BY <2>4, <2>6, <2>7, <2>8 DEF Stored
<1>5. CASE ~Seen(k, m.pc, m.at)
  <2>1. Cached(k) /\ m.at # "copied"
    BY <1>1, <1>5 DEF Seen
  <2>2. Named(y)'
    BY <1>1, <1>2, <2>1, Constant DEF HasCopy, Unsure, Named
  <2>3. CASE Look(p, "last")
    BY <1>1, <2>2, <2>3, Resting, Constant DEF Ats
  <2>4. CASE Leaves(p, FALSE)
    BY <1>1, <2>1, <2>2, <2>4, Resting, Constant DEF Cached
  <2>5. CASE CreateFailed(p) \/ NotFound(p) \/ GivesUp(p)
    BY <1>1, <2>2, <2>5, Resting, Constant
  <2>6. CASE Becomes(p, [me[p] EXCEPT !.pc = "release", !.bad = FALSE, !.ens = me[p].fp])
    <3> PICK n : n = [m EXCEPT !.pc = "release", !.bad = FALSE, !.ens = m.fp]
      OBVIOUS
    <3>1. n.pc = "release" /\ n.result = m.result
      BY <1>1 DEF State
    <3>2. "release" \in PCs
      BY DEF PCs
    <3>3. n \in State /\ Becomes(p, n)
      BY <1>1, <2>6, <3>2 DEF State
    <3>4. ~Seen(k, n.pc, n.at) /\ ~Ready(k, n)
      BY <1>1, <2>1, <3>1 DEF Seen, Ready, Cached, Own, Sane, Path
    <3>5. QED
      BY <1>1, <2>2, <3>1, <3>3, <3>4, Keeping, Constant
  <2>7. QED
    BY <2>3, <2>4, <2>5, <2>6 DEF ociStoreConfig, Stored, StoreFailed
<1>6. QED
  BY <1>4, <1>5

(* What the locks do is no matter to a project's copy.                     *)
LEMMA LocksCopy ==
    ASSUME Typed, NEW p \in Procs, Own(p), HasCopy(p, me[p]), LockStore(p) \/ Release(p)
    PROVE  HasCopy(p, me[p])'
<1> PICK m : m = me[p]
  OBVIOUS
<1> PICK k : k = Kind(p)
  OBVIOUS
<1>1. /\ m \in State /\ m.pc \in {"lock", "release"} /\ m.pc # "done" /\ UNCHANGED <<proto, job, alias, conf>>
  BY DEF Typed, At, LockStore, Release, Fixed, Kept
<1>2. Named(Proj(p))'
  BY <1>1, Constant DEF HasCopy, Unsure, Late, Named
<1>3. CASE k = "nocache" /\ ~m.bad /\ m.pc = "release"
           /\ Becomes(p, [me[p] EXCEPT !.pc = "done", !.result = "ok"])
  <2>1. m.ens \in {None, alias'[Proj(p)]}
    BY <1>1, <1>3 DEF HasCopy, Ready
  <2>2. me'[p].pc = "done" /\ me'[p].ens = m.ens
    BY <1>1, <1>3 DEF Becomes, Typed, State
  <2>3. QED
    BY <1>1, <1>2, <2>1, <2>2, Outside DEF Out
<1>4. {"importing", "cached", "materialize", "remove", "copy"} \subseteq PCs \ {"look", "config", "verify", "release"}
  BY DEF PCs
<1>5. /\ \A pc \in {"importing", "cached", "materialize", "remove", "copy"} : To(p, pc) => HasCopy(p, me[p])'
      /\ Failed(p) \/ CreateFailed(p) => HasCopy(p, me[p])'
  BY <1>1, <1>2, <1>4, Resting
<1>6. CASE LockStore(p)
  BY <1>5, <1>6 DEF LockStore, Entered
<1>7. CASE Release(p)
  BY <1>1, <1>3, <1>5, <1>7 DEF Release, At
<1>8. QED
  BY <1>6, <1>7

-----------------------------------------------------------------------------
(* In the cache, who has pulled or built an image stores its config.       *)
LEMMA Pends ==
    ASSUME Typed, NEW p \in Procs, Own(p), Apart(p), proto = "oci", troubles = 0, troubles' = 0,
           Cached(Kind(p)), Pending(me[p])
    PROVE  Named(Arch(p))' \/ Pending(me[p])'
<1> PICK m : m = me[p]
  OBVIOUS
<1> PICK a : a = Arch(p)
  OBVIOUS
<1> PICK got : got = alias[a]
  OBVIOUS
<1>1. /\ m \in State /\ a \in Archs /\ Place(p) = a /\ Arch(p)' = a
      /\ got \in Image \union {None} /\ "pulled" \in Ats
      /\ \/ m.pc \in {"poll", "verify"}
         \/ m.pc = "config" /\ m.at = "pulled" /\ m.own
  BY ApartGoes, PlaceIs DEF Typed, Places, Pending, Late, Arch, Ats
<1>2. ASSUME NEW fp \in Image \union {None}, Stores(p, fp, TRUE, "pulled") PROVE Pending(me[p])'
  <2>1. PICK n : Is(p, n, "config", "pulled", fp, m.bad) /\ n.own
    BY <1>1, <1>2, Steps
  <2>2. me'[p] = n
    BY <2>1, Become DEF Is, Typed
  <2>3. QED
    BY <2>1, <2>2 DEF Is, Pending, Late
<1>3. CASE Poll(p)
  <2>1. alias' = alias
    BY <1>3 DEF Poll, Local, Kept
  <2>2. CASE got = None
    BY <1>1, <2>1, <2>2 DEF Named
  <2>3. CASE Becomes(p, [me[p] EXCEPT !.pc = "verify", !.fp = got])
    <3>1. me'[p].pc = "verify"
      BY <1>1, <2>3 DEF Becomes, Typed, State
    <3>2. QED
      BY <3>1 DEF Pending, Late
  <2>4. QED
    BY <1>1, <1>2, <1>3, <2>2, <2>3 DEF Poll
<1>4. CASE verifyArch(p)
  <2>1. Stores(p, m.fp, TRUE, "pulled")
    BY <1>4 DEF verifyArch
  <2>2. QED
    BY <1>1, <1>2, <2>1 DEF State
<1>5. CASE ociStoreConfig(p)
  <2>1. m.at = "pulled" /\ m.own /\ m.pc = "config"
    BY <1>1, <1>5 DEF ociStoreConfig, At
  <2>2. alias[a] = m.fp
    BY <2>1 DEF Own, Steady, Reads, Read
  <2>3. alias' = alias /\ <<a, m.fp>> \in conf'
    <3> DEFINE here == {z \in Store(Place(p)) : alias[z] = m.fp}
    <3>1. a \in here
      BY <1>1, <2>2 DEF Store
    <3>2. ~Fails
      BY DEF Fails
    <3>3. conf' = conf \union (here \X {m.fp})
      <4>1. (IF me[p].at = "copied" THEN Proj(p) ELSE Place(p)) = Place(p)
        BY <2>1
      <4>2. here # {}
        BY <3>1
      <4>3. QED
        BY <1>5, <2>1, <3>2, <4>1, <4>2 DEF ociStoreConfig
    <3>4. alias' = alias
      BY <1>5 DEF ociStoreConfig
    <3> HIDE DEF here
    <3>5. QED
      BY <3>1, <3>3, <3>4
  <2>4. QED
    BY <1>1, <2>2, <2>3 DEF Named
<1>6. QED
  BY <1>1, <1>3, <1>4, <1>5 DEF Apart, At, GetAlias, GetImage, Materialize, PullSource, Pull, Recheck,
     CopyFind, CopyClear, CopyLand, BuildStored, BuildImage, ImportClear, Import, readSource,
     refreshImages, DropCached, Remove

(* A step inside a lock or away from all keeps the configs.                *)
LEMMA ApartNames ==
    ASSUME CInv, NEW p \in Procs, Apart(p), Quiet, Quiet'
    PROVE  CacheNamed' /\ \A q \in Procs : Alone(q)' => HasCopy(q, me[q])'
<1>1. Typed /\ Own(p) /\ IInv /\ CacheNamed /\ (\A q \in Procs : Alone(q) => HasCopy(q, me[q]))
      /\ proto = "oci" /\ troubles = 0 /\ troubles' = 0
  BY DEF CInv, IInv, Quiet
<1>2. /\ UNCHANGED <<proto, job>> /\ Effect(p) /\ me' \in [Procs -> State]
      /\ \A q \in Procs \ {p} : me'[q] = me[q]
  BY <1>1, ApartOwns
<1>3. /\ \A y \in Places : alias'[y] # None /\ <<y, alias'[y]>> \in conf => <<y, alias'[y]>> \in conf'
      /\ \A y \in Projects \ {Proj(p)} : alias'[y] = alias[y]
  BY <1>1, NamesStay
<1>4. ASSUME NEW a \in Archs
      PROVE  Named(a)' \/ \E q \in Procs : Arch(q)' = a /\ Cached(Kind(q))' /\ Pending(me[q])'
  <2>1. alias'[a] = None => Named(a)'
    BY DEF Named
  <2>2. CASE Fills(p, a)
    <3>1. me'[p].pc = "poll"
      BY <1>1, <2>2 DEF Fills, To, Becomes, Typed, State
    <3>2. QED
      BY <1>2, <2>2, <3>1, Constant DEF Fills, Pending, Late, Cached
  <2>3. CASE alias'[a] = alias[a]
    <3>1. Named(a) => Named(a)'
      BY <1>3, <2>3 DEF Named, Places
    <3>2. ASSUME NEW q \in Procs \ {p}, Arch(q) = a, Cached(Kind(q)), Pending(me[q])
          PROVE  Arch(q)' = a /\ Cached(Kind(q))' /\ Pending(me[q])'
      BY <1>2, <3>2, Constant DEF Pending, Late, Cached
    <3>3. ASSUME Arch(p) = a, Cached(Kind(p)), Pending(me[p])
          PROVE  Named(a)' \/ (Arch(p)' = a /\ Cached(Kind(p))' /\ Pending(me[p])')
      <4>1. Arch(p)' = a /\ Cached(Kind(p))'
        BY <1>2, <3>3, Constant DEF Cached
      <4>2. Named(Arch(p))' \/ Pending(me[p])'
        BY <1>1, <3>3, Pends
      <4>3. QED
        BY <4>1, <4>2 DEF Named
    <3>4. QED
      BY <1>1, <3>1, <3>2, <3>3 DEF CacheNamed
  <2>4. QED
    BY <1>2, <2>1, <2>2, <2>3 DEF Effect, Empties
<1>5. ASSUME NEW q \in Procs, Alone(q)' PROVE Alone(q) /\ HasCopy(q, me[q])
  BY <1>1, <1>2, <1>5, Constant DEF Alone
<1>6. ASSUME NEW q \in Procs \ {p}, Alone(q)' PROVE HasCopy(q, me[q])'
  <2>1. Proj(q) # Proj(p) /\ Proj(q) \in Projects /\ Proj(q) \in Places
    BY <1>1, <1>5, <1>6, PlaceIs DEF Alone, Places
  <2>2. Named(Proj(q)) => Named(Proj(q))'
    BY <1>2, <1>3, <2>1, Constant DEF Named
  <2>3. alias'[Proj(q)] = alias[Proj(q)] /\ me'[q] = me[q]
    BY <1>2, <1>3, <2>1
  <2>4. QED
    BY <1>2, <1>5, <1>6, <2>2, <2>3, Constant DEF HasCopy, Unsure, Seen, Ready, Late, Cached
<1>7. Alone(p)' => HasCopy(p, me[p])'
  BY <1>1, <1>5, LooksCopy, RestsCopy, LandsCopy, PollsCopy, VerifiesCopy, CopiesCopy, ConfigsCopy DEF Apart
<1>8. QED
  BY <1>4, <1>6, <1>7 DEF CacheNamed

(* So does one that takes or gives a lock.                                 *)
LEMMA LocksName ==
    ASSUME CInv, NEW p \in Procs, LockStore(p) \/ Release(p), Quiet
    PROVE  CacheNamed' /\ \A q \in Procs : Alone(q)' => HasCopy(q, me[q])'
<1>1. Typed /\ Own(p) /\ IInv /\ CacheNamed /\ (\A q \in Procs : Alone(q) => HasCopy(q, me[q]))
  BY DEF CInv, IInv
<1>2. /\ UNCHANGED <<proto, job, alias, conf>> /\ (\A q \in Procs \ {p} : me'[q] = me[q])
      /\ me[p].pc \in {"lock", "release"}
  BY <1>1, Locks, Gives DEF LockStore, Release, Fixed, Kept, At
<1>3. CacheNamed'
  <2>1. \A a \in Archs : Named(a) => Named(a)'
    BY <1>2 DEF Named
  <2>2. ASSUME NEW q \in Procs, Cached(Kind(q)), Pending(me[q])
        PROVE  Arch(q)' = Arch(q) /\ Cached(Kind(q))' /\ Pending(me[q])'
    BY <1>2, <2>2, Constant DEF Pending, Late, Cached
  <2>3. QED
    BY <1>1, <2>1, <2>2 DEF CacheNamed
<1>4. ASSUME NEW q \in Procs, Alone(q)' PROVE Alone(q) /\ HasCopy(q, me[q])
  BY <1>1, <1>2, <1>4, Constant DEF Alone
<1>5. ASSUME NEW q \in Procs \ {p}, Alone(q)' PROVE HasCopy(q, me[q])'
  <2>1. Named(Proj(q)) => Named(Proj(q))'
    BY <1>2, Constant DEF Named
  <2>2. QED
    BY <1>2, <1>4, <1>5, <2>1, Constant DEF HasCopy, Unsure, Seen, Ready, Late, Cached
<1>6. Alone(p)' => HasCopy(p, me[p])'
  BY <1>1, <1>4, LocksCopy
<1>7. QED
  BY <1>3, <1>5, <1>6

(* The configs at the start.                                               *)
LEMMA StartsNamed == Init => CInv
<1> SUFFICES ASSUME Init PROVE CInv
  OBVIOUS
<1>1. IInv /\ Typed /\ troubles = 0 /\ troubles \in Nat
  BY Starts DEF IInv, Init
<1>2. \A x \in Places : Named(x)
  BY DEF Init, Named
<1>3. \A p \in Procs : Proj(p) \in Places /\ me[p].pc = "get" /\ me[p].result = "none"
  BY <1>1, PlaceIs DEF Init, NewImage, Places
<1>4. QED
  BY <1>1, <1>2, <1>3 DEF CInv, CacheNamed, HasCopy, Seen, Ready, Places

(* Every step keeps them, or is a call that fails.                         *)
LEMMA KeepsNamed == CInv /\ [Next]_vars => CInv'
<1> SUFFICES ASSUME CInv, [Next]_vars PROVE CInv'
  OBVIOUS
<1>1. IInv /\ Typed /\ IInv' /\ troubles \in Nat
  BY Keeps DEF CInv, IInv
<1>2. ASSUME NEW p \in Procs, Apart(p) PROVE CInv'
  <2>1. troubles' \in {troubles, troubles + 1} /\ proto' = proto
    <3>1. proto' = proto
      BY <1>1, <1>2, ApartOwns
    <3>2. troubles' \in {troubles, troubles + 1}
      BY <1>2 DEF Apart, GetAlias, GetImage, Materialize, PullSource, Pull, Poll, verifyArch, ociStoreConfig,
         Recheck, CopyFind, CopyClear, CopyLand, BuildStored, BuildImage, ImportClear, Import, readSource,
         refreshImages, DropCached, Remove, Local, Works, Fails
    <3>3. QED
      BY <3>1, <3>2
  <2>2. troubles' \in Nat /\ (Quiet' => Quiet)
    BY <1>1, <2>1 DEF Quiet
  <2>3. QED
    BY <1>1, <1>2, <2>2, ApartNames DEF CInv
<1>3. ASSUME NEW p \in Procs, LockStore(p) \/ Release(p) PROVE CInv'
  <2>1. troubles' = troubles /\ proto' = proto
    BY <1>3 DEF LockStore, Release, Works, Fixed
  <2>2. QED
    BY <1>1, <1>3, <2>1, LocksName DEF CInv, Quiet
<1>4. ASSUME NEW p \in Procs, Crash(p) PROVE CInv'
  <2>1. troubles' = troubles + 1
    BY <1>4 DEF Crash, Fails
  <2>2. troubles' \in Nat /\ ~Quiet'
    BY <1>1, <2>1 DEF Quiet
  <2>3. QED
    BY <1>1, <2>2 DEF CInv
<1>5. CASE Moves \/ UNCHANGED vars
  <2>1. UNCHANGED <<holder, proto, alias, conf, job, me, troubles>>
    BY <1>5 DEF Moves, vars
  <2>2. Quiet' => CacheNamed' /\ \A p \in Procs : Alone(p)' => HasCopy(p, me[p])'
    BY <2>1, Constant DEF CInv, Quiet, CacheNamed, Named, Pending, Late, Cached, Alone, HasCopy, Unsure,
       Seen, Ready
  <2>3. QED
    BY <1>1, <2>1, <2>2 DEF CInv
<1>6. ASSUME NEW p \in Procs, Act(p) PROVE Apart(p) \/ LockStore(p) \/ Release(p)
  BY <1>6 DEF Act, Apart
<1>7. QED
  BY <1>2, <1>3, <1>4, <1>5, <1>6 DEF Next

(* What the invariant says of the configs.                                 *)
LEMMA IsConfigured == CInv => Configured
<1> SUFFICES ASSUME CInv, proto = "oci", troubles = 0
             PROVE  /\ \A a \in Archs : holder[a] = None /\ alias[a] # None => <<a, alias[a]>> \in conf
                    /\ \A p \in Procs :
                          /\ me[p].result = "ok" /\ me[p].ens # None
                          /\ \A q \in Procs \ {p} : Proj(q) # Proj(p)
                          => <<Proj(p), me[p].ens>> \in conf
  BY DEF Configured
<1>1. /\ Typed /\ (\A p \in Procs : Own(p)) /\ CacheNamed
      /\ \A p \in Procs : Alone(p) => HasCopy(p, me[p])
  BY DEF CInv, IInv, Quiet
<1>2. ASSUME NEW a \in Archs, holder[a] = None, alias[a] # None PROVE <<a, alias[a]>> \in conf
  <2>1. ASSUME NEW p \in Procs, Arch(p) = a, Cached(Kind(p)), Pending(me[p]) PROVE FALSE
    <3>1. Within(Kind(p), me[p])
      BY <2>1 DEF Pending, Late, Within, Inner, Cached
    <3>2. holder[a] = p
      BY <1>1, <2>1, <3>1 DEF Own, Locking
    <3>3. QED
      BY <1>2, <3>2, ImagesAssumption DEF ImagesAssumption
  <2>2. QED
    BY <1>1, <1>2, <2>1 DEF CacheNamed, Named
<1>3. ASSUME NEW p \in Procs, me[p].result = "ok", me[p].ens # None, Alone(p)
      PROVE  <<Proj(p), me[p].ens>> \in conf
  <2>1. me[p].pc = "done"
    BY <1>1, <1>3 DEF Own, Sane, Path
  <2>2. Named(Proj(p)) /\ me[p].ens = alias[Proj(p)]
    BY <1>1, <1>3, <2>1 DEF HasCopy, Unsure, Late, Ready
  <2>3. QED
    BY <1>3, <2>2 DEF Named
<1>4. QED
  BY <1>2, <1>3 DEF Alone

(* Short of a call that failed, an OCI image has its config in the cache   *)
(* wherever nobody works on its alias, and in the project of a command     *)
(* that succeeded there alone, whatever others do to the cache between its *)
(* two hops: verifyArch passes each pulled image on to be given one, and   *)
(* the copy to the project takes it along or stores it again.              *)
THEOREM ConfigsKept == Spec => []Configured
<1>1. QED
  BY StartsNamed, KeepsNamed, IsConfigured, PTL DEF Spec

=============================================================================
