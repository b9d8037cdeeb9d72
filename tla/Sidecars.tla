------------------------------ MODULE Sidecars ------------------------------
(***************************************************************************)
(* `up` and `down` as far as they touch what projects share: the global    *)
(* project with its locks and the two sidecars, the resolver's network,    *)
(* and a bridge two projects attach to.                                    *)
(*                                                                         *)
(* A command is a list of steps, one Incus request or one wait each; a     *)
(* step may put further steps in front of the rest, the way a call does.   *)
(* What the code does when a step fails is part of the step: give up and   *)
(* run the deferred releases ("abort"), carry on and give up at the return *)
(* ("join"), carry on with a warning ("skip"), or leave the rest of a      *)
(* deletion with a warning ("stop").                                       *)
(***************************************************************************)
EXTENDS Networks, SequencesExt

CONSTANTS Commands,      \* running processes
          Instances,     \* the replicas of each project's one service
          Cases,         \* the hosts to start from, with a job for each process
          MaxTries,      \* attempts of a read and write (10 in the code)
          MaxFaults,     \* requests that fail for another reason
          None

Daemons == {"healthd", "dns"}
Jobs == [what : {"up", "down"}, project : Projects, daemon : {None}]
        \union [what : {"daemon"}, project : {None}, daemon : Daemons]
        \union [what : {"none"}, project : Projects, daemon : {None}]

(* Finitely many projects and replicas, and hosts and jobs as the commands *)
(* find and take them.                                                     *)
ASSUME SidecarsAssumption ==
    /\ None \notin Projects \union Commands \union Daemons
    /\ IsFiniteSet(Projects) /\ IsFiniteSet(Instances)
    /\ \A k \in Cases : k.host.own \subseteq Daemons /\ k.jobs \in [Commands -> Jobs]

LockNames == {"global", "store", "network"}

VARIABLES
    ovn,      \* the host can do OVN
    gproj,    \* the global project: "none", "plain", or "ovn" (features.networks)
    kind,     \* Nets -> "none", "bridge" or "ovn"
    config,   \* Nets -> the configuration an ETag covers
    peer,     \* Nets -> Nets -> "none", "ok" or "errored"
    acl,      \* the ACLs that exist
    inst,     \* Daemons -> the shared sidecar: image, nic, running
    mark,     \* Projects -> the daemons the project is marked for
    own,      \* Projects -> the daemons it has a sidecar of its own for
    run,      \* Projects -> its running instances
    lock,     \* LockNames -> the process whose file is on the locks volume
    cmd,      \* Commands -> how far it is
    last,     \* Projects -> what was last done to it, "busy" while it is
    faults    \* requests that have failed

networks == <<kind, config, peer, acl>>
projects == <<gproj, inst, mark, own, run>>
vars == <<ovn, gproj, kind, config, peer, acl, inst, mark, own, run, lock, cmd, last, faults>>

job(c) == cmd[c].job
NoInst == [image |-> "none", nic |-> FALSE, running |-> FALSE]
exists(n) == kind[n] # "none"

(* A step: what, on which network, daemon or lock, with which ACLs or      *)
(* peers, and what its failure does.                                       *)
Step(do, on, with) == [do |-> do, on |-> on, with |-> with, err |-> "abort"]
On(err, s) == [s EXCEPT !.err = err]

(* One step, or two in a row, for each member of a set, in some order. *)
Each(f(_), S) == [i \in 1..Cardinality(S) |-> f(SetToSeq(S)[i])]
EachTwo(f(_), g(_), S) ==
    [i \in 1..2 * Cardinality(S) |->
        LET x == SetToSeq(S)[(i + 1) \div 2] IN IF i % 2 = 1 THEN f(x) ELSE g(x)]

(* Mutant: the barrier is not given back before the lock is asked for. *)
LockHeld(name) == <<Step("acquire", "global", {}), Step("acquire", name, {})>>

(* GlobalClient.Lock: the global barrier is taken and released at once,    *)
(* then the lock itself, whose release is deferred.                        *)
Lock(name) ==
    <<Step("acquire", "global", {}), Step("release", "global", {}), Step("acquire", name, {})>>

(* Network.Start: the networks its ACL names are looked up, and peered     *)
(* both ways; then its own peers, then the ACLs.                           *)
StartNetwork(n, peers, acls) ==
    IF ~ovn THEN <<>>
    ELSE EachTwo(LAMBDA t : Step("get", t, {}), LAMBDA t : Step("peer", t, {n}),
                 IF n \in Projects THEN Targets[n] ELSE {})
         \o Each(LAMBDA t : Step("peer", n, {t}),
                 peers \union (IF n \in Projects THEN Targets[n] ELSE {}))
         \o Each(LAMBDA a : Step("acl", a, {}), acls)
         \o <<Step("attach", n, acls)>>

(* Mutant: the project is marked before its own sidecar is gone. *)
SidecarUpMarksFirst(p, d) ==
    <<Step("check", "", {}), Step("project", "", {}), Step("mark", d, {}),
      Step("teardown", d, {}), Step("lookup", d, {})>>

(* healthdUp, and dnsUp up to the resolver's wiring. *)
SidecarUp(p, d) ==
    <<Step("teardown", d, {}), Step("check", "", {}), Step("project", "", {}),
      Step("mark", d, {}), Step("lookup", d, {})>>

(* dnsUp once the sidecar runs: under the network's lock the resolver side *)
(* is made first, then the project's.                                      *)
Wire(p) ==
    IF ~ovn THEN <<>>
    ELSE Lock("network")
         \o <<Step("ensure", Resolver, {})>>
         \o StartNetwork(Resolver, {p}, {defaultACLName(Resolver), dnsACLName(p)})
         \o <<Step("ensure", p, {})>>
         \o StartNetwork(p, {Resolver}, {defaultACLName(p)})

(* The project's own instances, with the DNS watcher's hooks. *)
DeployInstances ==
    <<Step("see", "", {})>> \o Each(LAMBDA i : Step("run", i, {}), Instances)

healthdUp(p) == SidecarUp(p, "healthd") \o <<Step("return", "", {})>>
dnsUp(p) == SidecarUp(p, "dns") \o Wire(p) \o <<Step("return", "", {})>>

(* The up command. *)
Up(p) == healthdUp(p) \o dnsUp(p) \o DeployInstances

(* removeDNSACLs: the ACL, the project's peer, the resolver's peer. *)
Unwire(p) ==
    Lock("network") \o
    <<Step("get", Resolver, {}),
      On("join", Step("detach", Resolver, {dnsACLName(p)})),
      On("join", Step("delacl", Resolver, {dnsACLName(p)})),
      On("join", Step("unpeer", p, {Resolver})), On("join", Step("unpeer", Resolver, {p})),
      Step("return", "", {})>>

(* down: the instances go, the wiring goes, then the network. *)
Down(p) ==
    <<On("skip", Step("see", "", {}))>>
    \o Each(LAMBDA i : On("skip", Step("halt", i, {})), Instances)
    \o Unwire(p)
    \o <<On("stop", Step("get", p, {})),
         On("stop", Step("detach", p, {defaultACLName(p)})),
         On("stop", Step("delacl", p, {defaultACLName(p)})),
         On("stop", Step("unpeer", p, {})), On("stop", Step("delnet", p, {}))>>

(* The shared daemon, and no project to mark or to wire. *)
dnsUpGlobal ==
    <<Step("check", "", {}), Step("project", "", {}), Step("lookup", "dns", {}),
      Step("return", "", {})>>
healthdUpGlobal ==
    <<Step("check", "", {}), Step("project", "", {}), Step("lookup", "healthd", {}),
      Step("return", "", {})>>

Program(j) == CASE j.what = "up"     -> Up(j.project)
                [] j.what = "down"   -> Down(j.project)
                [] j.what = "daemon" -> IF j.daemon = "dns" THEN dnsUpGlobal ELSE healthdUpGlobal
                [] j.what = "none"   -> <<>>

Idle(j) == [job |-> j, res |-> "idle", todo |-> <<>>, at |-> "read", snap |-> None, tries |-> 0,
            have |-> "none", known |-> FALSE, held |-> {}, seen |-> {}, bad |-> FALSE, dirty |-> FALSE]

(* How a command goes on: past its first step, with others in its place, or *)
(* over; an end, good or bad, runs the deferred releases.                    *)
step(c) == Head(cmd[c].todo)
Doing(c, do) == cmd[c].res = "run" /\ cmd[c].todo # <<>> /\ step(c).do = do
Instead(c, steps) == [cmd[c] EXCEPT !.todo = steps \o Tail(@), !.at = "read", !.snap = None, !.tries = 0]
Past(c) == Instead(c, <<>>)
Goes(c, r) == cmd' = [cmd EXCEPT ![c] = r] /\ UNCHANGED last

Alone(c) == \A d \in Commands \ {c} : job(d).project = job(c).project => cmd[d].res # "run"
Released(c) == [l \in LockNames |-> IF l \in cmd[c].held /\ lock[l] = c THEN None ELSE lock[l]]
Ended(c, res) ==
    /\ cmd' = [cmd EXCEPT ![c] = [Idle(job(c)) EXCEPT !.res = res]]
    /\ last' = [p \in Projects |->
                  IF p # job(c).project THEN last[p]
                  ELSE IF ~Alone(c) THEN "mixed"
                  ELSE IF last[p] = "busy" /\ res = "ok" /\ ~cmd[c].dirty THEN job(c).what
                  ELSE "none"]
    /\ lock' = Released(c)

(* What a step's failure does to the command. *)
Fails(c) ==
    \/ /\ step(c).err = "abort"
       /\ Ended(c, "failed")
    \/ /\ step(c).err # "abort"
       /\ Goes(c, [Past(c) EXCEPT !.bad = @ \/ step(c).err = "join",
                                  !.dirty = @ \/ step(c).err \in {"skip", "stop"},
                                  !.todo = IF step(c).err = "stop" THEN <<>> ELSE @])
       /\ UNCHANGED lock
FailsHere(c) == Fails(c) /\ UNCHANGED <<networks, projects>>

Start(c) ==
    /\ cmd[c].res = "idle"
    /\ cmd' = [cmd EXCEPT ![c].res = "run", ![c].todo = Program(job(c))]
    /\ last' = [p \in Projects |-> IF p # job(c).project THEN last[p]
                                  ELSE IF Alone(c) THEN "busy" ELSE "mixed"]
    /\ UNCHANGED <<networks, projects, lock>>

(* The function returns: its deferred releases, and the errors it joined.  *)
Return(c) ==
    /\ Doing(c, "return")
    /\ UNCHANGED <<networks, projects>>
    /\ IF cmd[c].bad THEN Ended(c, "failed")
       ELSE Goes(c, [Past(c) EXCEPT !.held = {}]) /\ lock' = Released(c)

Finish(c) ==
    /\ cmd[c].res = "run" /\ cmd[c].todo = <<>>
    /\ Ended(c, "ok")
    /\ UNCHANGED <<networks, projects>>

(* A request the server refuses, or a connection that breaks. *)
Fault(c) ==
    /\ cmd[c].res = "run" /\ cmd[c].todo # <<>>
    /\ step(c).do \notin {"return", "release"}
    /\ faults < MaxFaults
    /\ faults' = faults + 1
    /\ FailsHere(c)

-----------------------------------------------------------------------------
(* The global project, its locks, and its upgrade. *)

(* isLegacyGlobal: a bridge icompose0, or a project without networks of    *)
(* its own, on a host that can do OVN.                                     *)
isLegacyGlobal == kind[Resolver] = "bridge" \/ gproj = "plain"
ProjectKind == IF ovn THEN "ovn" ELSE "plain"

(* upgradeGlobalProject, first look. *)
Check(c) ==
    /\ Doing(c, "check")
    /\ Goes(c, IF ovn /\ isLegacyGlobal
               THEN Instead(c, <<Step("project", "", {}), Step("acquire", "global", {}),
                                 Step("recheck", "", {})>>)
               ELSE Past(c))
    /\ UNCHANGED <<networks, projects, lock>>

(* upgradeGlobalProject, second look, with the global lock.  Upgraded by   *)
(* another in the meantime: the lock is handed to the caller, who releases *)
(* it when it returns.  Else it is released, ahead of the project that     *)
(* holds it.                                                               *)
Recheck(c) ==
    /\ Doing(c, "recheck")
    /\ Goes(c, IF isLegacyGlobal
               THEN Instead(c, <<Step("release", "global", {}), Step("dropproject", "", {}),
                                 Step("dropnet", "", {}), Step("check", "", {})>>)
               ELSE Past(c))
    /\ UNCHANGED <<networks, projects, lock>>

(* DeleteProject, by force: the sidecars, the locks, and the networks and  *)
(* ACLs of a project that has its own.                                     *)
DropProject(c) ==
    /\ Doing(c, "dropproject")
    /\ gproj' = "none"
    /\ inst' = [d \in Daemons |-> NoInst]
    /\ lock' = [l \in LockNames |-> None]
    /\ LET inside == kind[Resolver] = "ovn"
       IN  /\ kind' = [kind EXCEPT ![Resolver] = IF inside THEN "none" ELSE @]
           /\ config' = [config EXCEPT ![Resolver] = IF inside THEN Fresh ELSE @]
           /\ peer' = IF inside THEN PeersWithout(peer, Resolver) ELSE peer
           /\ acl' = acl \ ({defaultACLName(Resolver)} \union {dnsACLName(p) : p \in Projects})
    /\ Goes(c, [Past(c) EXCEPT !.known = FALSE])
    /\ UNCHANGED <<mark, own, run>>

(* The bridge icompose0 is in the default project. *)
DropNetwork(c) ==
    /\ Doing(c, "dropnet")
    /\ LET there == kind[Resolver] = "bridge"
       IN  /\ kind' = [kind EXCEPT ![Resolver] = IF there THEN "none" ELSE @]
           /\ config' = [config EXCEPT ![Resolver] = IF there THEN Fresh ELSE @]
    /\ Goes(c, Past(c))
    /\ UNCHANGED <<peer, acl, projects, lock>>

(* EnsureProject with create: a client that knows the project does not look. *)
Ensured(c) == IF ~cmd[c].known /\ gproj = "none" THEN ProjectKind ELSE gproj
EnsureProject(c) ==
    /\ Doing(c, "project")
    /\ gproj' = Ensured(c)
    /\ Goes(c, [Past(c) EXCEPT !.known = TRUE])
    /\ UNCHANGED <<networks, inst, mark, own, run, lock>>

(* LockDirect: the project, the volume, and the wait for the file.  A      *)
(* client that knows a project deleted since cannot make the volume.       *)
Acquire(c) ==
    /\ Doing(c, "acquire")
    /\ \/ /\ Ensured(c) # "none"
          /\ lock[step(c).on] = None
          /\ gproj' = Ensured(c)
          /\ lock' = [lock EXCEPT ![step(c).on] = c]
          /\ Goes(c, [Past(c) EXCEPT !.known = TRUE, !.held = @ \union {step(c).on}])
          /\ UNCHANGED <<networks, inst, mark, own, run>>
       \/ /\ Ensured(c) = "none"
          /\ FailsHere(c)

Release(c) ==
    /\ Doing(c, "release")
    /\ lock' = [lock EXCEPT ![step(c).on] = IF @ = c THEN None ELSE @]
    /\ Goes(c, [Past(c) EXCEPT !.held = @ \ {step(c).on}])
    /\ UNCHANGED <<networks, projects>>

(* AddMissingProjectConfig: a read and a write that is not tried again.    *)
Mark(c) ==
    /\ Doing(c, "mark")
    /\ LET p == job(c).project
       IN  \/ /\ cmd[c].at = "read" /\ step(c).on \in mark[p]
             /\ Goes(c, Past(c)) /\ UNCHANGED <<networks, projects, lock>>
          \/ /\ cmd[c].at = "read" /\ step(c).on \notin mark[p]
             /\ Goes(c, [cmd[c] EXCEPT !.at = "write", !.snap = mark[p]])
             /\ UNCHANGED <<networks, projects, lock>>
          \/ /\ cmd[c].at = "write" /\ cmd[c].snap = mark[p]
             /\ mark' = [mark EXCEPT ![p] = @ \union {step(c).on}]
             /\ Goes(c, Past(c)) /\ UNCHANGED <<networks, gproj, inst, own, run, lock>>
          \/ /\ cmd[c].at = "write" /\ cmd[c].snap # mark[p]
             /\ FailsHere(c)

-----------------------------------------------------------------------------
(* The sidecars. *)

(* dnsUp and healthdUp: a sidecar of the project's own makes way, before   *)
(* the project is marked for the shared one.                               *)
Teardown(c, daemon) ==
    /\ Doing(c, "teardown") /\ step(c).on = daemon
    /\ own' = [own EXCEPT ![job(c).project] = @ \ {daemon}]
    /\ Goes(c, Past(c))
    /\ UNCHANGED <<networks, gproj, inst, mark, run, lock>>

dnsTeardown(c) == Teardown(c, "dns")
healthdTeardown(c) == Teardown(c, "healthd")

EnsureAll(c) == IF job(c).project = None THEN <<>> ELSE <<Step("ensure", job(c).project, {})>>
StartAll(c) == IF job(c).project = None THEN <<>>
               ELSE StartNetwork(job(c).project, {}, {defaultACLName(job(c).project)})

(* dnsEnsure and healthdEnsure, once they have looked for the sidecar: the *)
(* image is only fetched, under the store's lock, for a sidecar to create  *)
(* or replace; then the project's networks, the sidecar, its replacement   *)
(* when it turns out older, and all of them started.                       *)
Lookup(c) ==
    /\ Doing(c, "lookup")
    /\ LET d == step(c).on
           have == inst[d].image
       IN  Goes(c, [Instead(c,
               EnsureAll(c)
               \o (IF have = "new" THEN <<>> ELSE Lock("store") \o <<Step("release", "store", {})>>)
               \o <<Step("inst", d, {}), Step("replace", d, {})>>
               \o StartAll(c) \o <<Step("start", d, {})>>) EXCEPT !.have = have])
    /\ gproj # "none"
    /\ UNCHANGED <<networks, projects, lock>>

LookupFails(c) == Doing(c, "lookup") /\ gproj = "none" /\ FailsHere(c)

(* The shared network, its DHCP ranges patched when the read shows none. *)
sidecarEnsureNetwork == <<Step("ensure", Resolver, {}), Step("patch", Resolver, {})>>

(* The hooks on the sidecars' ensure: one that this run has seen already   *)
(* is as it was set up, any other gets a nic on the shared network.        *)
dnsGetResources(have) ==
    IF have # "none" THEN <<Step("create", "dns", {})>>
    ELSE sidecarEnsureNetwork \o <<Step("create", "dns", {Resolver})>>
healthdGetResources(have) ==
    IF have # "none" THEN <<Step("create", "healthd", {})>>
    ELSE sidecarEnsureNetwork \o <<Step("create", "healthd", {Resolver})>>

HookEnsure(c) ==
    /\ Doing(c, "inst")
    /\ Goes(c, Instead(c, IF step(c).on = "dns" THEN dnsGetResources(cmd[c].have)
                          ELSE healthdGetResources(cmd[c].have)))
    /\ UNCHANGED <<networks, projects, lock>>

(* Instance.ensure: the sidecar that is there, or one with what the hook   *)
(* prepared.                                                               *)
CreateInstance(c) ==
    /\ Doing(c, "create")
    /\ LET d == step(c).on
       IN  \/ /\ inst[d].image # "none"
             /\ Goes(c, [Past(c) EXCEPT !.have = inst[d].image])
             /\ UNCHANGED <<networks, projects, lock>>
          \/ /\ inst[d].image = "none" /\ gproj # "none" /\ (step(c).with # {} => exists(Resolver))
             /\ inst' = [inst EXCEPT ![d] = [image |-> "new", nic |-> step(c).with # {}, running |-> FALSE]]
             /\ Goes(c, [Past(c) EXCEPT !.have = "new"])
             /\ UNCHANGED <<networks, gproj, mark, own, run, lock>>
          \/ /\ inst[d].image = "none" /\ (gproj = "none" \/ (step(c).with # {} /\ ~exists(Resolver)))
             /\ FailsHere(c)

(* Mutant: the state of the deleted sidecar is kept, and the hook skipped. *)
ReplaceKeepsState(c) ==
    /\ Doing(c, "replace")
    /\ LET d == step(c).on
       IN  Goes(c, IF cmd[c].have # "old" THEN Past(c)
                  ELSE Instead(c, <<Step("stop", d, {}), Step("delete", d, {})>> \o EnsureAll(c)
                                  \o <<Step("inst", d, {})>>))
    /\ UNCHANGED <<networks, projects, lock>>

(* An older sidecar is stopped, deleted and made again. *)
Replace(c) ==
    /\ Doing(c, "replace")
    /\ LET d == step(c).on
       IN  Goes(c, IF cmd[c].have # "old" THEN Past(c)
                  ELSE [Instead(c, <<Step("stop", d, {}), Step("delete", d, {})>> \o EnsureAll(c)
                                   \o <<Step("inst", d, {})>>) EXCEPT !.have = "none"])
    /\ UNCHANGED <<networks, projects, lock>>

ChangeInstance(c) ==
    \E do \in {"stop", "delete", "start"} :
      /\ Doing(c, do)
      /\ LET d == step(c).on
         IN  \/ /\ inst[d].image # "none"
               /\ inst' = [inst EXCEPT ![d] = CASE do = "stop"   -> [@ EXCEPT !.running = FALSE]
                                                [] do = "delete" -> NoInst
                                                [] do = "start"  -> [@ EXCEPT !.running = TRUE]]
               /\ Goes(c, Past(c))
               /\ UNCHANGED <<networks, gproj, mark, own, run, lock>>
            \/ /\ inst[d].image = "none"
               /\ FailsHere(c)

(* The project's instances; on a bridge the DNS watcher then writes the    *)
(* addresses of the ones this run has seen running.                        *)
Alias(c) == IF ovn THEN <<>> ELSE <<On(step(c).err, Step("alias", Bridge, {}))>>
Watched(c, r, seen) ==
    /\ run' = [run EXCEPT ![job(c).project] = r]
    /\ Goes(c, IF seen = cmd[c].seen THEN Past(c) ELSE [Instead(c, Alias(c)) EXCEPT !.seen = seen])
    /\ UNCHANGED <<networks, gproj, inst, mark, own, lock>>

See(c) == Doing(c, "see") /\ Watched(c, run[job(c).project], run[job(c).project])
RunInstance(c) ==
    /\ Doing(c, "run")
    /\ Watched(c, run[job(c).project] \union {step(c).on}, cmd[c].seen \union {step(c).on})
HaltInstance(c) ==
    /\ Doing(c, "halt")
    /\ Watched(c, run[job(c).project] \ {step(c).on}, cmd[c].seen \ {step(c).on})

-----------------------------------------------------------------------------
(* The networks. *)

(* Network.Ensure with create: a network another process made in the       *)
(* meantime is adopted.                                                    *)
EnsureNetwork(c) ==
    /\ Doing(c, "ensure") /\ exists(step(c).on)
    /\ Goes(c, Past(c))
    /\ UNCHANGED <<networks, projects, lock>>

(* Network.create, back when the network is ready.  The resolver's is what *)
(* its project can have.                                                   *)
CreateNetwork(c) ==
    /\ Doing(c, "ensure") /\ ~exists(step(c).on)
    /\ LET n == step(c).on
           isovn == IF n = Resolver THEN gproj = "ovn" ELSE ovn
       IN  \/ /\ n = Resolver => gproj # "none"
             /\ kind' = [kind EXCEPT ![n] = IF isovn THEN "ovn" ELSE "bridge"]
             /\ Goes(c, Past(c))
             /\ UNCHANGED <<config, peer, acl, projects, lock>>
          \/ /\ n = Resolver /\ gproj = "none"
             /\ FailsHere(c)

(* Network.Ensure without create, or of an external network. *)
GetNetwork(c) ==
    /\ Doing(c, "get")
    /\ \/ exists(step(c).on) /\ Goes(c, Past(c)) /\ UNCHANGED <<networks, projects, lock>>
       \/ ~exists(step(c).on) /\ FailsHere(c)

EnsurePeer(c) ==
    /\ Doing(c, "peer")
    /\ peer' = PeerEnsured(peer, [n \in Nets |-> exists(n)], step(c).on, CHOOSE t \in step(c).with : TRUE)
    /\ Goes(c, Past(c))
    /\ UNCHANGED <<kind, config, acl, projects, lock>>

(* ensureACLs, each ACL created, or updated when it is there. *)
EnsureACL(c) ==
    /\ Doing(c, "acl")
    /\ acl' = acl \union {step(c).on}
    /\ Goes(c, Past(c))
    /\ UNCHANGED <<kind, config, peer, projects, lock>>

(* The four changes of a configuration. *)
Written(c, cfg) ==
    CASE step(c).do = "attach" -> Attached(cfg, step(c).with)
      [] step(c).do = "detach" -> Detached(cfg, step(c).with)
      [] step(c).do = "patch"  -> [cfg EXCEPT !.ranges = TRUE]
      [] step(c).do = "alias"  -> Aliased(cfg, job(c).project, cmd[c].seen)

Updating(c) ==
    \E do \in {"attach", "detach", "patch", "alias"} : Doing(c, do)

(* A network that is gone has nothing to detach. *)
Gone(c) ==
    /\ Updating(c) /\ ~exists(step(c).on)
    /\ IF step(c).do = "detach" THEN Goes(c, Past(c)) /\ UNCHANGED <<networks, projects, lock>>
       ELSE FailsHere(c)

Read(c) ==
    /\ Updating(c) /\ exists(step(c).on) /\ cmd[c].at = "read"
    /\ LET cfg == config[step(c).on]
       IN  Goes(c, IF Written(c, cfg) = cfg THEN Past(c)
                  ELSE [cmd[c] EXCEPT !.at = "write", !.snap = cfg])
    /\ UNCHANGED <<networks, projects, lock>>

(* A conflict is tried again from the read, up to the last attempt. *)
Again(c) ==
    IF cmd[c].tries + 1 = MaxTries THEN FailsHere(c)
    ELSE /\ Goes(c, [cmd[c] EXCEPT !.at = "read", !.snap = None, !.tries = @ + 1])
         /\ UNCHANGED <<networks, projects, lock>>

(* Mutant: the update is sent without the ETag. *)
MatchesAnything(c) == TRUE

(* UpdateNetwork and PatchNetwork with the ETag of the read. *)
Matches(c) == config[step(c).on] = cmd[c].snap
Write(c) ==
    /\ Updating(c) /\ exists(step(c).on) /\ cmd[c].at = "write"
    /\ \/ /\ Matches(c) /\ Written(c, cmd[c].snap).acls \subseteq acl
          /\ config' = [config EXCEPT ![step(c).on] = Written(c, cmd[c].snap)]
          /\ Goes(c, IF step(c).do \in {"attach", "detach"}
                     THEN [cmd[c] EXCEPT !.at = "verify", !.snap = None] ELSE Past(c))
          /\ UNCHANGED <<kind, peer, acl, projects, lock>>
       \/ /\ Matches(c) /\ ~(Written(c, cmd[c].snap).acls \subseteq acl)
          /\ FailsHere(c)
       \/ ~Matches(c) /\ Again(c)

(* The network read once more: the names are on it, or off it. *)
Verify(c) ==
    /\ Updating(c) /\ exists(step(c).on) /\ cmd[c].at = "verify"
    /\ LET there == step(c).with \intersect config[step(c).on].acls
       IN  IF there = (IF step(c).do = "attach" THEN step(c).with ELSE {})
           THEN Goes(c, Past(c)) /\ UNCHANGED <<networks, projects, lock>>
           ELSE Again(c)

(* RemoveACL and deleteACLs: an ACL a network lists cannot be deleted. *)
DeleteACL(c) ==
    /\ Doing(c, "delacl")
    /\ \/ /\ \A n \in Nets : step(c).with \intersect config[n].acls = {}
          /\ acl' = acl \ step(c).with
          /\ Goes(c, Past(c))
          /\ UNCHANGED <<kind, config, peer, projects, lock>>
       \/ /\ \E n \in Nets : step(c).with \intersect config[n].acls # {}
          /\ FailsHere(c)

(* RemovePeer, or deletePeers when none is named. *)
RemovePeer(c) ==
    /\ Doing(c, "unpeer")
    /\ peer' = IF step(c).with = {} THEN PeersDeleted(peer, step(c).on)
               ELSE [peer EXCEPT ![step(c).on] = [t \in Nets |-> IF t \in step(c).with THEN "none" ELSE @[t]]]
    /\ Goes(c, Past(c))
    /\ UNCHANGED <<kind, config, acl, projects, lock>>

(* DeleteNetwork: refused while another network has a peer to it. *)
DeleteNetwork(c) ==
    /\ Doing(c, "delnet")
    /\ LET n == step(c).on
       IN  \/ /\ exists(n) /\ \A m \in Nets : peer[m][n] = "none"
             /\ kind' = [kind EXCEPT ![n] = "none"]
             /\ config' = [config EXCEPT ![n] = Fresh]
             /\ peer' = PeersWithout(peer, n)
             /\ Goes(c, Past(c))
             /\ UNCHANGED <<acl, projects, lock>>
          \/ /\ ~exists(n) \/ \E m \in Nets : peer[m][n] # "none"
             /\ FailsHere(c)

-----------------------------------------------------------------------------
(* A project that is up: its network wired to the resolver's on OVN, its   *)
(* records on the bridge otherwise.                                        *)
IsUp(p) ==
    IF ovn
    THEN /\ exists(p) /\ exists(Resolver) /\ config[Resolver].posture /\ config[p].posture
         /\ config[Resolver].ranges
         /\ {defaultACLName(Resolver), dnsACLName(p)} \subseteq config[Resolver].acls \intersect acl
         /\ defaultACLName(p) \in config[p].acls \intersect acl
         /\ peer[Resolver][p] = "ok" /\ peer[p][Resolver] = "ok"
    ELSE exists(p) /\ config[Bridge].records[p] = Instances

(* A project of which nothing is left. *)
IsDown(p) ==
    /\ ~exists(p) /\ config[Bridge].records[p] = {}
    /\ peer[Resolver][p] = "none" /\ dnsACLName(p) \notin acl \union config[Resolver].acls
    /\ defaultACLName(p) \notin acl

Host(h) ==
    /\ ovn = h.ovn
    /\ gproj = h.gproj
    /\ kind = [n \in Nets |-> IF n = Bridge THEN "bridge"
                             ELSE IF n = Resolver THEN IF h.gproj = "none" THEN "none"
                                                       ELSE IF h.gproj = "plain" THEN "bridge" ELSE "ovn"
                             ELSE IF n \in h.up THEN ProjectKind ELSE "none"]
    /\ acl = IF h.gproj # "ovn" THEN {}
             ELSE {defaultACLName(n) : n \in h.up \union {Resolver}} \union {dnsACLName(p) : p \in h.up}
    /\ config = [n \in Nets |->
                   [Fresh EXCEPT !.records = [p \in Projects |->
                                    IF n = Bridge /\ ~h.ovn /\ p \in h.up THEN Instances ELSE {}],
                                 !.ranges = n = Resolver /\ h.gproj # "none",
                                 !.posture = h.gproj = "ovn" /\ n \in h.up \union {Resolver},
                                 !.acls = IF h.gproj # "ovn" THEN {}
                                          ELSE IF n = Resolver
                                          THEN {defaultACLName(n)} \union {dnsACLName(p) : p \in h.up}
                                          ELSE IF n \in h.up THEN {defaultACLName(n)} ELSE {}]]
    /\ peer = [m \in Nets |-> [n \in Nets |->
                 IF h.gproj = "ovn" /\ ((m \in h.up /\ n = Resolver) \/ (m = Resolver /\ n \in h.up))
                 THEN "ok" ELSE "none"]]
    /\ inst = [d \in Daemons |-> IF h.image = "none" THEN NoInst
                                 ELSE [image |-> h.image, nic |-> TRUE, running |-> TRUE]]
    /\ mark = [p \in Projects |-> IF p \in h.up THEN Daemons ELSE {}]
    /\ own = [p \in Projects |-> IF p \in h.up THEN {} ELSE h.own]
    /\ run = [p \in Projects |-> IF p \in h.up THEN Instances ELSE {}]
    /\ last = [p \in Projects |-> IF p \in h.up THEN "up" ELSE "none"]

Init ==
    /\ \E k \in Cases : Host(k.host) /\ cmd = [c \in Commands |-> Idle(k.jobs[c])]
    /\ lock = [l \in LockNames |-> None]
    /\ faults = 0

Steps(c) ==
    \/ Start(c) \/ Return(c) \/ Finish(c)
    \/ Check(c) \/ Recheck(c) \/ DropProject(c) \/ DropNetwork(c) \/ EnsureProject(c)
    \/ Acquire(c) \/ Release(c) \/ Mark(c)
    \/ dnsTeardown(c) \/ healthdTeardown(c) \/ Lookup(c) \/ LookupFails(c) \/ HookEnsure(c) \/ CreateInstance(c)
    \/ Replace(c) \/ ChangeInstance(c) \/ See(c) \/ RunInstance(c) \/ HaltInstance(c)
    \/ EnsureNetwork(c) \/ CreateNetwork(c) \/ GetNetwork(c) \/ EnsurePeer(c) \/ EnsureACL(c)
    \/ Gone(c) \/ Read(c) \/ Write(c) \/ Verify(c) \/ DeleteACL(c) \/ RemovePeer(c) \/ DeleteNetwork(c)

Runs(c) == Steps(c) /\ UNCHANGED <<ovn, faults>>

Done == (\A c \in Commands : cmd[c].res \in {"ok", "failed"}) /\ UNCHANGED vars

Next == (\E c \in Commands : Runs(c) \/ (Fault(c) /\ UNCHANGED ovn)) \/ Done

Spec == Init /\ [][Next]_vars /\ \A c \in Commands : WF_vars(Runs(c))

-----------------------------------------------------------------------------
(* What was done last to a project stays done while others work on theirs: *)
(* a project that is up keeps its peers, its ACL on the resolver's network *)
(* and its records, and one that is down leaves none.                      *)
Kept ==
    \A p \in Projects : (last[p] = "up" => IsUp(p)) /\ (last[p] = "down" => IsDown(p))

(* When every command has come to an end and none failed, each daemon a    *)
(* command brought up is there, on the image asked for, on the network and *)
(* running.                                                                *)
Served ==
    (\A c \in Commands : cmd[c].res = "ok")
      => \A d \in Daemons : (\E c \in Commands : job(c).what = "up" \/ job(c).daemon = d)
           => inst[d] = [image |-> "new", nic |-> TRUE, running |-> TRUE]

(* A project is never watched by a sidecar of its own and by the shared    *)
(* one: its own goes before the mark that the shared one looks for.        *)
OneDaemon == \A p \in Projects : mark[p] \intersect own[p] = {}

(* Every command comes to an end, whatever the others do: nobody waits for *)
(* a lock that is never given back.                                        *)
Ends == \A c \in Commands : <>(cmd[c].res \in {"ok", "failed"})

=============================================================================
