------------------------------ MODULE Rollout ------------------------------
(***************************************************************************)
(* Successive `up`s of one project, as far as its instances go: how many   *)
(* of each service and where, which of the ones there are left over, which *)
(* are from an older compose file and how those are replaced, batch after  *)
(* batch.                                                                  *)
(*                                                                         *)
(* A command goes through phases; in each it runs one action on a set of   *)
(* instances, in any order.  An ensure or a start that fails ends its      *)
(* phase at once and leaves the tasks begun by the other workers running.  *)
(***************************************************************************)
EXTENDS Placement, TLC

CONSTANTS Services,     \* in dependency order, a sequence
          Cases,        \* a compose file and a cluster each
          Scales,       \* the --scale arguments: Services -> count or None
          Entry,        \* the members a user connects to
          MaxIndex,     \* the highest replica looked at
          MaxUps, MaxEvents, MaxFaults, Workers

ServiceSet == ToSet(Services)
Names == {<<kind, s, i>> : kind \in {"service", "container"}, s \in ServiceSet, i \in 0..MaxIndex}
Counts == 0..MaxIndex \union {None}
Instance == [on : Members \union {Anywhere}, rev : Nat, running : BOOLEAN, by : Nat]

(* No more replicas are asked for than the model looks at; a file's        *)
(* sections are as the parser leaves them, and what it needs is in it.     *)
(* What is deployed at the start was named as the file names it, without   *)
(* container_name: an edit does not rename.                                *)
ASSUME RolloutAssumption ==
    /\ MaxIndex \in Nat \ {0} /\ IsFiniteSet(Members) /\ Cardinality(Members) <= MaxIndex
    /\ IsFiniteSet(ServiceSet) /\ Services \in Seq(ServiceSet)
    /\ None \notin Nat \union Instance
    /\ Scales \subseteq [ServiceSet -> Counts]
    /\ \A k \in Cases : \A s \in ServiceSet :
         LET d == k.file[s]
         IN  /\ d.replicas \in Counts /\ d.parallel \in Nat \union {None}
             /\ d.needs \subseteq ServiceSet /\ d.container \in BOOLEAN
             /\ d.update \in BOOLEAN /\ d.action \in {"pause", "continue"}
             /\ k.deployed => ~d.container

VARIABLES
    file,     \* Services -> its deploy section and names, as the file has them
    rev,      \* Services -> revision of the service in the file
    net,      \* the cluster: clustered, bridge, remote, shared pools
    online,   \* members that are online
    inst,     \* Names -> the instance there: on, rev, running, by; or None
    cmd,      \* the command
    ups,      \* commands so far
    shaken,   \* what a service's placement was computed from has changed
    events, faults

vars == <<file, rev, net, online, inst, cmd, ups, shaken, events, faults>>

there(n) == inst[n] # None
running(n) == there(n) /\ inst[n].running
service(n) == n[2]
Of(s) == {n \in Names : service(n) = s /\ there(n)}

-----------------------------------------------------------------------------
(* From a service to its instances. *)

(* container_name wins, with the index when there is more than one. *)
instanceName(s, i, scale) ==
    IF file[s].container THEN <<"container", s, IF scale > 1 THEN i ELSE 0>>
    ELSE <<"service", s, i>>

IsStoragePoolRemote(pool) == pool \in net.shared
isServiceStorageRemote(s) == net.remote /\ \A pool \in file[s].pools : IsStoragePoolRemote(pool)

Env(s, server, up) ==
    [clustered |-> net.clustered, server |-> server, online |-> up,
     bridge |-> net.bridge, remote |-> isServiceStorageRemote(s)]

(* Instances above the desired count are looked for by service name, up to *)
(* the first that is missing.                                              *)
Discovered(s, desired) ==
    CHOOSE k \in desired..MaxIndex :
        /\ \A i \in (desired + 1)..k : there(<<"service", s, i>>)
        /\ k = MaxIndex \/ ~there(<<"service", s, k + 1>>)

Everywhere(d, up) ==
    LET n == Len(filterClusterMembers(up, file[d].constraints)) IN IF n > 0 THEN n ELSE 1

(* Mutant: a dependency's --scale is not looked at. *)
DependencyWaitsDeclared(s, over, up) ==
    UNION {LET n == IF file[d].replicas # None THEN file[d].replicas
                    ELSE IF file[d].mode = "global" /\ net.clustered THEN Everywhere(d, up) ELSE 1
           IN  IF file[d].container THEN {<<"container", d, 0>>}
               ELSE {<<"service", d, i>> : i \in 1..n} : d \in file[s].needs}

(* The names an instance waits for, of the services it needs healthy. *)
instanceDependencyWaits(s, over, up) ==
    UNION {LET n == IF over[d] # None THEN over[d]
                    ELSE IF file[d].replicas # None THEN file[d].replicas
                    ELSE IF file[d].mode = "global" /\ net.clustered THEN Everywhere(d, up) ELSE 1
           IN  IF file[d].container THEN {<<"container", d, 0>>}
               ELSE {<<"service", d, i>> : i \in 1..n} : d \in file[s].needs}

(* serviceToInstance: the name, where it goes (a left over one would go to *)
(* the server), and what it waits for.                                     *)
serviceToInstance(s, i, scale, targets, c) ==
    [name |-> instanceName(s, i, scale),
     target |-> IF i <= Len(targets) THEN targets[i]
                ELSE IF net.clustered THEN c.server ELSE Anywhere,
     waits |-> instanceDependencyWaits(s, c.over, c.up),
     marked |-> i > Len(targets)]

Placing(s, c) == resolveServicePlacement(Env(s, c.server, c.up), file[s], c.over[s])

(* Project.Resources: every service's instances, or nothing. *)
ResourcesOf(s, c) ==
    LET p == Placing(s, c)
        scale == Discovered(s, p.desired)
    IN  {serviceToInstance(s, i, scale, p.targets, c) : i \in 1..scale}
Refuses(c) == \E s \in ServiceSet : ~Placing(s, c).ok
Resources(c) == UNION {ResourcesOf(s, c) : s \in ServiceSet}

-----------------------------------------------------------------------------
(* The replacement of instances from an older file. *)

(* One at a time when nothing is said, all of them for zero. *)
BatchSize(s, stale) ==
    IF file[s].parallel = None THEN 1
    ELSE IF file[s].parallel = 0 THEN Cardinality(stale) ELSE file[s].parallel

(* By their numbers. *)
Rank(n, stale) == Cardinality({m \in stale : m[3] <= n[3]})

batchStaleInstances(s, stale) ==
    LET size == BatchSize(s, stale)
        count == (Cardinality(stale) + size - 1) \div size
    IN  [b \in 1..count |-> {n \in stale : (Rank(n, stale) - 1) \div size = b - 1}]

(* A service's batches; nothing for one that has nothing stale. *)
ServiceBatches(s, stale) ==
    LET own == {n \in stale : service(n) = s /\ file[s].update}
        sets == batchStaleInstances(s, own)
    IN  IF own = {} THEN <<>>
        ELSE [b \in DOMAIN sets |-> [names |-> sets[b], action |-> file[s].action, start |-> TRUE]]

(* The stale ones of services without update_config in a batch of their    *)
(* own, then service after service.                                        *)
buildStaleBatches(stale) ==
    LET rest == {n \in stale : ~file[service(n)].update}
    IN  (IF rest = {} THEN <<>> ELSE <<[names |-> rest, action |-> "pause", start |-> FALSE]>>)
        \o FlattenSeq([k \in DOMAIN Services |-> ServiceBatches(Services[k], stale)])

-----------------------------------------------------------------------------
(* The command. *)

Resting(res, c) == [c EXCEPT !.phase = "idle", !.res = res, !.todo = {}, !.late = {}, !.batches = <<>>,
                              !.have = {}, !.made = {}, !.began = {}, !.bad = FALSE, !.stacked = TRUE]
NoCommand == [phase |-> "idle", res |-> "none", over |-> [s \in ServiceSet |-> None], server |-> None,
              up |-> {}, plan |-> {}, todo |-> {}, late |-> {}, have |-> {}, made |-> {},
              began |-> {}, batches |-> <<>>, bad |-> FALSE, stacked |-> TRUE, swallowed |-> FALSE]

planned(n) == CHOOSE r \in cmd.plan : r.name = n
Planned == {r.name : r \in cmd.plan}
Kept == {r.name : r \in {q \in cmd.plan : ~q.marked}}

same == <<file, rev, net, online, ups, shaken, events>>

(* up begins: members are listed once, and the resources computed. *)
Begin(over, server) ==
    /\ cmd.phase = "idle" /\ ups < MaxUps
    /\ server \in online /\ (net.clustered => server \in Entry)
    /\ LET c == [NoCommand EXCEPT !.over = over, !.server = server, !.up = online,
                                  !.began = {n \in Names : running(n)}]
           plan == Resources(c)
       IN  cmd' = IF Refuses(c) THEN Resting("failed", c)
                  ELSE [c EXCEPT !.phase = "ensure", !.plan = plan, !.todo = {r.name : r \in plan}]
    /\ ups' = ups + 1
    /\ shaken' = [s \in ServiceSet |->
                    \/ shaken[s]
                    \/ ups > 0 /\ server # cmd.server
                    \/ file[s].mode = "global" /\ over[s] # None]
    /\ UNCHANGED <<file, rev, net, online, inst, events, faults>>

(* A task in the phase: one instance, one action. *)
Doing(phases, n) == cmd.phase \in phases /\ n \in cmd.todo
Reachable(n) == there(n) => inst[n].on = Anywhere \/ inst[n].on \in online
Did(n, c) == cmd' = [c EXCEPT !.todo = @ \ {n}]

(* Instance.Ensure of one that is there, wanted or left over. *)
EnsureThere(n) ==
    /\ Doing({"ensure", "again"}, n) /\ there(n) /\ Reachable(n)
    /\ IF planned(n).marked
       THEN inst' = [inst EXCEPT ![n] = None] /\ Did(n, cmd)
       ELSE Did(n, [cmd EXCEPT !.have = @ \union {n}]) /\ UNCHANGED inst
    /\ UNCHANGED <<same, faults>>

Made(n, m) == [on |-> m, rev |-> rev[service(n)], running |-> FALSE, by |-> ups]
Sites(n) == LET t == planned(n).target
            IN  IF t # Anywhere THEN {t} \intersect online
                ELSE IF net.clustered THEN online ELSE {Anywhere}
Create(n) ==
    /\ Doing({"ensure", "again"}, n) /\ ~there(n)
    /\ \E m \in Sites(n) :
         /\ inst' = [inst EXCEPT ![n] = Made(n, m)]
         /\ Did(n, [cmd EXCEPT !.have = @ \union {n}, !.made = @ \union {n}])
    /\ UNCHANGED <<same, faults>>

Stop(n) ==
    /\ Doing({"stop"}, n) /\ there(n) /\ Reachable(n)
    /\ inst' = [inst EXCEPT ![n].running = FALSE]
    /\ Did(n, cmd)
    /\ UNCHANGED <<same, faults>>

Delete(n) ==
    /\ Doing({"delete"}, n) /\ there(n) /\ Reachable(n)
    /\ inst' = [inst EXCEPT ![n] = None]
    /\ Did(n, [cmd EXCEPT !.have = @ \ {n}])
    /\ UNCHANGED <<same, faults>>

(* Instance.Start: once what it waits for is healthy, which here is to run. *)
Start(n) ==
    /\ Doing({"start", "final"}, n) /\ there(n) /\ Reachable(n)
    /\ running(n) \/ \A w \in planned(n).waits : w \in Names /\ running(w)
    /\ inst' = [inst EXCEPT ![n].running = TRUE]
    /\ Did(n, cmd)
    /\ UNCHANGED <<same, faults>>

(* What is begun by other workers when an ensure or a start fails. *)
Tasks(phase, S) == {[do |-> IF phase \in {"ensure", "again"} THEN "ensure" ELSE "start", name |-> n] : n \in S}

(* A batch that failed: the update pauses there, or goes on. *)
NextBatch(c, swallowed) ==
    LET rest == Tail(c.batches)
        d == [c EXCEPT !.batches = rest, !.bad = FALSE, !.swallowed = @ \/ swallowed]
    IN  IF rest # <<>> THEN [d EXCEPT !.phase = "stop", !.todo = Head(rest).names]
        ELSE IF ~c.stacked THEN Resting("failed", d)
        ELSE [d EXCEPT !.phase = "final", !.todo = d.have]
(* Mutant: a batch that failed never ends the update. *)
GivesUpNever(c) ==
    IF c.phase \in {"ensure", "final"} THEN Resting("failed", c) ELSE NextBatch(c, TRUE)
GivesUp(c) ==
    IF c.phase \in {"ensure", "final"} \/ Head(c.batches).action = "pause" THEN Resting("failed", c)
    ELSE NextBatch(c, TRUE)

(* A task fails: by a fault, or because its member is offline, or because  *)
(* what it waits for will not run.  A left over one may be stopped, and    *)
(* one whose delete failed is no longer held.                              *)
Hopeless(n) ==
    \/ there(n) /\ ~Reachable(n)
    \/ cmd.phase \in {"ensure", "again"} /\ ~there(n) /\ Sites(n) = {}
    \/ /\ cmd.phase \in {"start", "final"} /\ ~running(n)
       /\ \E w \in planned(n).waits : ~(w \in Names /\ running(w)) /\ w \notin cmd.todo
TaskFails(n) ==
    /\ cmd.phase # "idle" /\ n \in cmd.todo
    /\ \/ Hopeless(n) /\ UNCHANGED faults
       \/ ~Hopeless(n) /\ faults < MaxFaults /\ faults' = faults + 1
    /\ \E halted \in BOOLEAN :
         /\ halted => cmd.phase = "ensure" /\ there(n) /\ planned(n).marked /\ Reachable(n)
         /\ inst' = IF halted THEN [inst EXCEPT ![n].running = FALSE] ELSE inst
    /\ IF cmd.phase \in {"stop", "delete"}
       THEN Did(n, [cmd EXCEPT !.bad = TRUE, !.have = IF cmd.phase = "delete" THEN @ \ {n} ELSE @])
       ELSE \E left \in SUBSET (cmd.todo \ {n}) :
              /\ Cardinality(left) < Workers
              /\ LET c == GivesUp(cmd)
                 IN  cmd' = IF c.phase = "idle" THEN c
                            ELSE [c EXCEPT !.late = @ \union Tasks(cmd.phase, left)]
    /\ UNCHANGED same

(* A task left running comes to its end, unseen. *)
Late(t) ==
    /\ t \in cmd.late
    /\ cmd' = [cmd EXCEPT !.late = @ \ {t}, !.have = IF t.do = "ensure" THEN @ \union {t.name} ELSE @]
    /\ \/ /\ t.do = "ensure" /\ ~there(t.name) /\ t.name \in Planned
          /\ \E m \in Sites(t.name) : inst' = [inst EXCEPT ![t.name] = Made(t.name, m)]
       \/ /\ t.do = "start" /\ there(t.name) /\ t.name \in Planned
          /\ \A w \in planned(t.name).waits : w \in Names /\ running(w)
          /\ inst' = [inst EXCEPT ![t.name].running = TRUE]
    /\ UNCHANGED <<same, faults>>
LateFails(t) ==
    /\ t \in cmd.late
    /\ cmd' = [cmd EXCEPT !.late = @ \ {t}]
    /\ UNCHANGED <<same, faults, inst>>

(* Mutant: everything counts as current once it is ensured. *)
staleInstancesNone == {}

(* The ones found, not made, by this command, that are of another revision. *)
staleInstances == {n \in cmd.have \ cmd.made : there(n) /\ inst[n].rev # rev[service(n)]}

(* The end of a phase, and what comes after it. *)
EnsurePhaseEnds ==
    /\ cmd.phase = "ensure" /\ cmd.todo = {}
    /\ LET batches == buildStaleBatches(staleInstances)
       IN  cmd' = IF batches = <<>> THEN [cmd EXCEPT !.phase = "final", !.todo = cmd.have]
                  ELSE [cmd EXCEPT !.phase = "stop", !.batches = batches, !.stacked = FALSE,
                                   !.todo = Head(batches).names]
    /\ UNCHANGED <<same, inst, faults>>

TeardownPhaseEnds ==
    /\ cmd.phase \in {"stop", "delete"} /\ cmd.todo = {}
    /\ cmd' = IF cmd.bad THEN GivesUp(cmd)
              ELSE IF cmd.phase = "stop" THEN [cmd EXCEPT !.phase = "delete", !.todo = Head(cmd.batches).names]
              ELSE LET plan == Resources(cmd)
                   IN  [cmd EXCEPT !.phase = "again", !.plan = plan, !.stacked = TRUE,
                                   !.todo = Head(cmd.batches).names \intersect {r.name : r \in plan}]
    /\ UNCHANGED <<same, inst, faults>>

BatchPhaseEnds ==
    /\ cmd.phase \in {"again", "start"} /\ cmd.todo = {}
    /\ cmd' = IF cmd.phase = "again" /\ Head(cmd.batches).start
              THEN [cmd EXCEPT !.phase = "start", !.todo = Head(cmd.batches).names \intersect cmd.have]
              ELSE NextBatch(cmd, FALSE)
    /\ UNCHANGED <<same, inst, faults>>

FinalPhaseEnds ==
    /\ cmd.phase = "final" /\ cmd.todo = {}
    /\ cmd' = Resting("ok", cmd)
    /\ UNCHANGED <<same, inst, faults>>

Killed ==
    /\ cmd.phase # "idle" /\ faults < MaxFaults
    /\ faults' = faults + 1
    /\ cmd' = Resting("failed", cmd)
    /\ UNCHANGED <<same, inst>>

(* Between commands: the file is edited.  At any time: a member goes or    *)
(* comes back.                                                             *)
Edit(s) ==
    /\ cmd.phase = "idle" /\ events < MaxEvents /\ Of(s) # {}
    /\ rev' = [rev EXCEPT ![s] = @ + 1]
    /\ cmd' = [cmd EXCEPT !.res = "none"]
    /\ events' = events + 1
    /\ UNCHANGED <<file, net, online, inst, ups, shaken, faults>>

Member(m) ==
    /\ net.clustered /\ events < MaxEvents /\ ups > 0
    /\ online' = IF m \in online THEN online \ {m} ELSE online \union {m}
    /\ online' # {}
    /\ cmd' = IF cmd.phase = "idle" THEN [cmd EXCEPT !.res = "none"] ELSE cmd
    /\ events' = events + 1
    /\ shaken' = [s \in ServiceSet |-> TRUE]
    /\ UNCHANGED <<file, rev, net, inst, ups, faults>>

-----------------------------------------------------------------------------
Init ==
    /\ \E k \in Cases :
         /\ file = k.file /\ net = k.net
         /\ inst = [n \in Names |->
                      IF k.deployed /\ n[1] = "service" /\ n[3] \in 1..Asked(file[service(n)], None)
                      THEN [on |-> Anywhere, rev |-> 0, running |-> TRUE, by |-> 0] ELSE None]
    /\ rev = [s \in ServiceSet |-> 0]
    /\ online = IF net.clustered THEN Members ELSE {Anywhere}
    /\ cmd = NoCommand
    /\ ups = 0 /\ events = 0 /\ faults = 0
    /\ shaken = [s \in ServiceSet |-> FALSE]

Next ==
    \/ \E over \in Scales, server \in online : Begin(over, server)
    \/ \E n \in cmd.todo : EnsureThere(n) \/ Create(n) \/ Stop(n) \/ Delete(n) \/ Start(n) \/ TaskFails(n)
    \/ \E t \in cmd.late : Late(t) \/ LateFails(t)
    \/ EnsurePhaseEnds \/ TeardownPhaseEnds \/ BatchPhaseEnds \/ FinalPhaseEnds \/ Killed
    \/ \E s \in ServiceSet : Edit(s)
    \/ \E m \in Members : Member(m)

Spec == Init /\ [][Next]_vars

-----------------------------------------------------------------------------
Limit(s) == IF file[s].parallel = None THEN 1
            ELSE IF file[s].parallel = 0 THEN MaxIndex ELSE file[s].parallel

(* A rolling update that pauses on failure never has more replicas of a    *)
(* service down than update_config's parallelism, whatever fails in it.    *)
Available ==
    \A s \in ServiceSet : cmd.phase # "idle" /\ file[s].update /\ file[s].action = "pause" =>
        Cardinality({n \in cmd.began \intersect Kept : service(n) = s /\ ~running(n)}) <= Limit(s)

(* After an up that succeeded and skipped no batch, what it planned runs,  *)
(* all of it from the file as it is, and the next replica is not there.    *)
Settled ==
    cmd.res = "ok" /\ ~cmd.swallowed =>
        /\ \A n \in Kept : running(n) /\ inst[n].rev = rev[service(n)]
        /\ \A s \in ServiceSet : LET d == Cardinality({n \in Kept : service(n) = s})
                                 IN  d < MaxIndex => ~there(<<"service", s, d + 1>>)

(* While nothing moved under a service: its replicas are on members that   *)
(* satisfy the constraints, no member has more than the limit, and the     *)
(* ones one command made are spread evenly.                                *)
Placed ==
    \A s \in ServiceSet : net.clustered /\ ~shaken[s] =>
        LET candidates == ToSet(filterClusterMembers(Members, file[s].constraints))
            at(m) == {n \in Of(s) : inst[n].on = m}
        IN  /\ file[s].constraints # {} => \A n \in Of(s) : \A c \in file[s].constraints : matches(c, inst[n].on)
            /\ file[s].max > 0 => \A m \in Members : Cardinality(at(m)) <= file[s].max
            /\ cmd.res = "ok" /\ ~cmd.swallowed /\ (\A n \in Of(s) : inst[n].by = ups)
               => \A m1, m2 \in candidates : Cardinality(at(m1)) <= Cardinality(at(m2)) + 1

(* What an instance waits for is among the instances its own command       *)
(* brings up: nobody waits for a replica that is not coming.               *)
WaitsNamed ==
    \A r \in cmd.plan : \A d \in file[service(r.name)].needs :
        ~file[d].container => {w \in r.waits : service(w) = d} = {n \in Kept : service(n) = d}
=============================================================================
