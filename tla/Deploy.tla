------------------------------- MODULE Deploy -------------------------------
(***************************************************************************)
(* The commands that bring a project up, down and round: `up`, `down`,     *)
(* `down --volumes` ("purge"), `up --recreate` ("recreate"; "rebuild"      *)
(* where the services are named, as by --build, and networks stay) and     *)
(* `restart`.  Each is a few runs of a                                     *)
(* Stack, one after the other; the tasks of a run talk to the Incus        *)
(* server, where ic-healthd acts on the same instances.                    *)
(*                                                                         *)
(* A service has one instance, named like it.  depends_on is taken with    *)
(* condition: service_healthy, the only one that waits.  Time is left out: *)
(* a wait may end with its timeout whenever faults allow.                  *)
(***************************************************************************)
EXTENDS Stack

CONSTANTS
    Services, Networks, Volumes,
    ResourcesOf,  \* a service's resources, its instance last
    DependsOn,
    Policy,       \* the services with a restart policy
    Watched,      \* those with one or with a test: ic-healthd gives a verdict
    Late,         \* the services whose stop ic-healthd may be late to report
    Plans,        \* the commands
    Faults,       \* what may go wrong in which
    MaxFaults     \* bound: how often

ASSUME DeployAssumption ==
    /\ Resources = Services \union Networks \union Volumes
    /\ Services \intersect (Networks \union Volumes) = {} /\ Networks \intersect Volumes = {}
    /\ IsFiniteSet(Services) /\ DependsOn \in [Services -> SUBSET Services]
    /\ ResourcesOf \in [Services -> Seq(Resources)]
    /\ \A s \in Services : ToSet(ResourcesOf[s]) \intersect Services = {s}
    /\ \A s \in Services : \A r \in ToSet(ResourcesOf[s]) \ {s} : Priority[r] < Priority[s]
    /\ Watched \subseteq Services /\ Policy \subseteq Watched /\ Late \subseteq Watched
    /\ Plans \subseteq {"up", "down", "purge", "recreate", "rebuild", "restart"}
    /\ Faults \in [Plans -> SUBSET {"fetch", "operation", "timeout"}] /\ MaxFaults \in Nat

VARIABLES
    plan,      \* the command's runs
    runs,      \* those begun, the last one current: an earlier one may have
               \* workers that outlive it
    order,     \* the services in dependency order
    known,     \* the client has read the resource: IsEnsured
    exists, running, marker, label,  \* the server: what there is, runs, was
               \* stopped on purpose, and carries a healthy verdict
    filled,    \* the volumes that hold all their image has for them
    queued,    \* ic-healthd: a restart is due
    made, renewed,  \* history: created, and started, by or during the command
    lost,      \* history: the services a read of which failed, taken for absent
    late,      \* history: those whose verdict outlived their stop
    joined,    \* an error the command reports at its end
    result,
    faults

server == <<exists, running, marker, label, filled, made, renewed>>
vars == <<plan, runs, order, known, server, queued, lost, late, joined, result, faults>>

-----------------------------------------------------------------------------
(* The commands. *)

Phase(act, desc, failFast, onError, newClient) ==
    [act |-> act, desc |-> desc, failFast |-> failFast, onError |-> onError, newClient |-> newClient]

(* down: best effort, but for `up --recreate` a delete that fails ends it. *)
Teardown(onDelete) ==
    <<Phase("lookup", TRUE, FALSE, "ignore", TRUE),
      Phase("stop", TRUE, FALSE, "ignore", FALSE),
      Phase("delete", TRUE, FALSE, onDelete, FALSE)>>

BringUp ==
    <<Phase("ensure", FALSE, TRUE, "abort", TRUE), Phase("start", FALSE, TRUE, "abort", FALSE)>>

StopPhases ==
    <<Phase("lookup", TRUE, FALSE, "join", TRUE), Phase("stop", TRUE, FALSE, "join", FALSE)>>

StartPhases ==
    <<Phase("lookup", FALSE, TRUE, "join", TRUE), Phase("start", FALSE, TRUE, "join", FALSE)>>

(* Whatever came of the stop, what is down is started. *)
StopStart == StopPhases \o StartPhases

Plan ==
    [up |-> BringUp, down |-> Teardown("ignore"), purge |-> Teardown("ignore"),
     recreate |-> Teardown("abort") \o BringUp, rebuild |-> Teardown("abort") \o BringUp,
     restart |-> StopStart]

(* Every dependency of a service comes before it. *)
Topological(o) ==
    \A k \in DOMAIN o : DependsOn[o[k]] \subseteq {o[j] : j \in 1..(k - 1)}

ServiceOrders == {o \in SetToSeqs(Services) : Topological(o)}

(* SupportsAction: only an instance can be stopped. *)
Supports(act) == IF act = "stop" THEN Services ELSE Resources

(* Mutant: a teardown takes the volumes along. *)
FilterVolumes(phase) ==
    IF phase.act = "start" THEN known
    ELSE IF plan = "rebuild" /\ phase.act # "ensure" THEN Services ELSE Resources

(* filterResources: a teardown leaves the volumes out unless it is told to *)
(* take them, one of named services the networks too; and nothing is       *)
(* started that the client has not read.                                   *)
Filter(phase) ==
    IF phase.act = "start" THEN known
    ELSE IF phase.act = "ensure" \/ plan = "purge" THEN Resources
    ELSE IF plan = "rebuild" THEN Services ELSE Resources \ Volumes

Stacked(phase) ==
    AddOrdered(IF phase.desc THEN Reverse(order) ELSE order, ResourcesOf)

Members(phase) == ForActionF(Stacked(phase), Supports(phase.act), Filter(phase))

(* A project that is not there yet, one that was taken down, or one that   *)
(* is there, with some services stopped on purpose, a moment ago or longer *)
(* since, and some of the others healthy.                                  *)
Init ==
    /\ plan \in Plans /\ order \in ServiceOrders
    /\ exists \in {{}, Volumes, Resources} /\ filled = exists \intersect Volumes
    /\ running \in SUBSET (exists \intersect Services)
    /\ marker = (exists \intersect Services) \ running
    /\ label \in {{}, running \intersect Watched}
    /\ queued \in {{}, (exists \intersect Policy) \ running}
    /\ runs = <<>> /\ known = {}
    /\ made = {} /\ renewed = {} /\ lost = {} /\ late = {}
    /\ joined = FALSE /\ result = "none" /\ faults = 0

-----------------------------------------------------------------------------
(* A command goes through its runs. *)

Current == Len(runs)
Fault(kind) == kind \in Faults[plan] /\ faults < MaxFaults /\ faults' = faults + 1

NextRun ==
    /\ result = "none" /\ Current < Len(Plan[plan])
    /\ runs # <<>> => runs[Current].result # "running"
    /\ LET phase == Plan[plan][Current + 1]
           last == Plan[plan][Current]
           failed == runs # <<>> /\ runs[Current].result = "failed"
       IN  IF failed /\ last.onError = "abort"
           THEN result' = "failed" /\ UNCHANGED <<runs, known, joined>>
           ELSE /\ runs' = Append(runs, NewRun(Members(phase), phase.desc, phase.failFast))
                /\ known' = IF phase.newClient THEN {} ELSE known
                /\ joined' = (joined \/ (failed /\ last.onError = "join"))
                /\ UNCHANGED result
    /\ UNCHANGED <<plan, order, server, queued, lost, late, faults>>

(* What lies between two runs fails: the resolver's ACLs before a delete,  *)
(* the sidecars before an ensure.                                          *)
BetweenRunsFails ==
    /\ result = "none" /\ Current \in 1..(Len(Plan[plan]) - 1) /\ runs[Current].result # "running"
    /\ Plan[plan][Current + 1].act \in {"delete", "ensure"}
    /\ Fault("operation")
    /\ result' = "failed"
    /\ UNCHANGED <<plan, runs, order, known, server, queued, lost, late, joined>>

CommandEnds ==
    /\ result = "none" /\ Current = Len(Plan[plan]) /\ runs[Current].result # "running"
    /\ result' = IF joined \/ (runs[Current].result = "failed" /\ Plan[plan][Current].onError # "ignore")
                 THEN "failed" ELSE "ok"
    /\ UNCHANGED <<plan, runs, order, known, server, queued, lost, late, joined, faults>>

(* The pool's own steps.  Workers that outlive a run go on until the       *)
(* process ends with the command.                                          *)
Command == <<plan, order, joined, result, lost, late>>

Rewrite(k, run) ==
    /\ result = "none"
    /\ runs' = [runs EXCEPT ![k] = run]

OpenBatch ==
    /\ runs # <<>> /\ BetweenBatches(runs[Current])
    /\ Rewrite(Current, IF runs[Current].turn = Levels THEN RunOver(runs[Current])
                        ELSE BatchOpened(runs[Current]))
    /\ UNCHANGED <<Command, known, server, queued, faults>>

CloseBatch ==
    /\ runs # <<>> /\ BatchOver(runs[Current])
    /\ Rewrite(Current, BatchClosed(runs[Current]))
    /\ UNCHANGED <<Command, known, server, queued, faults>>

Receive(k, w) ==
    /\ runs[k].worker[w].at = "idle"
    /\ \/ runs[k].queue = {} /\ Rewrite(k, Left(runs[k], w))
       \/ \E r \in InLine(runs[k], Stacked(Plan[plan][k])) :
             Rewrite(k, Received(runs[k], w, r))
    /\ UNCHANGED <<Command, known, server, queued, faults>>

Cancel(k, w) ==
    /\ runs[k].worker[w].at = "failing"
    /\ Rewrite(k, Cancelled(runs[k], w))
    /\ UNCHANGED <<Command, known, server, queued, faults>>

-----------------------------------------------------------------------------
(* The tasks: what Resource.Ensure, Stop, Delete and Start do, with the    *)
(* errors the command has asked to be ignored already taken for success.   *)

Res(k, w) == runs[k].worker[w].res
Doing(k, w, act, step) ==
    runs[k].worker[w].at = "busy" /\ Plan[plan][k].act = act /\ runs[k].worker[w].step = step

Ends(k, w) == Rewrite(k, Succeeded(runs[k], w))
Fails(k, w) == Rewrite(k, Errored(runs[k], w))
Steps(k, w, step, left) ==
    Rewrite(k, [runs[k] EXCEPT !.worker[w].step = step, !.worker[w].left = left])

(* Ensure without create: not to find it is no error here. *)
Lookup(k, w) ==
    /\ Doing(k, w, "lookup", "begin") /\ Ends(k, w)
    /\ known' = known \union ({Res(k, w)} \intersect exists)
    /\ UNCHANGED <<Command, server, queued, faults>>

(* An instance's Ensure takes any failed read for "not found". *)
LookupFails(k, w) ==
    /\ Doing(k, w, "lookup", "begin") /\ Fault("fetch")
    /\ IF Res(k, w) \in Services THEN Ends(k, w) ELSE Fails(k, w)
    /\ lost' = lost \union ({Res(k, w)} \intersect Services)
    /\ UNCHANGED <<plan, order, joined, result, late, known, server, queued>>

(* The marker goes up first, so that ic-healthd leaves the instance down. *)
StopBegins(k, w) ==
    /\ Doing(k, w, "stop", "begin")
    /\ marker' = marker \union ({Res(k, w)} \intersect known)
    /\ IF Res(k, w) \in known \intersect running THEN Steps(k, w, "power", {}) ELSE Ends(k, w)
    /\ UNCHANGED <<Command, known, exists, running, label, filled, made, renewed, queued, faults>>

(* ic-healthd hears of it: the verdict goes, at once or late, and whatever *)
(* the marker says a policy gets a restart queued, which is where the      *)
(* marker is read.                                                         *)
PowerOff(k, w) ==
    /\ Doing(k, w, "stop", "power") /\ Ends(k, w)
    /\ running' = running \ {Res(k, w)}
    /\ \E kept \in SUBSET ({Res(k, w)} \intersect label \intersect Late) :
          label' = label \ ({Res(k, w)} \ kept) /\ late' = late \union kept
    /\ queued' = queued \union ({Res(k, w)} \intersect Policy)
    /\ UNCHANGED <<plan, order, joined, result, lost, known, exists, marker, filled, made, renewed, faults>>

(* The server refuses to delete a running instance, or what one uses. *)
InUse(r) == r \in running \/ \E s \in exists \intersect Services : s # r /\ r \in ToSet(ResourcesOf[s])

(* A volume that is in use is left without an error: replicas share one. *)
Refused(k, w) == IF Res(k, w) \in Volumes THEN Ends(k, w) ELSE Fails(k, w)

(* Whatever comes of it, the client forgets the resource. *)
Delete(k, w) ==
    /\ Doing(k, w, "delete", "begin")
    /\ known' = known \ {Res(k, w)}
    /\ IF Res(k, w) \in known /\ InUse(Res(k, w))
       THEN /\ Refused(k, w)
            /\ UNCHANGED <<exists, marker, label, queued, filled>>
       ELSE LET gone == {Res(k, w)} \intersect known IN
            /\ Ends(k, w)
            /\ exists' = exists \ gone /\ marker' = marker \ gone /\ label' = label \ gone
            /\ queued' = queued \ gone /\ filled' = filled \ gone
    /\ UNCHANGED <<Command, running, made, renewed, faults>>

(* An instance is created from resources the client has ensured, with the  *)
(* marker up, as it is not to run before its start.                        *)
Needs(r) == IF r \in Services THEN ToSet(ResourcesOf[r]) \ {r} ELSE {}

Ensure(k, w) ==
    /\ Doing(k, w, "ensure", "begin") /\ Res(k, w) \notin Volumes \ exists
    /\ LET r == Res(k, w) IN
       IF r \in exists \/ Needs(r) \subseteq known
       THEN /\ Ends(k, w)
            /\ known' = known \union {r} /\ exists' = exists \union {r}
            /\ made' = made \union ({r} \ exists)
            /\ marker' = marker \union (({r} \intersect Services) \ exists)
       ELSE Fails(k, w) /\ UNCHANGED <<known, exists, made, marker>>
    /\ UNCHANGED <<Command, running, label, filled, renewed, queued, faults>>

(* A volume is there before what the image has for it is. *)
CreateVolume(k, w) ==
    /\ Doing(k, w, "ensure", "begin") /\ Res(k, w) \in Volumes \ exists
    /\ Steps(k, w, "fill", {})
    /\ exists' = exists \union {Res(k, w)}
    /\ UNCHANGED <<Command, known, running, marker, label, filled, made, renewed, queued, faults>>

FillVolume(k, w) ==
    /\ Doing(k, w, "ensure", "fill") /\ Ends(k, w)
    /\ known' = known \union {Res(k, w)} /\ filled' = filled \union {Res(k, w)}
    /\ made' = made \union {Res(k, w)}
    /\ UNCHANGED <<Command, exists, running, marker, label, renewed, queued, faults>>

(* A prefetch that fails takes its volume back.  When that fails as well   *)
(* the volume is found, and taken for one that lost a race to create it.   *)
FillFails(k, w) ==
    /\ Doing(k, w, "ensure", "fill") /\ "operation" \in Faults[plan]
    /\ \/ /\ Fault("operation") /\ Fails(k, w)
          /\ exists' = exists \ {Res(k, w)} /\ UNCHANGED known
       \/ /\ faults + 2 <= MaxFaults /\ faults' = faults + 2 /\ Ends(k, w)
          /\ known' = known \union {Res(k, w)} /\ UNCHANGED exists
    /\ UNCHANGED <<Command, running, marker, label, filled, made, renewed, queued>>

(* StorageVolume.Start validates and seeds. *)
StartVolume(k, w) ==
    /\ Doing(k, w, "start", "begin") /\ Res(k, w) \in Volumes /\ Ends(k, w)
    /\ UNCHANGED <<Command, known, server, queued, faults>>

(* Network.Start sets up peers and ACLs. *)
StartNetwork(k, w) ==
    /\ Doing(k, w, "start", "begin") /\ Res(k, w) \in Networks /\ Ends(k, w)
    /\ UNCHANGED <<Command, known, server, queued, faults>>

(* The marker comes down before the wait for the dependencies. *)
StartBegins(k, w) ==
    /\ Doing(k, w, "start", "begin") /\ Res(k, w) \in Services
    /\ marker' = marker \ {Res(k, w)}
    /\ IF Res(k, w) \in running THEN Ends(k, w) ELSE Steps(k, w, "deps", DependsOn[Res(k, w)])
    /\ UNCHANGED <<Command, known, exists, running, label, filled, made, renewed, queued, faults>>

DependencySeen(k, w) ==
    /\ Doing(k, w, "start", "deps")
    /\ \E d \in runs[k].worker[w].left \intersect label :
          Steps(k, w, "deps", runs[k].worker[w].left \ {d})
    /\ UNCHANGED <<Command, known, server, queued, faults>>

(* Mutant: the first dependency to be healthy ends the wait. *)
AnyDependencyMet(k, w) ==
    runs[k].worker[w].left = {} \/ runs[k].worker[w].left # DependsOn[Res(k, w)]

DependenciesMet(k, w) == runs[k].worker[w].left = {}

(* One that ic-healthd has started meanwhile is not waited for either. *)
PowerOn(k, w) ==
    /\ Doing(k, w, "start", "deps") /\ DependenciesMet(k, w)
    /\ running' = running \union {Res(k, w)}
    /\ renewed' = renewed \union ({Res(k, w)} \ running)
    /\ queued' = queued \ {Res(k, w)}
    /\ IF Res(k, w) \in Watched \ running THEN Steps(k, w, "health", {}) ELSE Ends(k, w)
    /\ UNCHANGED <<Command, known, exists, marker, label, filled, made, faults>>

HealthSeen(k, w) ==
    /\ Doing(k, w, "start", "health") /\ Res(k, w) \in label /\ Ends(k, w)
    /\ UNCHANGED <<Command, known, server, queued, faults>>

(* A wait for a service that was taken for absent ends in no other way. *)
WaitTimesOut(k, w) ==
    /\ Doing(k, w, "start", "deps") \/ Doing(k, w, "start", "health")
    /\ \/ Fault("timeout")
       \/ runs[k].worker[w].left \intersect lost # {} /\ UNCHANGED faults
    /\ Fails(k, w)
    /\ UNCHANGED <<Command, known, server, queued>>

(* A call to the server fails, in any other step of a task. *)
TaskFails(k, w) ==
    /\ runs[k].worker[w].at = "busy" /\ runs[k].worker[w].step \notin {"health", "fill"}
    /\ Plan[plan][k].act # "lookup"
    /\ Plan[plan][k].act = "ensure" \/ Res(k, w) \in known
    /\ Fault("operation") /\ Fails(k, w)
    /\ known' = IF Plan[plan][k].act = "delete" THEN known \ {Res(k, w)} ELSE known
    /\ UNCHANGED <<Command, server, queued>>

-----------------------------------------------------------------------------
(* ic-healthd: HealthChecker and HealthStatus, as far as a start meets it. *)

Healthd == <<Command, runs, known, exists, marker, filled, made, faults>>

Verdict(i) ==
    /\ i \in (running \intersect Watched) \ label
    /\ label' = label \union {i}
    /\ UNCHANGED <<Healthd, running, renewed, queued>>

ReportsStop(i) ==
    /\ i \in label \ running
    /\ label' = label \ {i}
    /\ UNCHANGED <<Healthd, running, renewed, queued>>

(* The restart's delay is over: a marked instance is left down. *)
RestartDue(i) ==
    /\ i \in queued /\ queued' = queued \ {i}
    /\ running' = running \union ({i} \ marker)
    /\ renewed' = renewed \union ({i} \ marker)
    /\ UNCHANGED <<Healthd, label>>

-----------------------------------------------------------------------------
Task(k, w) ==
    \/ Receive(k, w) \/ Cancel(k, w) \/ Lookup(k, w) \/ StopBegins(k, w) \/ PowerOff(k, w)
    \/ Delete(k, w) \/ Ensure(k, w) \/ CreateVolume(k, w) \/ FillVolume(k, w)
    \/ StartNetwork(k, w) \/ StartVolume(k, w) \/ StartBegins(k, w)
    \/ DependencySeen(k, w) \/ PowerOn(k, w) \/ HealthSeen(k, w)

Sequencing == NextRun \/ CommandEnds \/ OpenBatch \/ CloseBatch

(* The command has ended, and its process with it. *)
Done == result # "none" /\ UNCHANGED vars

Next ==
    \/ Sequencing \/ BetweenRunsFails \/ Done
    \/ \E k \in DOMAIN runs, w \in Workers :
          Task(k, w) \/ LookupFails(k, w) \/ FillFails(k, w) \/ WaitTimesOut(k, w) \/ TaskFails(k, w)
    \/ \E i \in Services : Verdict(i) \/ ReportsStop(i) \/ RestartDue(i)

(* Goroutines run on, and ic-healthd tests what runs: while something of   *)
(* theirs can go on, something does.                                       *)
Progress ==
    \/ Sequencing
    \/ \E k \in DOMAIN runs, w \in Workers : Task(k, w)
    \/ \E i \in Services : Verdict(i)

Spec == Init /\ [][Next]_vars
LiveSpec == Spec /\ WF_vars(Progress)

-----------------------------------------------------------------------------
(* Properties. *)

Busy(k, w) == runs[k].worker[w].at = "busy"

(* A pool of any size hands out the instances in dependency order, so what *)
(* a start waits for is never behind it in the queue: were it, a pool full *)
(* of waiting starts would time out with nobody left to start what they    *)
(* wait for.                                                               *)
NeverWaitsBehind ==
    \A k \in DOMAIN runs, w \in Workers :
        Busy(k, w) => runs[k].worker[w].left \intersect runs[k].queue = {}

(* The batches keep ErrDependencyNotEnsured from ever being met: when an   *)
(* instance is created every resource it is made from has been ensured.    *)
DependenciesEnsured ==
    \A k \in DOMAIN runs, w \in Workers :
        Busy(k, w) /\ Plan[plan][k].act = "ensure" => Needs(Res(k, w)) \subseteq known

(* A teardown takes an instance's networks and volumes only after the      *)
(* instance: where nothing fails, the server refuses no delete.            *)
NothingInUse ==
    \A k \in DOMAIN runs, w \in Workers :
        Busy(k, w) /\ Plan[plan][k].act = "delete" /\ Res(k, w) \in known /\ faults = 0
            => ~InUse(Res(k, w))

(* Deployment and teardown walk the dependencies in opposite orders, and   *)
(* neither meets a resource whose turn has not come.                       *)
InOrder == DependenciesEnsured /\ NothingInUse

(* A command that reports success did what it says: everything runs, a     *)
(* recreate has replaced every instance, a restart has started each there  *)
(* was anew; but for those it never saw, a read of theirs having failed.   *)
TrueSuccess ==
    result = "ok" /\ plan \notin {"down", "purge"} =>
        /\ plan # "restart" => Services \subseteq running
        /\ plan \in {"recreate", "rebuild"} => Services \ lost \subseteq made
        /\ plan = "restart" => (exists \intersect Services) \ lost \subseteq running \intersect renewed

(* What up.go:303-305 says of a recreate, "A delete that failed here must  *)
(* not look like success: the ensure below would accept the surviving      *)
(* instance and exit 0": success means that every instance is new.         *)
RecreateReplaces ==
    result = "ok" /\ plan \in {"recreate", "rebuild"} => Services \subseteq made

(* Only `down --volumes` takes a volume that was ever whole, and nothing   *)
(* is started on one that is not: a prefetch that fails leaves no volume.  *)
DataKept ==
    [][/\ plan # "purge" => filled \subseteq exists'
       /\ \A i \in running' \ running : Volumes \intersect Needs(i) \subseteq filled]_vars

(* An instance that the command starts waits for the others: all it        *)
(* depends on run then and are reported healthy, whatever the other        *)
(* workers and ic-healthd do meanwhile; but for one whose verdict outlived *)
(* its stop, which the wait takes for one on its next life.                *)
DependenciesAwaited ==
    [][\A i \in running' \ running :
          runs' # runs => DependsOn[i] \ late \subseteq running \intersect label]_vars

(* What docs/root/healthd.md:905-906 says of service_healthy, of whoever   *)
(* starts the dependent: it "must be healthy before starting the dependent *)
(* service".                                                               *)
DependenciesFirst ==
    [][\A i \in running' \ running : DependsOn[i] \subseteq running \intersect label]_vars

(* With nothing going wrong a command comes to its end, and to success.    *)
Completes == [](faults = 0) => <>(result = "ok")

=============================================================================
