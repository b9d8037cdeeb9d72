--------------------------- MODULE HealthChecker ----------------------------
(***************************************************************************)
(* The ic-healthd checker (cmd/ic-healthd/checker): one loop that owns the *)
(* watched instances, the pool workers it starts, and the Incus server,    *)
(* its lifecycle events and the compose client they all act on.            *)
(*                                                                         *)
(* The loop is sequential.  Between two selects it walks every instance in *)
(* map order; todo is what is left of that walk, which makes no call and   *)
(* is not interleaved.  Workers take one step per Incus call, and anything *)
(* may happen between two of them.                                         *)
(*                                                                         *)
(* What the handlers report (reportStatus) is HealthStatus: the scheduler  *)
(* never reads it back.  The results channel has no capacity here: a       *)
(* worker waits with its result until the loop takes it.                   *)
(***************************************************************************)
EXTENDS HealthInstance, Sequences, FiniteSets

CONSTANTS
    Instances,
    RawConfigs,      \* the configurations an instance may be given
    InitialServers,  \* how the daemon may find an instance when it comes up
    Operations,      \* what the world outside the daemon does of its own accord
    MaxOps,          \* bound: how often
    MaxLine          \* bound: events on their way per instance

(* The server's record of an instance: its power, the keys it carries, and *)
(* user.healthcheck.stopped, the marker of a stop somebody asked for.      *)
Server == [power: {"absent", "stopped", "running", "frozen"}, raw: RawConfigs, intent: BOOLEAN]

ASSUME CheckerAssumption ==
    /\ Instances # {}
    /\ RawConfigs \subseteq RawConfig
    /\ InitialServers \subseteq Server
    /\ Operations \subseteq {"crash", "update", "delete", "create",
                              "stop", "start", "pause", "unpause", "fault"}
    /\ MaxOps \in Nat /\ MaxLine \in Nat

VARIABLES
    tracked,  \* keys of the instances map
    inst,     \* its values; Blank for an instance not tracked
    todo,     \* instances runInstanceActions has not visited yet in this walk
    task,     \* the pool workers, by the identity of their action context
    incus,    \* the server's record of each instance
    line,     \* lifecycle events on their way to the checker, oldest first
    client,   \* the compose command half done on an instance
    ops

worldVars == <<incus, line, client, ops>>
vars == <<tracked, inst, todo, task, incus, line, client, ops>>

-----------------------------------------------------------------------------
(* State. *)

Blank == NewInstance([test |-> "NONE", restart |-> FALSE, startPeriod |-> FALSE,
                      interval |-> 1, retries |-> 1, running |-> FALSE])

FreeTask == [kind |-> "none", of |-> CHOOSE i \in Instances : TRUE,
             test |-> "NONE", step |-> "free", cancelled |-> FALSE, err |-> "ok"]

Tasks ==
    [kind: {"none", "check", "start"}, of: Instances, test: {"[]", "NONE", "CMD"},
     step: {"free", "get", "state", "exec", "stop", "start", "done"},
     cancelled: BOOLEAN, err: {"ok", "fail", "notRunning", "intent"}]

(* What a read of an instance brings back; "gone" is any answer that is    *)
(* not an instance, with which the event passes unfolded.                  *)
Snapshot(i) == [kind |-> IF incus[i].power = "absent" THEN "gone" ELSE "read",
                running |-> incus[i].power = "running", raw |-> incus[i].raw]
Unread == [kind |-> "unread"]
Reads == [kind: {"gone", "read"}, running: BOOLEAN, raw: RawConfigs] \union {Unread}
Events == [act: {"started", "stopped", "updated", "deleted"}, read: Reads]
Event(a) == [act |-> a, read |-> Unread]

(* The state of the checker and of its world is well typed; in particular  *)
(* the restart delay never leaves the range its doubling is capped to.     *)
TypeOK ==
    /\ tracked \subseteq Instances
    /\ inst \in [Instances -> Instance]
    /\ todo \subseteq tracked
    /\ task \in [TaskIds -> Tasks]
    /\ incus \in [Instances -> Server]
    /\ line \in [Instances -> Seq(Events)]
    /\ client \in [Instances -> {"none", "stop", "start", "pause", "unpause"}]
    /\ ops \in 0..MaxOps

(* The daemon comes up; its first sweep announces every instance there is. *)
Init ==
    /\ tracked = {} /\ todo = {}
    /\ inst = [i \in Instances |-> Blank]
    /\ task = [t \in TaskIds |-> FreeTask]
    /\ incus \in [Instances -> InitialServers]
    /\ line = [i \in Instances |-> IF incus[i].power = "absent" THEN <<>> ELSE <<Event("updated")>>]
    /\ client = [i \in Instances |-> "none"]
    /\ ops = 0

-----------------------------------------------------------------------------
(* Folding an event.  A fold ends its iteration of the loop, which goes on *)
(* to walk every instance.                                                 *)

Seen(i) == Head(line[i]).read
Saved(i) == SaveInstance(i \in tracked, inst[i], Seen(i).raw, Seen(i).running)

Folding(i, acts) ==
    /\ line[i] # <<>>
    /\ Head(line[i]).act \in acts
    /\ line' = [line EXCEPT ![i] = Tail(@)]
    /\ UNCHANGED <<incus, client, ops>>

FoldingRead(i, acts) == Folding(i, acts) /\ Seen(i).kind = "read"
Accepted(i) == Seen(i).raw.scope /\ ~ParseFails(Seen(i).raw)
Enriched == {"started", "stopped", "updated"}

Cancelled(i) ==
    IF i \in tracked /\ inst[i].ctx # NoTask
    THEN [task EXCEPT ![inst[i].ctx].cancelled = TRUE]
    ELSE task

(* The entry leaves the map; the caller says what becomes of its action. *)
Drop(i) == tracked' = tracked \ {i} /\ inst' = [inst EXCEPT ![i] = Blank]
Hold(i, r) == tracked' = tracked \union {i} /\ inst' = [inst EXCEPT ![i] = r]

FoldUnread(i) ==
    /\ Folding(i, Enriched) /\ Seen(i).kind = "gone"
    /\ UNCHANGED <<tracked, inst, task>>

(* The project left this daemon's scope. *)
FoldUnserveable(i) ==
    /\ FoldingRead(i, Enriched) /\ ~Seen(i).raw.scope
    /\ Drop(i)
    /\ task' = Cancelled(i)

(* saveInstance refuses the configuration: the entry goes, but its action  *)
(* is not cancelled.                                                       *)
FoldRefused(i) ==
    /\ FoldingRead(i, Enriched) /\ Seen(i).raw.scope /\ ParseFails(Seen(i).raw)
    /\ Drop(i)
    /\ UNCHANGED task

(* An action in flight owns the instance; its result says what comes next. *)
StartedNews(r) == IF r.state \in {"checking", "restarting"} THEN r ELSE InstanceStarted(r)

FoldStarted(i) ==
    /\ FoldingRead(i, {"started"}) /\ Accepted(i)
    /\ Hold(i, StartedNews(Saved(i)))
    /\ UNCHANGED task

FoldStopped(i) ==
    /\ FoldingRead(i, {"stopped"}) /\ Accepted(i)
    /\ \/ /\ Saved(i).cfg.restart
          /\ Hold(i, StoppedUnasked(Saved(i)))
          /\ UNCHANGED task
       \/ /\ ~Saved(i).cfg.restart
          /\ Drop(i)
          /\ task' = Cancelled(i)

FoldUpdated(i) ==
    /\ FoldingRead(i, {"updated"}) /\ Accepted(i)
    /\ Hold(i, Saved(i))
    /\ UNCHANGED task

FoldDeleted(i) ==
    /\ Folding(i, {"deleted"})
    /\ Drop(i)
    /\ task' = Cancelled(i)

Fold(i) ==
    /\ \/ FoldUnread(i) \/ FoldUnserveable(i) \/ FoldRefused(i)
       \/ FoldStarted(i) \/ FoldStopped(i) \/ FoldUpdated(i) \/ FoldDeleted(i)
    /\ todo' = tracked'

-----------------------------------------------------------------------------
(* runInstanceActions: one visit per instance, then the loop selects. *)

Visiting(i) == todo' = todo \ {i} /\ UNCHANGED <<tracked, worldVars>>

(* Mutant: the watchdog has an eye on restarts only. *)
ExpiredRestart(r) == r.state = "restarting" /\ r.ctx # NoTask /\ r.over

Expired(r) == r.state # "idle" /\ r.ctx # NoTask /\ r.over

Abandon(i) ==
    /\ Visiting(i)
    /\ Expired(inst[i])
    /\ task' = Cancelled(i)
    /\ inst' = [inst EXCEPT ![i] = Abandoned(@)]

(* What an idle, due instance wants done, if anything. *)
Due(r) ==
    CASE r.state # "idle" \/ ~r.due -> "none"
      [] r.state = "idle" /\ r.due /\ r.action = "start" -> "start"
      [] r.state = "idle" /\ r.due /\ r.action = "check" /\ r.cfg.running /\ r.cfg.test # "[]" -> "check"
      [] OTHER -> "none"

NewTask(i, k) ==
    [kind |-> k, of |-> i, test |-> inst[i].cfg.test,
     step |-> IF k = "check" THEN "state" ELSE "get",
     cancelled |-> FALSE, err |-> "ok"]

(* Context identities are interchangeable: any that is not in use will do. *)
FreshId == CHOOSE t \in TaskIds : task[t] = FreeTask

Submitted(r, t) ==
    [r EXCEPT !.state = IF r.action = "check" THEN "checking" ELSE "restarting",
              !.ctx = t, !.over = FALSE]

Submit(i) ==
    /\ Visiting(i)
    /\ Due(inst[i]) # "none"
    /\ \E t \in TaskIds : task[t] = FreeTask
    /\ task' = [task EXCEPT ![FreshId] = NewTask(i, Due(inst[i]))]
    /\ inst' = [inst EXCEPT ![i] = Submitted(@, FreshId)]

(* Every worker is busy, with these instances or with others of the fleet: *)
(* the action waits poolRetryDelay.                                        *)
Refuse(i) ==
    /\ Visiting(i)
    /\ Due(inst[i]) # "none"
    /\ inst' = [inst EXCEPT ![i].due = FALSE]
    /\ UNCHANGED task

PassBy(i) ==
    /\ Visiting(i)
    /\ ~Expired(inst[i]) /\ Due(inst[i]) = "none"
    /\ UNCHANGED <<inst, task>>

Visit(i) == Abandon(i) \/ Submit(i) \/ Refuse(i) \/ PassBy(i)

(* nextCheck fires: at the earliest due time, or after an hour. *)
Timer ==
    /\ \E i \in tracked : Expired(inst[i]) \/ Due(inst[i]) # "none"
    /\ todo' = tracked
    /\ UNCHANGED <<tracked, inst, task, worldVars>>

-----------------------------------------------------------------------------
(* Taking one result in. *)

(* The result belongs to the action the instance still holds. *)
Current(t) == task[t].of \in tracked /\ inst[task[t].of].ctx = t

Applied(r, t) == IF t.kind = "check" THEN Checked(r, t.err) ELSE Restarted(r, t.err)

Receive(t) ==
    /\ task[t].step = "done"
    /\ task' = [task EXCEPT ![t] = FreeTask]
    /\ inst' = IF Current(t) THEN [inst EXCEPT ![task[t].of] = Applied(@, task[t])] ELSE inst
    /\ todo' = tracked
    /\ UNCHANGED <<tracked, worldVars>>

-----------------------------------------------------------------------------
(* The Incus server: a change of state and the event announcing it. *)

Emit(i, a) == line' = [line EXCEPT ![i] = Append(@, Event(a))]

SetPower(i, p, a) ==
    /\ Len(line[i]) < MaxLine
    /\ incus' = [incus EXCEPT ![i].power = p]
    /\ Emit(i, a)

NoChange == UNCHANGED <<incus, line>>

Spend(op) == op \in Operations /\ ops < MaxOps /\ ops' = ops + 1

(* A call to Incus fails that nothing in the model makes fail. *)
Fault == Spend("fault")

-----------------------------------------------------------------------------
(* The workers.  A call made under a cancelled context returns an error,   *)
(* though a state change it asked for may have happened.                   *)

At(t, k, s) == task[t].kind = k /\ task[t].step = s
Power(t) == incus[task[t].of].power
Answering(t) == ~task[t].cancelled /\ Power(t) # "absent"

Step(t, s) == task' = [task EXCEPT ![t].step = s]
Finish(t, e) == task' = [task EXCEPT ![t].step = "done", ![t].err = e]

CallFails(t) ==
    /\ task[t].step \in {"get", "state", "exec", "stop", "start"}
    /\ Finish(t, "fail")
    /\ IF Answering(t) THEN Fault ELSE UNCHANGED ops
    /\ NoChange

RestartGet(t) ==
    /\ At(t, "start", "get") /\ Answering(t)
    /\ IF incus[task[t].of].intent THEN Finish(t, "intent") ELSE Step(t, "state")
    /\ UNCHANGED ops /\ NoChange

RestartState(t) ==
    /\ At(t, "start", "state") /\ Answering(t)
    /\ Step(t, IF Power(t) = "stopped" THEN "start" ELSE "stop")
    /\ UNCHANGED ops /\ NoChange

RestartStop(t) ==
    /\ At(t, "start", "stop")
    /\ \/ /\ Power(t) \in {"running", "frozen"}
          /\ SetPower(task[t].of, "stopped", "stopped")
          /\ IF task[t].cancelled THEN Finish(t, "fail") ELSE Step(t, "start")
       \/ Power(t) = "stopped" /\ Finish(t, "fail") /\ NoChange
    /\ UNCHANGED ops

RestartStart(t) ==
    /\ At(t, "start", "start")
    /\ \/ /\ Power(t) = "stopped"
          /\ SetPower(task[t].of, "running", "started")
          /\ Finish(t, IF task[t].cancelled THEN "fail" ELSE "ok")
       \/ Power(t) \in {"running", "frozen"} /\ Finish(t, "fail") /\ NoChange
    /\ UNCHANGED ops

CheckState(t) ==
    /\ At(t, "check", "state") /\ Answering(t)
    /\ IF Power(t) # "running" THEN Finish(t, "notRunning")
       ELSE CASE task[t].test = "[]" -> Finish(t, "fail")
              [] task[t].test = "NONE" -> Finish(t, "ok")
              [] OTHER -> Step(t, "exec")
    /\ UNCHANGED ops /\ NoChange

(* The command exits with zero or with something else; one that hangs has  *)
(* no step until it is cancelled.                                          *)
CheckExec(t) ==
    /\ At(t, "check", "exec") /\ Answering(t)
    /\ \E e \in IF Power(t) = "running" THEN {"ok", "fail"} ELSE {"fail"} : Finish(t, e)
    /\ UNCHANGED ops /\ NoChange

Call(t) ==
    /\ \/ CallFails(t)
       \/ RestartGet(t) \/ RestartState(t) \/ RestartStop(t) \/ RestartStart(t)
       \/ CheckState(t) \/ CheckExec(t)
    /\ UNCHANGED <<tracked, inst, todo, client>>

(* select { case <-actionCtx.Done(): case resultChan <- res: } *)
GiveUp(t) ==
    /\ task[t].step = "done" /\ task[t].cancelled
    /\ task' = [task EXCEPT ![t] = FreeTask]
    /\ UNCHANGED <<tracked, inst, todo, worldVars>>

-----------------------------------------------------------------------------
(* The event chain, as the checker meets it: events keep their order per   *)
(* instance, and one read serves every event of the instance waiting for   *)
(* one, so an event may carry a state the instance reached long after it.  *)

Waiting(i) == {k \in DOMAIN line[i] : line[i][k].read = Unread /\ line[i][k].act # "deleted"}

Settled(i, s) ==
    [k \in DOMAIN line[i] |-> IF k \in Waiting(i) THEN [line[i][k] EXCEPT !.read = s] ELSE line[i][k]]

Enrich(i) ==
    /\ Waiting(i) # {}
    /\ \/ line' = [line EXCEPT ![i] = Settled(i, Snapshot(i))] /\ UNCHANGED ops
       \/ line' = [line EXCEPT ![i] = Settled(i, [Snapshot(i) EXCEPT !.kind = "gone"])] /\ Fault
    /\ UNCHANGED <<tracked, inst, todo, task, incus, client>>

-----------------------------------------------------------------------------
(* The world: crashes, updates, and the compose client, which marks its    *)
(* intent before it stops an instance and clears it before it starts one.  *)

World(i, op) ==
    /\ Spend(op)
    /\ Len(line[i]) < MaxLine
    /\ UNCHANGED <<tracked, inst, todo, task>>

Crash(i) ==
    /\ World(i, "crash")
    /\ incus[i].power = "running"
    /\ SetPower(i, "stopped", "stopped")
    /\ UNCHANGED client

(* An update: new settings, or none the daemon reads (a sweep, the label). *)
Update(i, c) ==
    /\ World(i, "update")
    /\ incus[i].power # "absent"
    /\ incus' = [incus EXCEPT ![i].raw = c]
    /\ Emit(i, "updated")
    /\ UNCHANGED client

Delete(i) ==
    /\ World(i, "delete")
    /\ incus[i].power = "stopped" /\ client[i] = "none"
    /\ incus' = [incus EXCEPT ![i].power = "absent", ![i].intent = FALSE]
    /\ Emit(i, "deleted")
    /\ UNCHANGED client

(* The client creates an instance marked, so that the daemon waits for it; *)
(* no plugin asks for the created event.                                   *)
Create(i, c) ==
    /\ World(i, "create")
    /\ incus[i].power = "absent" /\ client[i] = "none"
    /\ incus' = [incus EXCEPT ![i] = [power |-> "stopped", raw |-> c, intent |-> TRUE]]
    /\ UNCHANGED <<line, client>>

(* The marker is written unless it already has the value. *)
Mark(i, value) ==
    /\ incus' = [incus EXCEPT ![i].intent = value]
    /\ IF incus[i].intent = value THEN UNCHANGED line ELSE Emit(i, "updated")

Begin(i, c, from, value) ==
    /\ World(i, c)
    /\ client[i] = "none" /\ incus[i].power \in from
    /\ client' = [client EXCEPT ![i] = c]
    /\ Mark(i, value)

ClientStops(i) == Begin(i, "stop", {"stopped", "running", "frozen"}, TRUE)
ClientStarts(i) == Begin(i, "start", {"stopped", "running"}, FALSE)
ClientPauses(i) == Begin(i, "pause", {"running"}, TRUE)

(* Unpause resumes first, and clears the marker after. *)
ClientUnpauses(i) ==
    /\ World(i, "unpause")
    /\ client[i] = "none" /\ incus[i].power = "frozen"
    /\ client' = [client EXCEPT ![i] = "unpause"]
    /\ SetPower(i, "running", "started")

(* The second half of a client command: the change of state, if it is      *)
(* still called for.                                                       *)
ClientFinishes(i) ==
    /\ client[i] # "none"
    /\ client' = [client EXCEPT ![i] = "none"]
    /\ LET p == incus[i].power IN
       CASE client[i] = "stop" /\ p \in {"running", "frozen"} -> SetPower(i, "stopped", "stopped")
         [] client[i] = "start" /\ p = "stopped" -> SetPower(i, "running", "started")
         [] client[i] = "pause" /\ p = "running" ->
                incus' = [incus EXCEPT ![i].power = "frozen"] /\ UNCHANGED line
         [] client[i] = "unpause" /\ p # "absent" -> Len(line[i]) < MaxLine /\ Mark(i, FALSE)
         [] OTHER -> NoChange
    /\ UNCHANGED <<tracked, inst, todo, task, ops>>

Environment(i) ==
    \/ Crash(i) \/ Delete(i)
    \/ ClientStops(i) \/ ClientStarts(i) \/ ClientPauses(i) \/ ClientUnpauses(i)
    \/ \E c \in RawConfigs : Update(i, c) \/ Create(i, c)

-----------------------------------------------------------------------------
(* The clock.  A deadline only matters to an instance that is not idle. *)

Clock(i, f) ==
    /\ i \in tracked /\ ~inst[i][f]
    /\ inst' = [inst EXCEPT ![i][f] = TRUE]
    /\ UNCHANGED <<tracked, todo, task, incus, line, client>>

DuePasses(i) == inst[i].state = "idle" /\ Clock(i, "due") /\ UNCHANGED ops
StartPeriodPasses(i) == inst[i].inStart /\ Clock(i, "startOver") /\ UNCHANGED ops

(* A probe may always overrun; a restart has twenty minutes for four calls *)
(* that Incus bounds, so one that overruns is a fault.                     *)
DeadlinePasses(i) ==
    /\ inst[i].state # "idle" /\ inst[i].ctx # NoTask
    /\ Clock(i, "over")
    /\ IF inst[i].state = "restarting" THEN Fault ELSE UNCHANGED ops

-----------------------------------------------------------------------------
Next ==
    \/ \E i \in todo : Visit(i)
    \/ /\ todo = {}
       /\ \/ Timer
          \/ \E t \in TaskIds : Receive(t) \/ Call(t) \/ GiveUp(t)
          \/ \E i \in Instances :
                \/ Fold(i) \/ Enrich(i)
                \/ DuePasses(i) \/ DeadlinePasses(i) \/ StartPeriodPasses(i)
                \/ ClientFinishes(i) \/ Environment(i)

Spec == Init /\ [][Next]_vars

(* Every process goes on.  The conditions are strong because a walk of the *)
(* loop disables the rest for no time at all, and because select picks     *)
(* among what is ready at random.  Calls to Incus return, except that a    *)
(* probe may hang for as long as the watchdog has an eye on it: one whose  *)
(* instance has moved on lost its process when the instance stopped.       *)
(* Pools do not refuse an instance for ever.                               *)
Hanging(t) == At(t, "check", "exec") /\ Current(t) /\ inst[task[t].of].state = "checking"

Fairness ==
    /\ WF_vars(\E i \in todo : Visit(i))
    /\ \A t \in TaskIds : SF_vars(todo = {} /\ ~Hanging(t) /\ (Call(t) \/ Receive(t)))
    /\ \A i \in Instances :
          /\ SF_vars(todo = {} /\ (Enrich(i) \/ Fold(i)))
          /\ SF_vars(todo = {} /\ (DuePasses(i) \/ DeadlinePasses(i) \/ Timer))
          /\ SF_vars(todo = {} /\ ClientFinishes(i))
          /\ SF_vars(Submit(i))

LiveSpec == Spec /\ Fairness

-----------------------------------------------------------------------------
(* Properties. *)

(* A slot is never orphaned: while an instance counts as checking or as    *)
(* restarting it holds the context of a worker of that kind, working for   *)
(* it and not cancelled, so that a result is coming and the watchdog can   *)
(* stop it; whatever the state, a held context is such a one.              *)
OwnedBy(i, r, workers) ==
    /\ r.ctx # NoTask => /\ workers[r.ctx].of = i
                         /\ workers[r.ctx].kind # "none"
                         /\ ~workers[r.ctx].cancelled
    /\ r.state = "checking" => r.ctx # NoTask /\ workers[r.ctx].kind = "check"
    /\ r.state = "restarting" => r.ctx # NoTask /\ workers[r.ctx].kind = "start"

OwnedSlots == \A i \in tracked : OwnedBy(i, inst[i], task)

(* A crash loop backs off: while an instance is watched its restart delay  *)
(* shrinks only when a probe of its own, not a stale one, succeeds.        *)
Earned(i) == \E t \in TaskIds : Current(t) /\ At(t, "check", "done") /\ task[t].of = i /\ task[t].err = "ok"
BackoffKept ==
    [][\A i \in tracked : i \in tracked' /\ inst'[i].delay < inst[i].delay => Earned(i)]_vars

(* A restart enters the queue of an instance whose settings, as last read, *)
(* ask for none only as the retry of one that was begun when they did, and *)
(* whose failure is still the instance's own.                              *)
Retried(i) == \E t \in TaskIds : Current(t) /\ At(t, "start", "done") /\ task[t].of = i
PolicyOnly ==
    [][\A i \in tracked' :
          inst'[i].action = "start" /\ inst[i].action # "start"
              => inst'[i].cfg.restart \/ Retried(i)]_vars

(* What the daemon owes an instance: it is this daemon's, its settings     *)
(* parse, and nobody marked it as stopped or is about to.                  *)
Owed(i) ==
    /\ incus[i].power # "absent" /\ ~incus[i].intent /\ client[i] = "none"
    /\ incus[i].raw.scope /\ ~ParseFails(incus[i].raw)

(* An instance that stays up and watched is probed again and again: probes *)
(* keep being started and keep coming to an end, through hung commands,    *)
(* refused submissions and events in any order.                            *)
KeepsChecking ==
    \A i \in Instances :
        <>[](Owed(i) /\ incus[i].raw.test # "[]" /\ incus[i].power = "running")
            => []<>(inst[i].state = "checking") /\ []<>(inst[i].state # "checking")

(* An instance with a restart policy that nobody means to be down does not *)
(* stay down.                                                              *)
ComesBack ==
    \A i \in Instances :
        <>[](Owed(i) /\ incus[i].raw.restart) => []<>(incus[i].power = "running")

=============================================================================
